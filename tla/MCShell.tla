------------------------------- MODULE MCShell -------------------------------
(***************************************************************************)
(* Two components whose ports have the same names and types that inject    *)
(* and print tell apart: for OCTET neither has a branch.                   *)
(***************************************************************************)
EXTENDS Shell, TLC

Long == [in |-> "in0" :> "LONG", out |-> "out0" :> "LONG"]
Octet == [in |-> "in0" :> "OCTET", out |-> "out0" :> "OCTET"]

MCLong == {Long}
MCUnlike == {Long, Octet}

MCWords == {"2", "3"}
MCNumber == "2" :> 2 @@ "3" :> 3
MCLetter == "2" :> 50 @@ "3" :> 51
MCTexts == {<<"2">>, <<"3">>}
=============================================================================
