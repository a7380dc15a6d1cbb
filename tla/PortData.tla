------------------------------ MODULE PortData ------------------------------
(***************************************************************************)
(* What inject makes of the text it is given, and what print reads, by the *)
(* type code of the port.                                                  *)
(***************************************************************************)
EXTENDS Naturals, Sequences

CONSTANTS
    Words,      \* the items of a text, between commas
    Number,     \* atoi and atof: the number a word begins with, or 0
    Letter,     \* the code of its first character
    Texts       \* the texts that are typed, split at the commas

ASSUME WordsAssumption ==
    /\ Number \in [Words -> Nat] /\ Letter \in [Words -> Nat]
    /\ Texts \subseteq Seq(Words) /\ \A t \in Texts : t # << >>

Scalars == {"BOOLEAN", "CHAR", "OCTET", "LONG", "FLOAT", "DOUBLE"}
Sequenced == {"LONG_SEQ", "FLOAT_SEQ", "DOUBLE_SEQ"}
TypeCodes == Scalars \cup Sequenced \cup {"BOOLEAN_SEQ", "OCTET_SEQ", "CHAR_SEQ"}

(* An element of the data of a port, or, instead of it, as many bytes out  *)
(* of a std::vector object: its pointers.                                  *)
Elements == [number: Nat] \cup [vector: {"pointers"}]
Element(n) == [number |-> n]

(* inject has a branch for these; for the others it sends nothing.         *)
Injected == (Scalars \ {"OCTET"}) \cup Sequenced

(* print has no branch for the last two, and the loop over the ports goes  *)
(* on.                                                                     *)
Printed == {"LONG", "FLOAT", "DOUBLE"} \cup Sequenced
Skipped == {"BOOLEAN", "CHAR"}

(* What the help text says the value is.                                   *)
Meant(type, text) ==
    CASE type = "BOOLEAN" -> <<Element(IF text = <<"true">> THEN 1 ELSE 0)>>
      [] type = "CHAR" -> <<Element(Letter[Head(text)])>>
      [] type \in Sequenced -> [i \in DOMAIN text |-> Element(Number[text[i]])]
      [] OTHER -> <<Element(Number[Head(text)])>>

(* Slip: the code of the first character, whatever the type.               *)
SentSlip(type, text) == <<Element(Letter[Head(text)])>>

(* What is sent: the address given to send_inport_data for a sequence is   *)
(* that of the vector, not that of its elements.                           *)
Sent(type, text) ==
    IF type \in Sequenced THEN [i \in DOMAIN text |-> [vector |-> "pointers"]]
    ELSE Meant(type, text)
=============================================================================
