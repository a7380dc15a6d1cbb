------------------------------ MODULE ByteFifo ------------------------------
(***************************************************************************)
(* What a SerialDevice promises of its receive side: the bytes that arrive *)
(* are handed out once each, in the order they arrived, and a read that is *)
(* asked for n bytes when n are stored takes at least n.  A byte is known  *)
(* by its place in the stream.                                             *)
(***************************************************************************)
EXTENDS Naturals, Sequences

VARIABLES
    stored,     \* the bytes received and not yet read
    last,       \* the byte read most recently
    next,       \* the byte that arrives next
    calm        \* nothing has gone wrong so far

vars == <<stored, last, next, calm>>

Init == stored = << >> /\ last = 0 /\ next = 1 /\ calm = TRUE

Arrive ==
    /\ stored' = Append(stored, next)
    /\ next' = next + 1
    /\ UNCHANGED last

Take ==
    /\ stored # << >>
    /\ last' = Head(stored)
    /\ stored' = Tail(stored)
    /\ UNCHANGED next

(* Once something has gone wrong nothing is promised any more.             *)
Next ==
    \/ calm /\ calm' /\ (Arrive \/ Take)
    \/ ~calm'

Spec == Init /\ [][Next]_vars
=============================================================================
