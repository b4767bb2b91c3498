------------------------------ MODULE Channel ------------------------------
(***************************************************************************)
(* What a pipe promises its users: bytes arrive in the order they were     *)
(* written, none twice and none missing, at most Capacity of them are on   *)
(* their way, and the end comes after the last byte.  The one exception is *)
(* named: closing a channel that is full puts the end in front of the      *)
(* bytes, which are lost.                                                  *)
(***************************************************************************)
EXTENDS SequencesExt, Naturals

CONSTANTS Data, Capacity, End

VARIABLES queue, open

vars == <<queue, open>>

Init == queue = <<>> /\ open = TRUE

Send(b) ==
    /\ open /\ Len(queue) < Capacity
    /\ queue' = Append(queue, b)
    /\ UNCHANGED open

(* The bytes handed over are a prefix; the end is never taken out.         *)
Receive(n) ==
    /\ n <= Len(queue)
    /\ ~Contains(SubSeq(queue, 1, n), End)
    /\ queue' = SubSeq(queue, n + 1, Len(queue))
    /\ UNCHANGED open

Close ==
    /\ open /\ Len(queue) < Capacity
    /\ queue' = Append(queue, End)
    /\ open' = FALSE

CloseFull ==
    /\ open /\ Len(queue) = Capacity
    /\ Head(queue') = End
    /\ open' = FALSE

(* Bytes nobody took when the channel disappeared.                         *)
Drop == ~open /\ queue' = <<>> /\ UNCHANGED open

Next ==
    \/ \E b \in Data : Send(b)
    \/ \E n \in 1..Capacity : Receive(n)
    \/ Close \/ CloseFull \/ Drop

Spec == Init /\ [][Next]_vars
============================================================================
