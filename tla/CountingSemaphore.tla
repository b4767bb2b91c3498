------------------------- MODULE CountingSemaphore -------------------------
(***************************************************************************)
(* What semOpen, semWait, semPost and semClose promise their callers: a    *)
(* counting semaphore whose units go to the waiting processes in the order *)
(* they arrived.                                                           *)
(***************************************************************************)
EXTENDS Sequences, Naturals

CONSTANTS Ids, Procs, Values

VARIABLES open, avail, queue

vars == <<open, avail, queue>>

Init ==
    /\ open  = [id \in Ids |-> FALSE]
    /\ avail = [id \in Ids |-> 0]
    /\ queue = [id \in Ids |-> <<>>]

Open(id, value) ==
    /\ ~open[id]
    /\ open'  = [open EXCEPT ![id] = TRUE]
    /\ avail' = [avail EXCEPT ![id] = value]
    /\ queue' = [queue EXCEPT ![id] = <<>>]

(* A unit is taken at once ...                                             *)
Take(id) ==
    /\ open[id] /\ avail[id] > 0
    /\ avail' = [avail EXCEPT ![id] = @ - 1]
    /\ UNCHANGED <<open, queue>>

(* ... or waited for, behind the processes that wait already.              *)
Await(p, id) ==
    /\ open[id] /\ avail[id] = 0
    /\ queue' = [queue EXCEPT ![id] = Append(@, p)]
    /\ UNCHANGED <<open, avail>>

(* A unit is given back ...                                                *)
Give(id) ==
    /\ open[id] /\ queue[id] = <<>>
    /\ avail' = [avail EXCEPT ![id] = @ + 1]
    /\ UNCHANGED <<open, queue>>

(* ... or passed on to the process that has waited longest.                *)
PassOn(id) ==
    /\ open[id] /\ queue[id] # <<>>
    /\ queue' = [queue EXCEPT ![id] = Tail(@)]
    /\ UNCHANGED <<open, avail>>

(* Only a semaphore nobody waits for disappears.                           *)
Close(id) ==
    /\ open[id] /\ queue[id] = <<>>
    /\ open'  = [open EXCEPT ![id] = FALSE]
    /\ avail' = [avail EXCEPT ![id] = 0]
    /\ UNCHANGED queue

Next ==
    \E id \in Ids :
        \/ \E value \in Values : Open(id, value)
        \/ \E p \in Procs : Await(p, id)
        \/ Take(id) \/ Give(id) \/ PassOn(id) \/ Close(id)

Spec == Init /\ [][Next]_vars
============================================================================
