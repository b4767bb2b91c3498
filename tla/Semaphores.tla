---------------------------- MODULE Semaphores ----------------------------
(***************************************************************************)
(* The kernel semaphores, Kernel/Semaphores/semaphores.c, on top of the    *)
(* scheduler.                                                              *)
(*                                                                         *)
(* A process that sleeps in semWait has a kernel frame that goes on after  *)
(* blockProcess once it is dispatched again, with interrupts still masked: *)
(* frame[p] is the semaphore that frame will decrement, and until SemWake  *)
(* has done it no other entry into the kernel is possible.                 *)
(***************************************************************************)
EXTENDS Scheduler

CONSTANTS
    SemIds,          \* semaphore ids
    Values,          \* initial values passed to semOpen
    MaxValue,        \* bound on the value posts may build up
    MaxQueue,        \* bound on the length of a blocked queue
    Sleepers,        \* processes that call semWait
    Allocations,     \* possible outcomes of alloc for a queue node
    OpenBeforeWait   \* callers of semWait have opened the semaphore

VARIABLES sems, frame

User     == -1    \* frame: the process runs user code when it has the CPU
Dangling == -2    \* frame: the semaphore it sleeps in was freed; what that frame
                  \* does when it goes on is undefined, so no step is taken for
                  \* it and nothing is claimed about it

ASSUME SemaphoresAssumption ==
    /\ SemIds \subseteq Nat
    /\ Values \subseteq 0..MaxValue
    /\ MaxValue \in Nat /\ MaxValue < Word - 1
    /\ MaxQueue \in Nat /\ Sleepers \subseteq Pids
    /\ Allocations \subseteq BOOLEAN /\ OpenBeforeWait \in BOOLEAN

semaphore == [exists : BOOLEAN, value : 0..(Word - 1), lock : BOOLEAN,
              activeQueue : Seq(Pids), blockedQueue : Seq(Pids)]

(* An id searchSemaphore does not find.                                    *)
NoSemaphore == [exists |-> FALSE, value |-> 0, lock |-> FALSE,
                activeQueue |-> <<>>, blockedQueue |-> <<>>]

searchSemaphore(id) == sems[id].exists

semVars == <<k, sems, frame>>

---------------------------------------------------------------------------
(* Mutant: sleepers are served last in, first out.                         *)
addToProcessQueueFront(queue, p, isActiveQueue, allocated) ==
    IF (isActiveQueue /\ Contains(queue, p)) \/ ~allocated THEN queue ELSE Cons(p, queue)

(* addToProcessQueue gives up silently when its node cannot be allocated;  *)
(* only the active queue is kept free of duplicates.                       *)
addToProcessQueue(queue, p, isActiveQueue, allocated) ==
    IF (isActiveQueue /\ Contains(queue, p)) \/ ~allocated THEN queue ELSE Append(queue, p)

removeFromQueue(queue, p) == IF Contains(queue, p) THEN Unlink(queue, p) ELSE queue

(* The spinlock.  Taking it while it is held spins with interrupts masked  *)
(* on the only CPU: the machine is lost (see OrSpin).                      *)
acquire(sem) == [sem EXCEPT !.lock = TRUE]

release(sem) == [sem EXCEPT !.lock = FALSE]

(* The two fields that semWait and semPost assign.                         *)
SetValue(sem, value) == [sem EXCEPT !.value = value]

SetBlockedQueue(sem, queue) == [sem EXCEPT !.blockedQueue = queue]

OrSpin(id, s) == IF sems[id].lock THEN [k EXCEPT !.up = FALSE] ELSE s

(* wakeup pops the first sleeper and unblocks it; unblockProcess ignores a *)
(* pid that is not blocked.                                                *)
wakeup(s, queue) == IF queue = <<>> THEN s ELSE unblockProcess(s, Head(queue))

(* Mutant: the node of the woken process stays in the queue.               *)
popBlockedQueueKeeps(queue) == queue

popBlockedQueue(queue) == IF queue = <<>> THEN queue ELSE Tail(queue)

---------------------------------------------------------------------------
(* p executes user code.                                                   *)
InUser(p) == Running(p) /\ frame[p] = User

(* Interrupts are enabled: user code, haltProc or main's final loop.       *)
Interruptible == k.cpu \in Pids => frame[k.cpu] = User

(* Ending a process drops its kernel frame.                                *)
DropFrames == frame' = [p \in Pids |-> IF Live(p)' THEN frame[p] ELSE User]

(* The processes asleep in semaphore id.                                   *)
Asleep(id) == {p \in Pids : frame[p] = id}

semOpenNew(p, id, value, allocated) ==
    /\ InUser(p)
    /\ ~searchSemaphore(id)
    /\ sems' = [sems EXCEPT ![id] =
                    release([exists |-> TRUE, value |-> value, lock |-> FALSE, blockedQueue |-> <<>>,
                             activeQueue |-> addToProcessQueue(<<>>, p, TRUE, allocated)])]
    /\ UNCHANGED <<k, frame>>

semOpenExisting(p, id, allocated) ==
    /\ InUser(p)
    /\ searchSemaphore(id)
    /\ sems' = [sems EXCEPT ![id].activeQueue = addToProcessQueue(@, p, TRUE, allocated)]
    /\ UNCHANGED <<k, frame>>

(* semWait up to `sleep', which releases the lock and gives up the CPU.    *)
semWait(p, id, allocated) ==
    /\ InUser(p)
    /\ searchSemaphore(id)
    /\ OpenBeforeWait => Contains(sems[id].activeQueue, p)
    /\ Len(sems[id].blockedQueue) < MaxQueue
    /\ IF sems[id].value > 0
       THEN /\ sems' = [sems EXCEPT ![id] = release(SetValue(acquire(@), sems[id].value - 1))]
            /\ k' = OrSpin(id, k)
            /\ UNCHANGED frame
       ELSE /\ sems' = [sems EXCEPT ![id] = SetBlockedQueue(release(acquire(@)),
                            addToProcessQueue(sems[id].blockedQueue, p, FALSE, allocated))]
            /\ k' = OrSpin(id, blockProcess(k, p))
            /\ frame' = [frame EXCEPT ![p] = id]

(* The rest of semWait, when the sleeper is dispatched again: the unsigned *)
(* decrement is not guarded by a second test of the value.                 *)
SemWake(p) ==
    /\ Running(p)
    /\ frame[p] \in SemIds
    /\ sems' = [sems EXCEPT ![frame[p]] =
                    release(SetValue(acquire(@), (sems[frame[p]].value - 1) % Word))]
    /\ k' = OrSpin(frame[p], k)
    /\ frame' = [frame EXCEPT ![p] = User]

(* Mutant: the poster yields with the lock held.                           *)
semPostLocked(p, id) ==
    /\ InUser(p)
    /\ searchSemaphore(id)
    /\ sems[id].value < MaxValue
    /\ sems' = [sems EXCEPT ![id] = SetBlockedQueue(
                    SetValue(acquire(@), (sems[id].value + 1) % Word),
                    popBlockedQueue(sems[id].blockedQueue))]
    /\ k' = OrSpin(id, yield(wakeup(k, sems[id].blockedQueue)))
    /\ UNCHANGED frame

(* Mutant: the poster keeps the CPU.                                       *)
semPostNoYield(p, id) ==
    /\ InUser(p)
    /\ searchSemaphore(id)
    /\ sems[id].value < MaxValue
    /\ sems' = [sems EXCEPT ![id] = release(SetBlockedQueue(
                    SetValue(acquire(@), (sems[id].value + 1) % Word),
                    popBlockedQueue(sems[id].blockedQueue)))]
    /\ k' = OrSpin(id, wakeup(k, sems[id].blockedQueue))
    /\ UNCHANGED frame

(* The poster releases the lock and then yields, so the process it woke,   *)
(* which is next in the ready list, is dispatched in the same entry.       *)
semPost(p, id) ==
    /\ InUser(p)
    /\ searchSemaphore(id)
    /\ sems[id].value < MaxValue
    /\ sems' = [sems EXCEPT ![id] = release(SetBlockedQueue(
                    SetValue(acquire(@), (sems[id].value + 1) % Word),
                    popBlockedQueue(sems[id].blockedQueue)))]
    /\ k' = OrSpin(id, yield(wakeup(k, sems[id].blockedQueue)))
    /\ UNCHANGED frame

(* Mutant: any process that closes the semaphore frees it.                 *)
semCloseFrees(p, id) ==
    /\ InUser(p)
    /\ searchSemaphore(id)
    /\ Contains(sems[id].activeQueue, p)
    /\ sems' = [sems EXCEPT ![id] = NoSemaphore]
    /\ frame' = [q \in Pids |-> IF q \in Asleep(id) THEN Dangling ELSE frame[q]]
    /\ UNCHANGED k

(* The semaphore is freed when the last process that opened it closes it.  *)
semClose(p, id) ==
    LET active == removeFromQueue(sems[id].activeQueue, p)
    IN  /\ InUser(p)
        /\ searchSemaphore(id)
        /\ Contains(sems[id].activeQueue, p)
        /\ sems' = [sems EXCEPT ![id] = IF active = <<>> THEN NoSemaphore
                                        ELSE [@ EXCEPT !.activeQueue = active]]
        /\ frame' = [q \in Pids |-> IF active = <<>> /\ q \in Asleep(id) THEN Dangling
                                    ELSE frame[q]]
        /\ UNCHANGED k

(* Any other entry into the kernel.                                        *)
SchedulerStep == Interruptible /\ Next /\ DropFrames /\ UNCHANGED sems

---------------------------------------------------------------------------
SemInit == Init /\ sems = [id \in SemIds |-> NoSemaphore] /\ frame = [p \in Pids |-> User]

SemNext ==
    \/ SchedulerStep
    \/ \E p \in Pids, id \in SemIds, value \in Values, allocated \in Allocations :
            semOpenNew(p, id, value, allocated)
    \/ \E p \in Pids, id \in SemIds, allocated \in Allocations : semOpenExisting(p, id, allocated)
    \/ \E p \in Sleepers, id \in SemIds, allocated \in Allocations : semWait(p, id, allocated)
    \/ \E p \in Pids : SemWake(p)
    \/ \E p \in Pids, id \in SemIds : semPost(p, id)
    \/ \E p \in Pids, id \in SemIds : semClose(p, id)

SemSpec == SemInit /\ [][SemNext]_semVars
---------------------------------------------------------------------------
SemTypeOK ==
    /\ TypeOK
    /\ sems \in [SemIds -> semaphore]
    /\ frame \in [Pids -> SemIds \cup {User, Dangling}]

(* No spinlock is held when the CPU changes hands: both semWait and        *)
(* semPost release it before they give up the CPU.  One that were held     *)
(* would hang the machine at the next acquire.                             *)
LocksFree == \A id \in SemIds : ~sems[id].lock

(* A sleeper that was woken has the CPU already: nobody runs between the   *)
(* post and the decrement that belongs to it, so nobody can take the unit  *)
(* it was woken for: the unconditional decrement finds a value above zero  *)
(* and the unsigned value never wraps.                                     *)
HandOff ==
    \A p \in Pids : k.up /\ frame[p] \in SemIds /\ Contains(k.ready, p)
        => k.cpu = p /\ sems[frame[p]].value > 0

(* No semaphore is freed under a process that sleeps in it.                *)
NoDangling == \A p \in Pids : frame[p] # Dangling

(* The value that is not promised to a process just woken.                 *)
Available(id) ==
    IF k.cpu \in Pids /\ frame[k.cpu] = id THEN sems[id].value - 1 ELSE sems[id].value

(* No wake-up is lost: the blocked queue holds exactly the processes       *)
(* asleep in the semaphore, all of them blocked, and while there is one    *)
(* nothing is available.                                                   *)
NoLostWakeup ==
    \A id \in SemIds :
        /\ ToSet(sems[id].blockedQueue) = Asleep(id) \ {k.cpu}
        /\ \A p \in ToSet(sems[id].blockedQueue) : Contains(k.blocked, p)
        /\ sems[id].blockedQueue # <<>> => Available(id) = 0

(* The semaphores implement counting semaphores with first-in first-out    *)
(* hand-off.                                                               *)
Abstract == INSTANCE CountingSemaphore WITH
    Ids   <- SemIds,
    Procs <- Pids,
    open  <- [id \in SemIds |-> sems[id].exists],
    avail <- [id \in SemIds |-> Available(id)],
    queue <- [id \in SemIds |-> sems[id].blockedQueue]

ImplementsCounting == Abstract!Spec
===========================================================================
