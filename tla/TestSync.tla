----------------------------- MODULE TestSync -----------------------------
(***************************************************************************)
(* The synchronisation test, Userland/SampleCodeModule/tests/test_sync.c:  *)
(* pairs of processes add and subtract in a shared number, with or without *)
(* a semaphore around it, and their parent waits for them with             *)
(* sys_semwait on their pids.                                              *)
(*                                                                         *)
(* A step is one access to the number or one semaphore operation.  There   *)
(* is no semaphore of a child, so the wait returns at once, except where a *)
(* child happens to have the pid SEM_ID: then the parent takes a unit of   *)
(* the semaphore its children share, or sleeps for one, and keeps it.      *)
(* (With a child of pid 3, the shell's SEM_READ, it waits for the keyboard *)
(* first, which has nothing to do with the number; FirstPids is above 3.)  *)
(***************************************************************************)
EXTENDS SequencesExt, Integers

CONSTANTS
    TOTAL_PAIR_PROCESSES,
    SEM_ID,
    Increments,       \* n, the additions of each process
    FirstPids         \* the pids the first child may get

ASSUME TestSyncAssumption ==
    /\ {TOTAL_PAIR_PROCESSES, Increments} \subseteq Nat \ {0}
    /\ SEM_ID \in Nat /\ FirstPids \subseteq Nat \ (0..3)

VARIABLES
    use_sem, firstPid,     \* the argument of the test, and its first child
    global,
    worker,                \* by child: where it is, aux, and additions done
    sync,                  \* the semaphore SEM_ID, closed while nobody has it
    parent                 \* where the parent is, and its loop index

syncVars == <<use_sem, firstPid, global, worker, sync, parent>>

Workers == 1..(2 * TOTAL_PAIR_PROCESSES)
Parent  == 0
SyncClosed == [value |-> 0, queue |-> <<>>, active |-> {}]

inc(w)  == IF w % 2 = 1 THEN -1 ELSE 1
pids(w) == firstPid + w - 1
Open    == sync.active # {}

Go(w, place) == [worker EXCEPT ![w].at = place]

---------------------------------------------------------------------------
(* The parent: children in turn, then a wait for each of them.             *)
CreateWorker ==
    LET w == parent.i
    IN  /\ parent.at = "create"
        /\ worker' = Go(w, IF use_sem THEN "open" ELSE "read")
        /\ parent' = IF w = 2 * TOTAL_PAIR_PROCESSES THEN [at |-> "join", i |-> 1]
                     ELSE [parent EXCEPT !.i = w + 1]
        /\ UNCHANGED <<use_sem, firstPid, global, sync>>

AfterJoin == IF parent.i = 2 * TOTAL_PAIR_PROCESSES THEN [at |-> "printed", i |-> 1]
             ELSE [at |-> "join", i |-> parent.i + 1]

Join ==
    /\ parent.at = "join"
    /\ IF pids(parent.i) = SEM_ID /\ Open
       THEN IF sync.value > 0
            THEN sync' = [sync EXCEPT !.value = @ - 1] /\ parent' = AfterJoin
            ELSE sync' = [sync EXCEPT !.queue = Append(@, Parent)]
                 /\ parent' = [parent EXCEPT !.at = "asleep"]
       ELSE parent' = AfterJoin /\ UNCHANGED sync
    /\ UNCHANGED <<use_sem, firstPid, global, worker>>

---------------------------------------------------------------------------
OpenSem(w) ==
    /\ worker[w].at = "open"
    /\ sync' = [sync EXCEPT !.active = @ \cup {w}, !.value = IF Open THEN @ ELSE 1]
    /\ worker' = Go(w, "wait")
    /\ UNCHANGED <<use_sem, firstPid, global, parent>>

WaitSem(w) ==
    /\ worker[w].at = "wait" /\ ~Contains(sync.queue, w)
    /\ IF sync.value > 0
       THEN sync' = [sync EXCEPT !.value = @ - 1] /\ worker' = Go(w, "read")
       ELSE sync' = [sync EXCEPT !.queue = Append(@, w)] /\ UNCHANGED worker
    /\ UNCHANGED <<use_sem, firstPid, global, parent>>

(* slowInc reads, gives up the CPU, and writes.                            *)
ReadGlobal(w) ==
    /\ worker[w].at = "read"
    /\ worker' = [worker EXCEPT ![w].at = "write", ![w].aux = global]
    /\ UNCHANGED <<use_sem, firstPid, global, sync, parent>>

WriteGlobal(w) ==
    /\ worker[w].at = "write"
    /\ global' = worker[w].aux + inc(w)
    /\ worker' = [worker EXCEPT ![w].i = @ + 1, ![w].aux = 0,
                                ![w].at = IF use_sem THEN "post"
                                          ELSE IF worker[w].i + 1 < Increments THEN "read" ELSE "done"]
    /\ UNCHANGED <<use_sem, firstPid, sync, parent>>

AfterPost(w) == IF worker[w].i < Increments THEN "wait" ELSE "close"

(* The unit goes to the first sleeper.                                     *)
PostSem(w) ==
    /\ worker[w].at = "post"
    /\ IF sync.queue = <<>>
       THEN /\ sync' = [sync EXCEPT !.value = @ + 1]
            /\ worker' = Go(w, AfterPost(w)) /\ UNCHANGED parent
       ELSE LET q == Head(sync.queue)
            IN  /\ sync' = [sync EXCEPT !.queue = Tail(@)]
                /\ worker' = IF q = Parent THEN Go(w, AfterPost(w))
                             ELSE [Go(w, AfterPost(w)) EXCEPT ![q].at = "read"]
                /\ parent' = IF q = Parent THEN AfterJoin ELSE parent
    /\ UNCHANGED <<use_sem, firstPid, global>>

(* Mutant: the semaphore goes with the first process that closes it.       *)
CloseSemFirst(w) ==
    /\ worker[w].at = "close"
    /\ sync' = SyncClosed
    /\ worker' = Go(w, "done")
    /\ UNCHANGED <<use_sem, firstPid, global, parent>>

(* The semaphore goes with the last process that has it open.              *)
CloseSem(w) ==
    /\ worker[w].at = "close"
    /\ sync' = IF sync.active = {w} THEN SyncClosed ELSE [sync EXCEPT !.active = @ \ {w}]
    /\ worker' = Go(w, "done")
    /\ UNCHANGED <<use_sem, firstPid, global, parent>>

---------------------------------------------------------------------------
SyncInit ==
    /\ use_sem \in BOOLEAN /\ firstPid \in FirstPids
    /\ global = 0
    /\ worker = [w \in Workers |-> [at |-> "none", aux |-> 0, i |-> 0]]
    /\ sync = SyncClosed
    /\ parent = [at |-> "create", i |-> 1]

TestSync == CreateWorker \/ Join

my_process_inc(w) ==
    \/ OpenSem(w) \/ WaitSem(w) \/ ReadGlobal(w) \/ WriteGlobal(w) \/ PostSem(w) \/ CloseSem(w)

SyncNext == TestSync \/ \E w \in Workers : my_process_inc(w)

---------------------------------------------------------------------------
Added == FoldFunctionOnSet(+, 0, [w \in Workers |-> inc(w) * worker[w].i], Workers)

(* The semaphore excludes: it never holds more than the one unit it was    *)
(* created with, also when it is closed and created anew in between.       *)
SyncTypeOK ==
    /\ use_sem \in BOOLEAN /\ firstPid \in FirstPids
    /\ global \in -(Increments * TOTAL_PAIR_PROCESSES)..(Increments * TOTAL_PAIR_PROCESSES)
    /\ \A w \in Workers :
        /\ worker[w].at \in {"none", "open", "wait", "read", "write", "post", "close", "done"}
        /\ worker[w].i \in 0..Increments
    /\ sync.value \in 0..1 /\ sync.active \subseteq Workers
    /\ parent.at \in {"create", "join", "asleep", "printed"} /\ parent.i \in Workers

(* With the semaphore no addition is lost, although every one of them is   *)
(* torn in two: the number is the sum of what was added so far.            *)
UpdatesKept == use_sem => global = Added

(* Nobody sleeps for the semaphore in vain: a child has its unit and will  *)
(* post it, unless a child has the pid SEM_ID and the parent may have      *)
(* taken the unit for good.                                                *)
SleepersServed ==
    sync.queue # <<>> =>
        \/ \E w \in Workers : worker[w].at \in {"read", "write", "post"}
        \/ parent.at # "create" /\ \E w \in Workers : pids(w) = SEM_ID
============================================================================
