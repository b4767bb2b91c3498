---------------------------- MODULE Philosophers ----------------------------
(***************************************************************************)
(* The dining philosophers, Userland/SampleCodeModule/philosophers.c: a    *)
(* manager that creates a process per philosopher, and on a key ends them  *)
(* all and starts over with one more or one fewer.                         *)
(*                                                                         *)
(* Everybody may be preempted between any two accesses to shared data, so  *)
(* a step is one access to philoVector or one semaphore operation.  The    *)
(* semaphores are counting semaphores with first-in first-out hand-off,    *)
(* which is what Semaphores is shown to implement; an operation on one     *)
(* that is not open does nothing.                                          *)
(*                                                                         *)
(* at[i] says where philosopher i is:                                      *)
(*   "none"     there is no such process                                   *)
(*   "think"    in front of tryToEat                                       *)
(*   "test"     at the condition of its loop                               *)
(*   "lock" "check" "grant" "unlock" "sleep"   inside the loop             *)
(*   "stop" "free" "left" "right" "done"       inside stopEating           *)
(***************************************************************************)
EXTENDS SequencesExt, Integers

CONSTANTS
    MAX_PHILO_COUNT,
    DEFAULT_PHILO_COUNT,
    MaxTokens       \* bound: so many units in a semaphore, or more

ASSUME PhilosophersAssumption ==
    /\ DEFAULT_PHILO_COUNT \in 2..MAX_PHILO_COUNT
    /\ MAX_PHILO_COUNT \in Nat /\ MaxTokens \in Nat /\ MaxTokens > 1

VARIABLES
    philoVector, philoCount,
    at,            \* see above
    sem,           \* MUTEX_ID and the semaphore of each philosopher
    manager        \* where the manager is, and the loop index it has there

philoVars == <<philoVector, philoCount, at, sem, manager>>

All   == 0..(MAX_PHILO_COUNT - 1)
Seats == 0..(philoCount - 1)

MUTEX_ID == -1     \* any id that is not that of a philosopher

LEFT(x)  == (x + philoCount - 1) % philoCount
RIGHT(x) == (x + 1) % philoCount

Semaphore == [open : BOOLEAN, value : 0..MaxTokens, queue : Seq(All)]
Closed    == [open |-> FALSE, value |-> 0, queue |-> <<>>]

Places == {"none", "think", "test", "lock", "check", "grant", "unlock", "sleep",
           "stop", "free", "left", "right", "done"}

---------------------------------------------------------------------------
(* Units pile up in the semaphore of a philosopher that is told more often *)
(* than it sleeps, without limit; MaxTokens stands for that many and more. *)
More(value) == IF value = MaxTokens THEN value ELSE value + 1

Fewer(value) == IF value = MaxTokens THEN {value, value - 1} ELSE {value - 1}

(* i goes on at `next', or sleeps where it is until somebody posts.        *)
sys_semwait(i, id, next) ==
    /\ ~Contains(sem[id].queue, i)
    /\ IF sem[id].open /\ sem[id].value = 0
       THEN /\ sem' = [sem EXCEPT ![id].queue = Append(@, i)]
            /\ UNCHANGED at
       ELSE /\ sem' \in IF sem[id].open
                        THEN {[sem EXCEPT ![id].value = n] : n \in Fewer(sem[id].value)}
                        ELSE {sem}
            /\ at' = [at EXCEPT ![i] = next]

(* Where the process goes that sleeps at this place.                       *)
Resumed(place) ==
    CASE place = "lock" -> "check" [] place = "stop" -> "free" [] place = "sleep" -> "test"
      [] place = "none" -> "none"

(* i posts and goes on at `next'.  The unit is handed to the first         *)
(* sleeper; if that one was killed the unit is left in the semaphore.      *)
sys_sempost(i, id, next) ==
    LET sleeping == sem[id].queue # <<>>
        q == Head(sem[id].queue)
    IN  /\ sem' = CASE ~sem[id].open -> sem
                    [] sem[id].open /\ sleeping ->
                        [sem EXCEPT ![id].queue = Tail(@),
                                    ![id].value = IF at[q] = "none" THEN More(@) ELSE @]
                    [] sem[id].open /\ ~sleeping -> [sem EXCEPT ![id].value = More(@)]
        /\ at' = IF sleeping THEN [at EXCEPT ![i] = next, ![q] = Resumed(at[q])]
                 ELSE [at EXCEPT ![i] = next]

Goto(i, next) == at' = [at EXCEPT ![i] = next] /\ UNCHANGED sem

Step(i, from) == at[i] = from /\ UNCHANGED <<philoCount, manager>>

---------------------------------------------------------------------------
(* tryToEat begins outside the mutex.                                      *)
GetHungry(i) ==
    /\ Step(i, "think")
    /\ philoVector' = [philoVector EXCEPT ![i] = "HUNGRY"]
    /\ Goto(i, "test")

TestHungry(i) ==
    /\ Step(i, "test")
    /\ Goto(i, IF philoVector[i] = "HUNGRY" THEN "lock" ELSE "stop")
    /\ UNCHANGED philoVector

Lock(i) == Step(i, "lock") /\ sys_semwait(i, MUTEX_ID, "check") /\ UNCHANGED philoVector

(* Mutant: only one of the forks is looked at.                             *)
CheckLeft(i) ==
    LET free == /\ philoVector[i] = "HUNGRY"
                /\ philoVector[LEFT(i)] # "EATING"
    IN  /\ Step(i, "check")
        /\ philoVector' = IF free THEN [philoVector EXCEPT ![i] = "EATING"] ELSE philoVector
        /\ Goto(i, IF free THEN "grant" ELSE "unlock")

Check(i) ==
    LET free == /\ philoVector[i] = "HUNGRY"
                /\ philoVector[LEFT(i)] # "EATING" /\ philoVector[RIGHT(i)] # "EATING"
    IN  /\ Step(i, "check")
        /\ philoVector' = IF free THEN [philoVector EXCEPT ![i] = "EATING"] ELSE philoVector
        /\ Goto(i, IF free THEN "grant" ELSE "unlock")

Grant(i) == Step(i, "grant") /\ sys_sempost(i, i, "unlock") /\ UNCHANGED philoVector

(* Mutant: the mutex is taken along to the table.                          *)
UnlockNot(i) == Step(i, "unlock") /\ Goto(i, "sleep") /\ UNCHANGED philoVector

Unlock(i) == Step(i, "unlock") /\ sys_sempost(i, MUTEX_ID, "sleep") /\ UNCHANGED philoVector

SleepOwn(i) == Step(i, "sleep") /\ sys_semwait(i, i, "test") /\ UNCHANGED philoVector

(* stopEating.                                                             *)
StopLock(i) == Step(i, "stop") /\ sys_semwait(i, MUTEX_ID, "free") /\ UNCHANGED philoVector

PutForks(i) ==
    /\ Step(i, "free")
    /\ philoVector' = [philoVector EXCEPT ![i] = "THINKING"]
    /\ Goto(i, "left")

Tell(i, j, next) ==
    /\ IF philoVector[j] = "HUNGRY" THEN sys_sempost(i, j, next) ELSE Goto(i, next)
    /\ UNCHANGED philoVector

(* Mutant: the left neighbour is not told.                                 *)
TellLeftNot(i) == Step(i, "left") /\ Goto(i, "right") /\ UNCHANGED philoVector

TellLeft(i) == Step(i, "left") /\ Tell(i, LEFT(i), "right")

TellRight(i) == Step(i, "right") /\ Tell(i, RIGHT(i), "done")

StopUnlock(i) == Step(i, "done") /\ sys_sempost(i, MUTEX_ID, "think") /\ UNCHANGED philoVector

Philosopher(i) ==
    \/ GetHungry(i) \/ TestHungry(i) \/ Lock(i) \/ Check(i) \/ Grant(i) \/ Unlock(i)
    \/ SleepOwn(i) \/ StopLock(i) \/ PutForks(i) \/ TellLeft(i) \/ TellRight(i) \/ StopUnlock(i)

---------------------------------------------------------------------------
At(pc, i) == manager.at = pc /\ manager.i = i

To(pc, i) == manager' = [manager EXCEPT !.at = pc, !.i = i]

sys_semopen(id, value) ==
    sem' = [sem EXCEPT ![id] = IF @.open THEN @
                               ELSE [open |-> TRUE, value |-> value, queue |-> <<>>]]

(* The manager alone has opened the semaphores, so they go with its close. *)
sys_semclose(id) == sem' = [sem EXCEPT ![id] = Closed]

OpenMutex ==
    /\ At("mutex", 0)
    /\ sys_semopen(MUTEX_ID, 1)
    /\ To("open", 0)
    /\ UNCHANGED <<philoVector, philoCount, at>>

OpenOwn(i) ==
    /\ At("open", i) /\ i < philoCount
    /\ sys_semopen(i, 0)
    /\ To("create", i)
    /\ UNCHANGED <<philoVector, philoCount, at>>

(* The philosopher finds in philoVector what the last one at its seat, or  *)
(* nobody, has left there.                                                 *)
Create(i) ==
    /\ At("create", i)
    /\ at' = [at EXCEPT ![i] = "think"]
    /\ To(IF i + 1 = philoCount THEN "keys" ELSE "open", IF i + 1 = philoCount THEN 0 ELSE i + 1)
    /\ UNCHANGED <<philoVector, philoCount, sem>>

(* `a', `r', and `t' or control-C; other keys, and a count at its limit,   *)
(* change nothing.                                                         *)
Key(modified, end) ==
    /\ At("keys", 0)
    /\ philoCount + modified \in 2..MAX_PHILO_COUNT
    /\ manager' = [at |-> "kill", i |-> 0, modified |-> modified, end |-> end]
    /\ UNCHANGED <<philoVector, philoCount, at, sem>>

(* Mutant: the process is killed after its semaphore was closed.           *)
KillLater(i) ==
    /\ At("kill", i) /\ i < philoCount
    /\ To("close", i)
    /\ UNCHANGED <<philoVector, philoCount, at, sem>>

(* A killed process leaves the queues as they are; its semaphore is        *)
(* removed right behind it.                                                *)
Kill(i) ==
    /\ At("kill", i) /\ i < philoCount
    /\ at' = [at EXCEPT ![i] = "none"]
    /\ To("close", i)
    /\ UNCHANGED <<philoVector, philoCount, sem>>

CloseOwn(i) ==
    /\ At("close", i)
    /\ sys_semclose(i)
    /\ To("kill", i + 1)
    /\ UNCHANGED <<philoVector, philoCount, at>>

(* All are dead: the mutex goes too, and the next round begins.            *)
EndRound ==
    /\ At("kill", philoCount)
    /\ sys_semclose(MUTEX_ID)
    /\ philoCount' = philoCount + manager.modified
    /\ manager' = [at |-> IF manager.end THEN "end" ELSE "mutex", i |-> 0,
                   modified |-> 0, end |-> FALSE]
    /\ UNCHANGED <<philoVector, at>>

Manager ==
    \/ OpenMutex \/ EndRound
    \/ \E i \in All : OpenOwn(i) \/ Create(i) \/ Kill(i) \/ CloseOwn(i)

---------------------------------------------------------------------------
PhiloInit ==
    /\ philoVector = [i \in All |-> "THINKING"]
    /\ philoCount = DEFAULT_PHILO_COUNT
    /\ at = [i \in All |-> "none"]
    /\ sem = [id \in All \cup {MUTEX_ID} |-> Closed]
    /\ manager = [at |-> "mutex", i |-> 0, modified |-> 0, end |-> FALSE]

PhiloNext ==
    \/ \E i \in All : Philosopher(i)
    \/ Manager
    \/ \E modified \in {-1, 1} : Key(modified, FALSE)
    \/ Key(0, TRUE)

---------------------------------------------------------------------------
(* The count of philosophers stays within the vector.                      *)
PhiloTypeOK ==
    /\ philoVector \in [All -> {"THINKING", "HUNGRY", "EATING"}]
    /\ philoCount \in 2..MAX_PHILO_COUNT
    /\ at \in [All -> Places]
    /\ sem \in [All \cup {MUTEX_ID} -> Semaphore]
    /\ manager \in [at : {"mutex", "open", "create", "keys", "kill", "close", "end"},
                    i : 0..MAX_PHILO_COUNT, modified : -1..1, end : BOOLEAN]

(* The philosopher has run in this round and holds both forks.             *)
Eating(i) == at[i] \notin {"none", "think"} /\ philoVector[i] = "EATING"

(* No two neighbours eat at the same time, in any round, whatever state    *)
(* the philosophers of the round before were killed in.                    *)
NeighboursApart == \A i, j \in Seats :
    i # j /\ j \in {LEFT(i), RIGHT(i)} => ~(Eating(i) /\ Eating(j))

(* A semaphore is only removed when nobody sleeps in it: philosophers die  *)
(* before the semaphores they use.                                         *)
NoSleeperLeft == \A i \in All :
    /\ at[i] # "none" => sem[MUTEX_ID].open /\ sem[i].open
    /\ at[i] = "sleep" => sem[i].open

(* Nobody waits for a wake-up that will not come: a hungry philosopher     *)
(* asleep without a unit has a neighbour that eats, that has stopped and   *)
(* not told it yet, or that is hungry too (its seat said EATING, a         *)
(* leftover of the round before, when it was looked at) and will eat.      *)
HungryIsTold == \A i \in Seats :
    manager.at = "keys" /\ Contains(sem[i].queue, i)
        => \E j \in {LEFT(i), RIGHT(i)} :
              \/ philoVector[j] # "THINKING"
              \/ at[j] = "left" /\ i = LEFT(j)
              \/ at[j] \in {"left", "right"} /\ i = RIGHT(j)

(* Somebody begins to eat again and again, as long as the manager waits    *)
(* for a key.                                                              *)
SomebodyEats == manager.at = "keys" ~> (manager.at # "keys" \/ \E i \in Seats : at[i] = "grant")
=============================================================================
