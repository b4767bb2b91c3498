---------------------------- MODULE UserlandProofs ----------------------------
(***************************************************************************)
(* Proofs about the dining philosophers and the shell: each from its own   *)
(* initial states and steps, and at the end about the specification that   *)
(* has one of them run.                                                    *)
(***************************************************************************)
EXTENDS MCUserland, FiniteSetTheorems, TLAPS

---------------------------------------------------------------------------
(***************************************************************************)
(* Philosophers.                                                           *)
(*                                                                         *)
(* For every number of seats and any number of rounds. The inductive       *)
(* invariant has five parts: where the manager is tells who exists and     *)
(* which semaphores are open (Round); who sleeps in a semaphore and where  *)
(* it goes on (Queues); what a philosopher has in philoVector at each      *)
(* place (Says); that the mutex is one (OneInside); and that whoever       *)
(* sleeps will be told (Told).                                             *)
(***************************************************************************)

PhiloSpec == PhiloInit /\ [][PhiloNext]_philoVars

(* Who exists, and which semaphores are open.                              *)
SeatHolds(i) ==
    /\ at[i] # "none" => i < philoCount /\ sem[i].open /\ sem[MUTEX_ID].open
    /\ sem[i].open => i < philoCount
    /\ manager.at = "mutex" => at[i] = "none" /\ ~sem[i].open
    /\ manager.at = "end" => at[i] = "none" /\ ~sem[i].open
    /\ manager.at = "open" => (at[i] # "none" => i < manager.i) /\ (sem[i].open <=> i < manager.i)
    /\ manager.at = "create" =>
            (at[i] # "none" => i < manager.i) /\ (sem[i].open <=> i <= manager.i)
    /\ manager.at = "kill" => (at[i] # "none" => manager.i <= i) /\ (sem[i].open => manager.i <= i)
    /\ manager.at = "close" => (at[i] # "none" => manager.i < i) /\ (sem[i].open => manager.i <= i)

Round ==
    /\ \A i \in All : SeatHolds(i)
    /\ manager.at = "mutex" => ~sem[MUTEX_ID].open
    /\ manager.at = "end" => ~sem[MUTEX_ID].open
    /\ manager.at = "open" => manager.i < philoCount /\ sem[MUTEX_ID].open
    /\ manager.at = "create" => manager.i < philoCount /\ sem[MUTEX_ID].open
    /\ manager.at = "kill" => manager.i <= philoCount
    /\ manager.at = "close" => manager.i < philoCount
    /\ philoCount + manager.modified \in 2..MAX_PHILO_COUNT

(* Nobody is being killed.                                                 *)
Quiet == manager.at \notin {"kill", "close"}

Queues ==
    /\ \A id \in All \cup {MUTEX_ID} : ~sem[id].open => sem[id] = Closed
    /\ IsInjective(sem[MUTEX_ID].queue)
    /\ \A q \in ToSet(sem[MUTEX_ID].queue) : at[q] \in {"lock", "stop"} \/ (at[q] = "none" /\ ~Quiet)
    /\ \A i \in All : sem[i].queue # <<>> =>
            /\ sem[i].queue = <<i>>
            /\ (at[i] = "sleep" /\ sem[i].value = 0) \/ (at[i] = "none" /\ ~Quiet)

(* What philosopher i has in philoVector, at each place.                   *)
Says(i) ==
    /\ at[i] = "test" => philoVector[i] # "THINKING"
    /\ at[i] \in {"lock", "check"} => philoVector[i] = "HUNGRY"
    /\ at[i] = "grant" => philoVector[i] = "EATING"
    /\ at[i] \in {"unlock", "sleep"} =>
            \/ philoVector[i] = "HUNGRY"
            \/ philoVector[i] = "EATING" /\ sem[i].value > 0
    /\ at[i] \in {"stop", "free"} => philoVector[i] = "EATING"

(* Between a semwait and a sempost of MUTEX_ID.                            *)
Inside == {"check", "grant", "unlock", "free", "left", "right", "done"}

OneInside ==
    /\ \A i, j \in All : at[i] \in Inside /\ at[j] \in Inside => i = j
    /\ \A i \in All : at[i] \in Inside => sem[MUTEX_ID].value = 0
    /\ sem[MUTEX_ID].value <= 1

(* j will tell i, or will eat first.                                       *)
Tells(j, i) ==
    \/ philoVector[j] # "THINKING"
    \/ at[j] = "left" /\ i = LEFT(j)
    \/ at[j] \in {"left", "right"} /\ i = RIGHT(j)

Told ==
    \A i \in Seats : Quiet /\ at[i] \in {"unlock", "sleep"} /\ sem[i].value = 0 =>
        Tells(LEFT(i), i) \/ Tells(RIGHT(i), i)

PhiloInv ==
    /\ PhiloTypeOK /\ Round /\ Queues /\ (\A i \in All : Says(i)) /\ OneInside /\ Told
    /\ NeighboursApart

---------------------------------------------------------------------------
Ids == All \cup {MUTEX_ID}

(* The seats are a circle, whatever the number of philosophers.            *)
LEMMA SeatFacts ==
    ASSUME PhiloTypeOK, NEW i \in Seats
    PROVE  /\ i \in All /\ LEFT(i) \in Seats /\ RIGHT(i) \in Seats
           /\ LEFT(i) # i /\ RIGHT(i) # i /\ LEFT(i) \in All /\ RIGHT(i) \in All
           /\ LEFT(RIGHT(i)) = i /\ RIGHT(LEFT(i)) = i
<1> DEFINE n == philoCount
<1>1. n \in Nat /\ n >= 2 /\ n <= MAX_PHILO_COUNT /\ MAX_PHILO_COUNT \in Nat
    BY PhilosophersAssumption DEF PhiloTypeOK
<1>2. i \in 0..(n - 1)
    BY DEF Seats
<1> HIDE DEF n
<1>3. \A x \in 0..(n - 1) : (x + 1) % n = IF x = n - 1 THEN 0 ELSE x + 1
    BY <1>1
<1>4. \A x \in 0..(n - 1) : (x + n - 1) % n = IF x = 0 THEN n - 1 ELSE x - 1
    <2> SUFFICES ASSUME NEW x \in 0..(n - 1)
                 PROVE  (x + n - 1) % n = IF x = 0 THEN n - 1 ELSE x - 1
        OBVIOUS
    <2>1. CASE x = 0
        BY <1>1, <2>1
    <2>2. CASE x # 0
        <3> DEFINE y == x + n - 1
        <3>1. y \in Int /\ y >= n /\ y < n + n /\ y - n = x - 1
            BY <1>1, <2>2
        <3> HIDE DEF y
        <3>2. y % n = y - n
            BY <1>1, <3>1
        <3> QED BY <2>2, <3>1, <3>2 DEF y
    <2> QED BY <2>1, <2>2
<1>5. /\ \A x \in 0..(n - 1) : RIGHT(x) = IF x = n - 1 THEN 0 ELSE x + 1
      /\ \A x \in 0..(n - 1) : LEFT(x) = IF x = 0 THEN n - 1 ELSE x - 1
    BY <1>3, <1>4 DEF LEFT, RIGHT, n
<1>6. Seats = 0..(n - 1) /\ All = 0..(MAX_PHILO_COUNT - 1)
    BY DEF Seats, All, n
<1> QED BY <1>1, <1>2, <1>5, <1>6

(* The mutex is none of the philosophers' semaphores.                      *)
LEMMA IdFacts ==
    /\ MUTEX_ID \notin All /\ MUTEX_ID \in Ids /\ \A i \in All : i \in Ids /\ i \in Int
    /\ MaxTokens \in Nat /\ MaxTokens > 1
BY PhilosophersAssumption DEF All, Ids, MUTEX_ID

(* The state in terms of its fields.                                       *)
LEMMA PhiloFields ==
    ASSUME PhiloTypeOK
    PROVE  /\ at \in [All -> Places] /\ sem \in [Ids -> Semaphore]
           /\ philoVector \in [All -> {"THINKING", "HUNGRY", "EATING"}]
           /\ \A id \in Ids : /\ sem[id] \in Semaphore /\ sem[id].open \in BOOLEAN
                              /\ sem[id].value \in 0..MaxTokens /\ sem[id].queue \in Seq(All)
                              /\ sem[id].value \in Int /\ sem[id].value >= 0
BY IdFacts DEF PhiloTypeOK, Semaphore, Ids

(* One semaphore changes, and to what.                                     *)
Became(id, v, b) ==
    /\ sem' \in [Ids -> Semaphore]
    /\ \A j \in Ids : j # id => sem'[j] = sem[j]
    /\ sem'[id].open = sem[id].open /\ sem'[id].value = v /\ sem'[id].queue = b

(* What an assignment to one semaphore does.                               *)
LEMMA QueueUpdate ==
    ASSUME sem \in [Ids -> Semaphore], NEW id \in Ids, NEW d \in Semaphore,
           d.open = sem[id].open, sem' = [sem EXCEPT ![id] = d]
    PROVE  Became(id, d.value, d.queue)
BY DEF Became

(* sys_semwait: i sleeps at the end of the queue, or goes on.              *)
LEMMA WaitFacts ==
    ASSUME PhiloTypeOK, NEW i \in All, NEW id \in Ids, NEW next \in Places, sem[id].open,
           sys_semwait(i, id, next)
    PROVE  /\ i \notin ToSet(sem[id].queue)
           /\ \/ /\ sem[id].value = 0 /\ at' = at
                 /\ Became(id, 0, Append(sem[id].queue, i))
              \/ /\ sem[id].value > 0 /\ at' = [at EXCEPT ![i] = next]
                 /\ \E v \in 0..MaxTokens : /\ Became(id, v, sem[id].queue)
                                            /\ sem[id].value = 1 => v = 0
<1> DEFINE c == sem[id]
<1>1. /\ sem \in [Ids -> Semaphore] /\ c \in Semaphore /\ c.value \in 0..MaxTokens
      /\ c.queue \in Seq(All) /\ c.value \in Int /\ c.value >= 0
    BY PhiloFields
<1>2. i \notin ToSet(c.queue)
    BY <1>1 DEF sys_semwait, Contains, ToSet
<1>3. CASE c.value = 0
    <2>1. sem' = [sem EXCEPT ![id].queue = Append(@, i)] /\ at' = at
        BY <1>3 DEF sys_semwait
    <2> DEFINE b == Append(c.queue, i)
    <2>2. sem' = [sem EXCEPT ![id] = [c EXCEPT !.queue = b]]
        BY <2>1
    <2>3. b \in Seq(All)
        BY <1>1
    <2> HIDE DEF b, c
    <2>4. Became(id, 0, b)
        BY <1>1, <1>3, <2>2, <2>3 DEF Became, Semaphore, c
    <2> QED BY <1>2, <1>3, <2>1, <2>4 DEF b, c
<1>4. CASE c.value # 0
    <2>1. /\ sem' \in {[sem EXCEPT ![id].value = n] : n \in Fewer(c.value)}
          /\ at' = [at EXCEPT ![i] = next]
        BY <1>4 DEF sys_semwait
    <2>2. PICK v \in Fewer(c.value) : sem' = [sem EXCEPT ![id] = [c EXCEPT !.value = v]]
        BY <2>1
    <2>3. v \in 0..MaxTokens /\ (c.value = 1 => v = 0) /\ c.value > 0
        BY <1>1, <1>4, IdFacts DEF Fewer
    <2> HIDE DEF c
    <2>4. Became(id, v, c.queue)
        BY <1>1, <2>2, <2>3 DEF Became, Semaphore, c
    <2> QED BY <1>2, <2>1, <2>3, <2>4 DEF c
<1> QED BY <1>3, <1>4

(* The value after a post.                                                 *)
LEMMA MoreFacts ==
    ASSUME NEW v \in 0..MaxTokens
    PROVE  More(v) \in 0..MaxTokens /\ More(v) > 0 /\ (v = 0 => More(v) = 1)
BY IdFacts DEF More

(* sys_sempost: nobody sleeps, or the first sleeper goes on; if that one   *)
(* was killed the unit stays.                                              *)
LEMMA PostFacts ==
    ASSUME PhiloTypeOK, Queues, NEW i \in All, NEW id \in Ids, NEW next \in Places,
           i \notin ToSet(sem[id].queue), sys_sempost(i, id, next)
    PROVE  LET c == sem[id]
               q == Head(c.queue)
           IN  \/ ~c.open /\ sem' = sem /\ at' = [at EXCEPT ![i] = next]
               \/ /\ c.open /\ c.queue = <<>> /\ at' = [at EXCEPT ![i] = next]
                  /\ Became(id, More(c.value), c.queue)
               \/ /\ c.open /\ c.queue # <<>> /\ q \in ToSet(c.queue) /\ q \in All /\ q # i
                  /\ at' = [at EXCEPT ![i] = next, ![q] = Resumed(at[q])]
                  /\ Became(id, IF at[q] = "none" THEN More(c.value) ELSE c.value, Tail(c.queue))
<1> DEFINE c == sem[id]
           q == Head(c.queue)
<1>1. /\ sem \in [Ids -> Semaphore] /\ c \in Semaphore /\ c.value \in 0..MaxTokens
      /\ c.queue \in Seq(All) /\ c.open \in BOOLEAN
    BY PhiloFields
<1>2. CASE ~c.open
    <2>1. c = Closed
        BY <1>2 DEF Queues, Ids
    <2>2. c.queue = <<>>
        BY <2>1 DEF Closed
    <2> QED BY <1>2, <2>2 DEF sys_sempost
<1>3. CASE c.open /\ c.queue = <<>>
    <2> DEFINE v == More(c.value)
               d == [c EXCEPT !.value = v]
    <2>1. sem' = [sem EXCEPT ![id].value = More(@)] /\ at' = [at EXCEPT ![i] = next]
        BY <1>3 DEF sys_sempost
    <2>2. sem' = [sem EXCEPT ![id] = d]
        BY <2>1
    <2>3. v \in 0..MaxTokens
        BY <1>1, MoreFacts
    <2> HIDE DEF c, v
    <2>4. d \in Semaphore /\ d.open = c.open /\ d.value = v /\ d.queue = c.queue
        BY <1>1, <2>3 DEF Semaphore
    <2> HIDE DEF d
    <2>5. Became(id, v, c.queue)
        BY <1>1, <2>2, <2>4, QueueUpdate DEF c
    <2> QED BY <1>3, <2>1, <2>5 DEF c, v
<1>4. CASE c.open /\ c.queue # <<>>
    <2> DEFINE v == IF at[q] = "none" THEN More(c.value) ELSE c.value
               b == Tail(c.queue)
               d == [[c EXCEPT !.queue = b] EXCEPT !.value = v]
    <2>1. /\ sem' = [sem EXCEPT ![id].queue = Tail(@),
                                ![id].value = IF at[q] = "none" THEN More(@) ELSE @]
          /\ at' = [at EXCEPT ![i] = next, ![q] = Resumed(at[q])]
        BY <1>4 DEF sys_sempost
    <2>2. q \in ToSet(c.queue) /\ q \in All /\ b \in Seq(All)
        BY <1>1, <1>4 DEF ToSet
    <2>3. v \in 0..MaxTokens
        BY <1>1, MoreFacts
    <2>4. sem' = [sem EXCEPT ![id] = d]
        BY <1>1, <2>1 DEF Semaphore
    <2> HIDE DEF v, b, q
    <2>5. d \in Semaphore /\ d.open = c.open /\ d.value = v /\ d.queue = b
        BY <1>1, <2>2, <2>3 DEF Semaphore
    <2> HIDE DEF d, c
    <2>6. Became(id, v, b)
        BY <1>1, <2>4, <2>5, QueueUpdate DEF c
    <2> QED BY <1>4, <2>1, <2>2, <2>6 DEF c, v, b, q
<1> QED BY <1>1, <1>2, <1>3, <1>4

(* What every step of a philosopher leaves alone: who exists, and which    *)
(* semaphores are open.                                                    *)
Kept ==
    /\ PhiloTypeOK' /\ philoCount' = philoCount /\ manager' = manager
    /\ \A id \in Ids : sem'[id].open = sem[id].open
    /\ \A x \in All : at'[x] = "none" <=> at[x] = "none"

(* Such a step leaves the round where it is.                               *)
LEMMA KeptRound ==
    ASSUME Round, Kept
    PROVE  Round'
<1>1. \A i \in All : SeatHolds(i)'
    BY IdFacts DEF Round, SeatHolds, Kept
<1> QED BY <1>1, IdFacts DEF Round, Kept

(* Left and right, and who is quiet, in the state a step leads to.         *)
LEMMA KeptSeats ==
    ASSUME Kept
    PROVE  /\ Seats' = Seats /\ Quiet' = Quiet
           /\ \A x \in All : LEFT(x)' = LEFT(x) /\ RIGHT(x)' = RIGHT(x)
BY DEF Kept, Seats, Quiet, LEFT, RIGHT

(* Who is not about to wait is in no queue.                                *)
LEMMA SleepsNowhere ==
    ASSUME PhiloTypeOK, Queues, NEW i \in All, at[i] \notin {"none", "lock", "stop", "sleep"},
           NEW id \in Ids
    PROVE  i \notin ToSet(sem[id].queue)
<1>1. CASE id = MUTEX_ID
    BY <1>1 DEF Queues
<1>2. CASE id \in All
    <2>1. sem[id].queue = <<>> \/ (sem[id].queue = <<id>> /\ at[id] \in {"sleep", "none"})
        BY <1>2 DEF Queues
    <2> QED BY <2>1 DEF ToSet
<1> QED BY <1>1, <1>2 DEF Ids

(* Nobody starts to eat.                                                   *)
LEMMA ApartKept ==
    ASSUME PhiloTypeOK, NeighboursApart, Kept, \A x \in Seats : Eating(x)' => Eating(x)
    PROVE  NeighboursApart'
<1> SUFFICES ASSUME NEW i \in Seats, NEW j \in Seats, i # j,
                    j = LEFT(i) \/ j = RIGHT(i), Eating(i)', Eating(j)'
             PROVE  FALSE
    BY KeptSeats, SeatFacts DEF NeighboursApart
<1> QED BY DEF NeighboursApart

(* Nobody else begins to wait, and who was to tell still is.               *)
LEMMA ToldKept ==
    ASSUME PhiloTypeOK, Told, Kept,
           \A x \in Seats : at'[x] \in {"unlock", "sleep"} /\ sem'[x].value = 0 =>
                /\ at[x] \in {"unlock", "sleep"} /\ sem[x].value = 0
                /\ \A y \in Seats : y \in {LEFT(x), RIGHT(x)} /\ Tells(y, x) => Tells(y, x)'
    PROVE  Told'
<1> SUFFICES ASSUME NEW x \in Seats, Quiet, at'[x] \in {"unlock", "sleep"}, sem'[x].value = 0
             PROVE  Tells(LEFT(x), x)' \/ Tells(RIGHT(x), x)'
    BY KeptSeats DEF Told
<1>1. LEFT(x) \in Seats /\ RIGHT(x) \in Seats /\ x \in All
    BY SeatFacts
<1>2. LEFT(x)' = LEFT(x) /\ RIGHT(x)' = RIGHT(x)
    BY <1>1, KeptSeats
<1>3. PICK y \in Seats : (y = LEFT(x) \/ y = RIGHT(x)) /\ Tells(y, x)
    BY <1>1 DEF Told
<1>4. Tells(y, x)'
    BY <1>3
<1> QED BY <1>2, <1>3, <1>4 DEF Tells

(* A step that touches no semaphore, of a philosopher that is not about to *)
(* wait.                                                                   *)
LEMMA GotoFacts ==
    ASSUME PhiloInv, NEW i \in All, NEW to \in Places, to # "none",
           at[i] \notin {"none", "lock", "stop", "sleep"}, to \in Inside <=> at[i] \in Inside,
           at' = [at EXCEPT ![i] = to], sem' = sem, UNCHANGED <<philoCount, manager>>,
           NEW v \in {"THINKING", "HUNGRY", "EATING"},
           philoVector' = [philoVector EXCEPT ![i] = v]
    PROVE  /\ Kept /\ Queues' /\ OneInside' /\ i \in Seats
           /\ \A x \in All : x # i => Says(x)'
           /\ at'[i] = to /\ philoVector'[i] = v
           /\ \A x \in All : x # i => at'[x] = at[x] /\ philoVector'[x] = philoVector[x]
<1>1. /\ PhiloTypeOK /\ at \in [All -> Places] /\ Queues /\ OneInside /\ Round
      /\ philoVector \in [All -> {"THINKING", "HUNGRY", "EATING"}]
    BY PhiloFields DEF PhiloInv
<1>2. /\ at'[i] = to /\ philoVector'[i] = v
      /\ \A x \in All : x # i => at'[x] = at[x] /\ philoVector'[x] = philoVector[x]
    BY <1>1
<1>3. Kept
    <2>1. PhiloTypeOK'
        BY <1>1 DEF PhiloTypeOK
    <2> QED BY <1>2, <2>1 DEF Kept
<1>4. Queues'
    <2>1. \A id \in Ids : i \notin ToSet(sem[id].queue)
        BY <1>1, SleepsNowhere
    <2>2. \A q \in ToSet(sem[MUTEX_ID].queue) : q \in All /\ q # i
        <3>1. sem[MUTEX_ID].queue \in Seq(All)
            BY <1>1, PhiloFields, IdFacts
        <3> QED BY <2>1, <3>1, IdFacts DEF ToSet
    <2>3. \A j \in All : sem[j].queue # <<>> => j # i
        BY <1>1 DEF Queues
    <2>4. Quiet' = Quiet
        BY <1>3, KeptSeats
    <2> QED BY <1>1, <1>2, <2>2, <2>3, <2>4 DEF Queues
<1>5. OneInside'
    BY <1>1, <1>2 DEF OneInside
<1>6. i \in Seats
    BY <1>1, PhilosophersAssumption DEF Round, SeatHolds, Seats, PhiloTypeOK, All
<1>7. \A x \in All : x # i => Says(x)'
    BY <1>2 DEF PhiloInv, Says
<1> QED BY <1>2, <1>3, <1>4, <1>5, <1>6, <1>7

(* tryToEat begins.                                                        *)
LEMMA GetHungryKeeps ==
    ASSUME PhiloInv, NEW i \in All, GetHungry(i)
    PROVE  PhiloInv'
<1> DEFINE to == "test"
           v == "HUNGRY"
<1>1. /\ at[i] = "think" /\ at' = [at EXCEPT ![i] = to] /\ sem' = sem
      /\ UNCHANGED <<philoCount, manager>> /\ philoVector' = [philoVector EXCEPT ![i] = v]
      /\ to \in Places /\ to # "none" /\ v \in {"THINKING", "HUNGRY", "EATING"}
      /\ to \notin Inside /\ at[i] \notin Inside /\ at[i] \notin {"none", "lock", "stop", "sleep"}
    BY DEF GetHungry, Step, Goto, Places, Inside
<1> HIDE DEF to, v
<1>2. /\ Kept /\ Queues' /\ OneInside' /\ i \in Seats
      /\ \A x \in All : x # i => Says(x)'
      /\ at'[i] = to /\ philoVector'[i] = v
      /\ \A x \in All : x # i => at'[x] = at[x] /\ philoVector'[x] = philoVector[x]
    BY <1>1, GotoFacts
<1>3. PhiloTypeOK /\ NeighboursApart /\ Told /\ \A x \in Seats : x \in All
    BY SeatFacts DEF PhiloInv
<1>4. Says(i)'
    BY <1>2 DEF Says, to, v
<1>5. NeighboursApart'
    BY <1>2, <1>3, ApartKept DEF Eating, v
<1>6. \A y \in All : \A x \in All : Tells(y, x) => Tells(y, x)'
    BY <1>1, <1>2, KeptSeats DEF Tells, v
<1>7. Told'
    BY <1>1, <1>2, <1>3, <1>6, ToldKept DEF to
<1> QED BY <1>2, <1>3, <1>4, <1>5, <1>7, KeptRound DEF PhiloInv, Kept

(* The condition of the loop of tryToEat.                                  *)
LEMMA TestHungryKeeps ==
    ASSUME PhiloInv, NEW i \in All, TestHungry(i)
    PROVE  PhiloInv'
<1> DEFINE to == IF philoVector[i] = "HUNGRY" THEN "lock" ELSE "stop"
           v == philoVector[i]
<1>1. PhiloTypeOK /\ NeighboursApart /\ Told /\ Says(i) /\ \A x \in Seats : x \in All
    BY SeatFacts DEF PhiloInv
<1>2. /\ at[i] = "test" /\ at' = [at EXCEPT ![i] = to] /\ sem' = sem
      /\ UNCHANGED <<philoCount, manager>> /\ philoVector' = [philoVector EXCEPT ![i] = v]
      /\ to \in Places /\ to # "none" /\ v \in {"THINKING", "HUNGRY", "EATING"}
      /\ to \notin Inside /\ at[i] \notin Inside /\ at[i] \notin {"none", "lock", "stop", "sleep"}
    BY <1>1, PhiloFields DEF TestHungry, Step, Goto, Places, Inside
<1>3. to \in {"lock", "stop"} /\ v # "THINKING" /\ (to = "lock" <=> v = "HUNGRY")
    BY <1>1, <1>2 DEF Says
<1> HIDE DEF to
<1>4. /\ Kept /\ Queues' /\ OneInside' /\ i \in Seats
      /\ \A x \in All : x # i => Says(x)'
      /\ at'[i] = to /\ philoVector'[i] = v
      /\ \A x \in All : x # i => at'[x] = at[x] /\ philoVector'[x] = philoVector[x]
    BY <1>2, GotoFacts
<1>5. Says(i)'
    BY <1>2, <1>3, <1>4 DEF Says
<1>6. NeighboursApart'
    BY <1>1, <1>2, <1>4, ApartKept DEF Eating
<1>7. \A y \in All : \A x \in All : Tells(y, x) => Tells(y, x)'
    BY <1>2, <1>4, KeptSeats DEF Tells
<1>8. Told'
    BY <1>1, <1>2, <1>3, <1>4, <1>7, ToldKept
<1> QED BY <1>1, <1>4, <1>5, <1>6, <1>8, KeptRound DEF PhiloInv, Kept

(* The forks are looked at, and taken if both are there.                   *)
LEMMA CheckKeeps ==
    ASSUME PhiloInv, NEW i \in All, Check(i)
    PROVE  PhiloInv'
<1> DEFINE free == /\ philoVector[i] = "HUNGRY"
                   /\ philoVector[LEFT(i)] # "EATING" /\ philoVector[RIGHT(i)] # "EATING"
           to == IF free THEN "grant" ELSE "unlock"
           v == IF free THEN "EATING" ELSE philoVector[i]
<1>1. /\ PhiloTypeOK /\ NeighboursApart /\ Told /\ Says(i) /\ \A x \in Seats : x \in All
      /\ philoVector[i] \in {"THINKING", "HUNGRY", "EATING"}
      /\ philoVector \in [All -> {"THINKING", "HUNGRY", "EATING"}]
    BY SeatFacts, PhiloFields DEF PhiloInv
<1>2. /\ at[i] = "check" /\ at' = [at EXCEPT ![i] = to] /\ sem' = sem
      /\ UNCHANGED <<philoCount, manager>> /\ philoVector' = [philoVector EXCEPT ![i] = v]
      /\ to \in Places /\ to # "none" /\ v \in {"THINKING", "HUNGRY", "EATING"}
      /\ to \in Inside /\ at[i] \in Inside /\ at[i] \notin {"none", "lock", "stop", "sleep"}
    <2>1. /\ at[i] = "check" /\ at' = [at EXCEPT ![i] = to] /\ sem' = sem
          /\ UNCHANGED <<philoCount, manager>>
          /\ philoVector' = IF free THEN [philoVector EXCEPT ![i] = "EATING"] ELSE philoVector
        BY DEF Check, Step, Goto
    <2>2. philoVector' = [philoVector EXCEPT ![i] = v]
        BY <1>1, <2>1
    <2>3. v \in {"THINKING", "HUNGRY", "EATING"} /\ to \in {"grant", "unlock"}
        BY <1>1
    <2> HIDE DEF to, v
    <2> QED BY <2>1, <2>2, <2>3 DEF Places, Inside
<1>3. /\ philoVector[i] = "HUNGRY" /\ v # "THINKING"
      /\ free => to = "grant" /\ v = "EATING"
      /\ ~free => to = "unlock" /\ v = "HUNGRY"
    BY <1>1, <1>2 DEF Says
<1> HIDE DEF to, v, free
<1>4. /\ Kept /\ Queues' /\ OneInside' /\ i \in Seats
      /\ \A x \in All : x # i => Says(x)'
      /\ at'[i] = to /\ philoVector'[i] = v
      /\ \A x \in All : x # i => at'[x] = at[x] /\ philoVector'[x] = philoVector[x]
    BY <1>2, GotoFacts
<1>5. Says(i)'
    BY <1>3, <1>4 DEF Says
<1>6. /\ \A x \in All : LEFT(x)' = LEFT(x) /\ RIGHT(x)' = RIGHT(x)
      /\ Seats' = Seats /\ Quiet' = Quiet
    BY <1>4, KeptSeats
<1>7. \A y \in All : \A x \in All : Tells(y, x) => Tells(y, x)'
    BY <1>2, <1>3, <1>4, <1>6 DEF Tells
<1>8. NeighboursApart'
    <2>1. CASE ~free
        BY <1>1, <1>2, <1>3, <1>4, <2>1, ApartKept DEF Eating
    <2>2. CASE free
        <3> SUFFICES ASSUME NEW x \in Seats, NEW y \in Seats, x # y,
                            y = LEFT(x) \/ y = RIGHT(x), Eating(x)', Eating(y)'
                     PROVE  FALSE
            BY <1>1, <1>6 DEF NeighboursApart
        <3>1. \A z \in All : z # i => (Eating(z)' <=> Eating(z))
            BY <1>4 DEF Eating
        <3>2. CASE x # i /\ y # i
            BY <1>1, <3>1, <3>2 DEF NeighboursApart
        <3>3. CASE x = i
            <4>1. philoVector[y] # "EATING"
                BY <2>2, <3>3 DEF free
            <4> QED BY <1>1, <3>1, <3>3, <4>1 DEF Eating
        <3>4. CASE y = i
            <4>1. x = LEFT(i) \/ x = RIGHT(i)
                BY <1>1, <3>4, SeatFacts
            <4>2. philoVector[x] # "EATING"
                BY <2>2, <4>1 DEF free
            <4> QED BY <1>1, <3>1, <3>4, <4>2 DEF Eating
        <3> QED BY <3>2, <3>3, <3>4
    <2> QED BY <2>1, <2>2
<1>9. Told'
    <2> SUFFICES ASSUME NEW x \in Seats, Quiet, at'[x] \in {"unlock", "sleep"},
                        sem'[x].value = 0
                 PROVE  Tells(LEFT(x), x)' \/ Tells(RIGHT(x), x)'
        BY <1>6 DEF Told
    <2>1. LEFT(x) \in Seats /\ RIGHT(x) \in Seats /\ LEFT(x) # x /\ RIGHT(x) # x
        BY <1>1, SeatFacts
    <2>2. PICK y \in Seats : (y = LEFT(x) \/ y = RIGHT(x)) /\ Tells(y, x)
        <3>1. CASE x # i
            BY <1>1, <1>2, <1>4, <2>1, <3>1 DEF Told
        <3>2. CASE x = i
            <4>1. philoVector[LEFT(x)] = "EATING" \/ philoVector[RIGHT(x)] = "EATING"
                BY <1>3, <1>4, <3>2 DEF free
            <4> QED BY <2>1, <4>1 DEF Tells
        <3> QED BY <3>1, <3>2
    <2>3. Tells(y, x)'
        BY <1>1, <1>7, <2>2
    <2>4. LEFT(x)' = LEFT(x) /\ RIGHT(x)' = RIGHT(x)
        BY <1>1, <1>6
    <2> QED BY <2>2, <2>3, <2>4 DEF Tells
<1> QED BY <1>1, <1>4, <1>5, <1>8, <1>9, KeptRound DEF PhiloInv, Kept

(* The forks are put back.                                                 *)
LEMMA PutForksKeeps ==
    ASSUME PhiloInv, NEW i \in All, PutForks(i)
    PROVE  PhiloInv'
<1> DEFINE to == "left"
           v == "THINKING"
<1>1. /\ at[i] = "free" /\ at' = [at EXCEPT ![i] = to] /\ sem' = sem
      /\ UNCHANGED <<philoCount, manager>> /\ philoVector' = [philoVector EXCEPT ![i] = v]
      /\ to \in Places /\ to # "none" /\ v \in {"THINKING", "HUNGRY", "EATING"}
      /\ to \in Inside /\ at[i] \in Inside /\ at[i] \notin {"none", "lock", "stop", "sleep"}
    BY DEF PutForks, Step, Goto, Places, Inside
<1> HIDE DEF to, v
<1>2. /\ Kept /\ Queues' /\ OneInside' /\ i \in Seats
      /\ \A x \in All : x # i => Says(x)'
      /\ at'[i] = to /\ philoVector'[i] = v
      /\ \A x \in All : x # i => at'[x] = at[x] /\ philoVector'[x] = philoVector[x]
    BY <1>1, GotoFacts
<1>3. PhiloTypeOK /\ NeighboursApart /\ Told /\ \A x \in Seats : x \in All
    BY SeatFacts DEF PhiloInv
<1>4. Says(i)'
    BY <1>2 DEF Says, to, v
<1>5. NeighboursApart'
    BY <1>2, <1>3, ApartKept DEF Eating, v
<1>6. ASSUME NEW x \in Seats, NEW y \in Seats, y \in {LEFT(x), RIGHT(x)}, Tells(y, x)
      PROVE  Tells(y, x)'
    <2>1. x = LEFT(y) \/ x = RIGHT(y)
        BY <1>3, <1>6, SeatFacts
    <2>2. LEFT(y)' = LEFT(y) /\ RIGHT(y)' = RIGHT(y) /\ y \in All
        BY <1>2, <1>3, KeptSeats
    <2> QED BY <1>2, <1>6, <2>1, <2>2 DEF Tells, to
<1>7. Told'
    BY <1>1, <1>2, <1>3, <1>6, ToldKept DEF to
<1> QED BY <1>2, <1>3, <1>4, <1>5, <1>7, KeptRound DEF PhiloInv, Kept

(* Queueing a process that is not in the queue.                            *)
LEMMA OneMoreWaits ==
    ASSUME NEW s \in Seq(All), IsInjective(s), NEW i \in All, i \notin ToSet(s)
    PROVE  /\ IsInjective(Append(s, i))
           /\ \A q : q \in ToSet(Append(s, i)) <=> q \in ToSet(s) \/ q = i
<1> DEFINE t == Append(s, i)
           n == Len(s)
<1>1. /\ n \in Nat /\ DOMAIN s = 1..n /\ DOMAIN t = 1..(n + 1) /\ t[n + 1] = i
      /\ \A x \in 1..n : t[x] = s[x] /\ x \in 1..(n + 1)
    OBVIOUS
<1>2. \A x \in 1..(n + 1) : x = n + 1 \/ x \in 1..n
    BY <1>1
<1> HIDE DEF t, n
<1>3. \A x \in 1..n : s[x] # i
    BY <1>1 DEF ToSet
<1>4. IsInjective(t)
    BY <1>1, <1>2, <1>3 DEF IsInjective
<1>5. \A q : q \in ToSet(t) <=> q \in ToSet(s) \/ q = i
    <2>1. n + 1 \in 1..(n + 1)
        BY <1>1
    <2> QED BY <1>1, <1>2, <2>1 DEF ToSet
<1> QED BY <1>4, <1>5 DEF t

(* The rest of a queue.                                                    *)
LEMMA OneLessWaits ==
    ASSUME NEW s \in Seq(All), IsInjective(s), s # <<>>
    PROVE  /\ IsInjective(Tail(s))
           /\ \A q \in ToSet(Tail(s)) : q \in ToSet(s) /\ q # Head(s)
<1> DEFINE t == Tail(s)
           n == Len(s)
<1>1. /\ n \in Nat /\ n > 0 /\ DOMAIN s = 1..n /\ DOMAIN t = 1..(n - 1) /\ Head(s) = s[1]
      /\ \A x \in 1..(n - 1) : t[x] = s[x + 1] /\ x + 1 \in 1..n /\ x + 1 # 1
    OBVIOUS
<1> HIDE DEF t, n
<1>2. \A x, y \in 1..n : s[x] = s[y] => x = y
    BY <1>1 DEF IsInjective
<1>3. ASSUME NEW x \in 1..(n - 1), NEW y \in 1..(n - 1), t[x] = t[y] PROVE x = y
    <2>1. x + 1 = y + 1
        BY <1>1, <1>2, <1>3
    <2> QED BY <1>1, <2>1
<1>4. IsInjective(t)
    BY <1>1, <1>3 DEF IsInjective
<1>5. \A x \in 1..(n - 1) : s[x + 1] # s[1]
    <2>1. 1 \in 1..n
        BY <1>1
    <2> QED BY <1>1, <1>2, <2>1
<1>6. \A q \in ToSet(t) : q \in ToSet(s) /\ q # Head(s)
    BY <1>1, <1>5 DEF ToSet
<1> QED BY <1>4, <1>6 DEF t

(* What a step that changes semaphore id and the places of some shows of   *)
(* the parts of the invariant that do not depend on id.                    *)
LEMMA StepKept ==
    ASSUME PhiloInv, UNCHANGED <<philoVector, philoCount, manager>>, NEW id \in Ids, NEW v,
           NEW b, Became(id, v, b), at' \in [All -> Places],
           \A x \in All : at'[x] = "none" <=> at[x] = "none"
    PROVE  /\ Kept /\ Round' /\ Seats' = Seats /\ Quiet' = Quiet
           /\ \A x \in All : LEFT(x)' = LEFT(x) /\ RIGHT(x)' = RIGHT(x)
<1>1. PhiloTypeOK'
    BY DEF PhiloInv, PhiloTypeOK, Became, Ids
<1>2. \A j \in Ids : sem'[j].open = sem[j].open
    BY DEF Became
<1>3. Kept
    BY <1>1, <1>2 DEF Kept
<1> QED BY <1>3, KeptRound, KeptSeats DEF PhiloInv

(* Waiting for the mutex.                                                  *)
LEMMA MutexWait ==
    ASSUME PhiloInv, NEW i \in All, NEW next \in Places,
           \/ at[i] = "lock" /\ next = "check"
           \/ at[i] = "stop" /\ next = "free",
           sys_semwait(i, MUTEX_ID, next), UNCHANGED <<philoVector, philoCount, manager>>
    PROVE  PhiloInv'
<1> DEFINE m == MUTEX_ID
           s == sem[m].queue
           z == 0
<1>1. /\ PhiloTypeOK /\ Queues /\ OneInside /\ Told /\ NeighboursApart /\ m \in Ids
      /\ at \in [All -> Places] /\ s \in Seq(All) /\ sem[m].open /\ m \notin All
      /\ \A x \in Seats : x \in All
    <2>1. at[i] # "none"
        OBVIOUS
    <2> QED BY <2>1, PhiloFields, IdFacts, SeatFacts DEF PhiloInv, Round, SeatHolds
<1>2. /\ i \notin ToSet(s)
      /\ \/ sem[m].value = 0 /\ at' = at /\ Became(m, z, Append(s, i))
         \/ /\ sem[m].value > 0 /\ at' = [at EXCEPT ![i] = next]
            /\ \E v \in 0..MaxTokens : Became(m, v, s) /\ (sem[m].value = 1 => v = 0)
    BY <1>1, WaitFacts
<1> HIDE DEF m, z
<1>3. CASE sem[m].value = 0 /\ at' = at /\ Became(m, z, Append(s, i))
    <2> DEFINE b == Append(s, i)
    <2>1. IsInjective(b) /\ \A q \in ToSet(b) : q \in ToSet(s) \/ q = i
        BY <1>1, <1>2, OneMoreWaits DEF Queues, m
    <2>2. Became(m, z, b)
        BY <1>3
    <2> HIDE DEF b
    <2>3. /\ Kept /\ Round' /\ Quiet' = Quiet
          /\ \A x \in All : sem'[x] = sem[x]
        <3>1. at' \in [All -> Places] /\ \A x \in All : at'[x] = "none" <=> at[x] = "none"
            BY <1>1, <1>3
        <3>2. Kept /\ Round' /\ Quiet' = Quiet
            BY <1>1, <2>2, <3>1, StepKept
        <3>3. \A x \in All : x \in Ids /\ x # m
            BY <1>1, IdFacts
        <3> QED BY <2>2, <3>2, <3>3 DEF Became
    <2>4. /\ sem'[m].queue = b /\ sem'[m].open /\ sem'[m].value = 0
        BY <1>1, <2>2 DEF Became, z
    <2>5. Queues'
        BY <1>1, <1>3, <2>1, <2>3, <2>4 DEF Queues, m
    <2>6. OneInside'
        BY <1>1, <1>3, <2>4 DEF OneInside, m
    <2>7. \A x \in All : Says(x)'
        BY <1>3, <2>3 DEF PhiloInv, Says
    <2>8. NeighboursApart'
        BY <1>1, <1>3, <2>3, ApartKept DEF Eating
    <2>9. \A y \in All : \A x \in All : Tells(y, x) => Tells(y, x)'
        BY <1>3, <2>3, KeptSeats DEF Tells
    <2>10. Told'
        BY <1>1, <1>3, <2>3, <2>9, ToldKept
    <2> QED BY <2>3, <2>5, <2>6, <2>7, <2>8, <2>10 DEF PhiloInv, Kept
<1>4. CASE /\ sem[m].value > 0 /\ at' = [at EXCEPT ![i] = next]
           /\ \E v \in 0..MaxTokens : Became(m, v, s) /\ (sem[m].value = 1 => v = 0)
    <2>1. sem[m].value = 1 /\ \A x \in All : at[x] \notin Inside
        BY <1>1, <1>4, PhiloFields DEF OneInside, m
    <2>2. Became(m, z, s)
        BY <1>4, <2>1 DEF z
    <2>3. /\ at'[i] = next /\ \A x \in All : x # i => at'[x] = at[x]
        BY <1>1, <1>4
    <2>4. /\ at' \in [All -> Places] /\ \A x \in All : at'[x] = "none" <=> at[x] = "none"
        BY <1>1, <1>4, <2>3
    <2>5. /\ Kept /\ Round' /\ Quiet' = Quiet
          /\ \A x \in All : sem'[x] = sem[x]
        <3>1. Kept /\ Round' /\ Quiet' = Quiet
            BY <1>1, <2>2, <2>4, StepKept
        <3>2. \A x \in All : x \in Ids /\ x # m
            BY <1>1, IdFacts
        <3> QED BY <2>2, <3>1, <3>2 DEF Became
    <2>6. /\ sem'[m].queue = s /\ sem'[m].open /\ sem'[m].value = 0
        BY <1>1, <2>2 DEF Became, z
    <2>7. Queues'
        <3>1. \A q \in ToSet(s) : q \in All /\ q # i
            BY <1>1, <1>2 DEF ToSet
        <3>2. \A x \in All : sem[x].queue # <<>> => x # i
            BY <1>1 DEF Queues
        <3> QED BY <1>1, <2>3, <2>5, <2>6, <3>1, <3>2 DEF Queues, m
    <2>8. OneInside'
        BY <2>1, <2>3, <2>6 DEF OneInside, m
    <2>9. \A x \in All : Says(x)'
        BY <2>3, <2>5 DEF PhiloInv, Says
    <2>10. NeighboursApart'
        BY <1>1, <2>3, <2>5, ApartKept DEF Eating
    <2>11. \A y \in All : \A x \in All : Tells(y, x) => Tells(y, x)'
        BY <2>3, <2>5, KeptSeats DEF Tells
    <2>12. Told'
        BY <1>1, <2>3, <2>5, <2>11, ToldKept
    <2> QED BY <2>5, <2>7, <2>8, <2>9, <2>10, <2>12 DEF PhiloInv, Kept
<1> QED BY <1>2, <1>3, <1>4

(* A philosopher sleeps in its own semaphore, or takes a unit from it.     *)
LEMMA SleepOwnKeeps ==
    ASSUME PhiloInv, NEW i \in All, SleepOwn(i)
    PROVE  PhiloInv'
<1> DEFINE m == MUTEX_ID
           z == 0
           n == "test"
           e == <<>>
<1>1. /\ PhiloTypeOK /\ Queues /\ OneInside /\ Told /\ NeighboursApart /\ i \in Ids /\ m \in Ids
      /\ at \in [All -> Places] /\ sem[i].open /\ at[i] = "sleep" /\ m \notin All /\ i # m
      /\ (\A x \in Seats : x \in All) /\ (\A x \in All : x \in Ids)
      /\ sys_semwait(i, i, n) /\ n \in Places
      /\ UNCHANGED <<philoVector, philoCount, manager>>
    <2>1. at[i] = "sleep" /\ sys_semwait(i, i, n) /\ UNCHANGED <<philoVector, philoCount, manager>>
        BY DEF SleepOwn, Step
    <2>2. n \in Places
        BY DEF Places
    <2> HIDE DEF n
    <2> QED BY <2>1, <2>2, PhiloFields, IdFacts, SeatFacts DEF PhiloInv, Round, SeatHolds
<1> HIDE DEF n, m
<1>2. /\ i \notin ToSet(sem[i].queue)
      /\ \/ sem[i].value = 0 /\ at' = at /\ Became(i, z, Append(sem[i].queue, i))
         \/ /\ sem[i].value > 0 /\ at' = [at EXCEPT ![i] = n]
            /\ \E v \in 0..MaxTokens : Became(i, v, sem[i].queue)
    BY <1>1, WaitFacts
<1>3. sem[i].queue = e
    <2>1. sem[i].queue = e \/ sem[i].queue = <<i>>
        BY <1>1 DEF Queues
    <2>2. i \in ToSet(<<i>>)
        BY DEF ToSet
    <2> QED BY <1>2, <2>1, <2>2
<1>4. Append(e, i) = <<i>>
    OBVIOUS
<1> HIDE DEF z, e
<1>5. CASE sem[i].value = 0 /\ at' = at /\ Became(i, z, Append(sem[i].queue, i))
    <2> DEFINE b == <<i>>
    <2>1. Became(i, z, b)
        BY <1>3, <1>4, <1>5
    <2> HIDE DEF b
    <2>2. at' \in [All -> Places] /\ \A x \in All : at'[x] = "none" <=> at[x] = "none"
        BY <1>1, <1>5
    <2>3. Kept /\ Round' /\ Quiet' = Quiet
        BY <1>1, <2>1, <2>2, StepKept
    <2>4. /\ \A x \in Ids : x # i => sem'[x] = sem[x]
          /\ sem'[i].queue = b /\ sem'[i].open /\ sem'[i].value = 0
        BY <1>1, <2>1 DEF Became, z
    <2>5. Queues'
        <3>1. \A x \in All : sem'[x].queue # <<>> =>
                /\ sem'[x].queue = <<x>>
                /\ (at'[x] = "sleep" /\ sem'[x].value = 0) \/ (at'[x] = "none" /\ ~Quiet')
            <4> SUFFICES ASSUME NEW x \in All, sem'[x].queue # <<>>
                         PROVE  /\ sem'[x].queue = <<x>>
                                /\ \/ at'[x] = "sleep" /\ sem'[x].value = 0
                                   \/ at'[x] = "none" /\ ~Quiet'
                OBVIOUS
            <4>1. CASE x = i
                BY <1>1, <1>5, <2>4, <4>1 DEF b
            <4>2. CASE x # i
                BY <1>1, <1>5, <2>3, <2>4, <4>2 DEF Queues
            <4> QED BY <4>1, <4>2
        <3>2. \A x \in Ids : ~sem'[x].open => sem'[x] = Closed
            BY <1>1, <2>4 DEF Queues, Ids
        <3>3. sem'[m].queue = sem[m].queue
            BY <1>1, <2>4
        <3>4. \A q \in ToSet(sem'[m].queue) :
                at'[q] \in {"lock", "stop"} \/ (at'[q] = "none" /\ ~Quiet')
            BY <1>1, <1>5, <2>3, <3>3 DEF Queues, m
        <3> QED BY <1>1, <3>1, <3>2, <3>3, <3>4 DEF Queues, Ids, m
    <2>6. OneInside'
        BY <1>1, <1>5, <2>4 DEF OneInside, m
    <2>7. \A x \in All : Says(x)'
        <3>1. \A x \in All : sem'[x].value = sem[x].value
            BY <1>1, <1>5, <2>4
        <3> QED BY <1>1, <1>5, <3>1 DEF PhiloInv, Says
    <2>8. NeighboursApart'
        BY <1>1, <1>5, <2>3, ApartKept DEF Eating
    <2>9. \A y \in All : \A x \in All : Tells(y, x) => Tells(y, x)'
        BY <1>1, <1>5, <2>3, KeptSeats DEF Tells
    <2>10. Told'
        BY <1>1, <1>5, <2>3, <2>4, <2>9, ToldKept
    <2> QED BY <2>3, <2>5, <2>6, <2>7, <2>8, <2>10 DEF PhiloInv, Kept
<1>6. CASE /\ sem[i].value > 0 /\ at' = [at EXCEPT ![i] = n]
           /\ \E v \in 0..MaxTokens : Became(i, v, sem[i].queue)
    <2>1. PICK v \in 0..MaxTokens : Became(i, v, e)
        BY <1>3, <1>6
    <2>2. /\ at' \in [All -> Places] /\ \A x \in All : at'[x] = "none" <=> at[x] = "none"
          /\ at'[i] = "test" /\ \A x \in All : x # i => at'[x] = at[x]
        BY <1>1, <1>6 DEF n
    <2>3. Kept /\ Round' /\ Quiet' = Quiet
        BY <1>1, <2>1, <2>2, StepKept
    <2>4. /\ \A x \in Ids : x # i => sem'[x] = sem[x]
          /\ sem'[i].queue = e /\ sem'[i].open
        BY <1>1, <2>1 DEF Became
    <2>5. Queues'
        <3>1. \A x \in Ids : ~sem'[x].open => sem'[x] = Closed
            BY <1>1, <2>4 DEF Queues, Ids
        <3>2. sem'[m].queue = sem[m].queue
            BY <1>1, <2>4
        <3>3. \A q \in ToSet(sem[m].queue) : q # i /\ q \in All
            <4>1. sem[m].queue \in Seq(All)
                BY <1>1, PhiloFields
            <4> QED BY <1>1, <4>1 DEF Queues, m, ToSet
        <3>4. \A q \in ToSet(sem'[m].queue) :
                at'[q] \in {"lock", "stop"} \/ (at'[q] = "none" /\ ~Quiet')
            BY <1>1, <2>2, <2>3, <3>2, <3>3 DEF Queues, m
        <3>5. \A x \in All : sem'[x].queue # <<>> =>
                /\ sem'[x].queue = <<x>>
                /\ (at'[x] = "sleep" /\ sem'[x].value = 0) \/ (at'[x] = "none" /\ ~Quiet')
            BY <1>1, <2>2, <2>3, <2>4 DEF Queues, e
        <3> QED BY <1>1, <3>1, <3>2, <3>4, <3>5 DEF Queues, Ids, m
    <2>6. OneInside'
        BY <1>1, <2>2, <2>4 DEF OneInside, m, Inside
    <2>7. \A x \in All : Says(x)'
        BY <1>1, <2>2, <2>4 DEF PhiloInv, Says
    <2>8. NeighboursApart'
        BY <1>1, <2>2, <2>3, ApartKept DEF Eating
    <2>9. \A y \in All : \A x \in All : Tells(y, x) => Tells(y, x)'
        BY <1>1, <2>2, <2>3, KeptSeats DEF Tells
    <2>10. Told'
        BY <1>1, <2>2, <2>3, <2>4, <2>9, ToldKept
    <2> QED BY <2>3, <2>5, <2>6, <2>7, <2>8, <2>10 DEF PhiloInv, Kept
<1> QED BY <1>2, <1>5, <1>6

(* The mutex is left, and goes to the first that waits for it.             *)
LEMMA MutexPost ==
    ASSUME PhiloInv, NEW i \in All, NEW next \in Places,
           \/ at[i] = "unlock" /\ next = "sleep"
           \/ at[i] = "done" /\ next = "think",
           sys_sempost(i, MUTEX_ID, next), UNCHANGED <<philoVector, philoCount, manager>>
    PROVE  PhiloInv'
<1> DEFINE m == MUTEX_ID
           s == sem[m].queue
           q == Head(s)
           dead == at[q] = "none"
           spot == IF s # <<>> THEN Resumed(at[q]) ELSE "none"
           v == IF s = <<>> \/ dead THEN 1 ELSE 0
           b == IF s = <<>> THEN s ELSE Tail(s)
<1>1. /\ PhiloTypeOK /\ Queues /\ OneInside /\ Told /\ NeighboursApart /\ m \in Ids
      /\ at \in [All -> Places] /\ s \in Seq(All) /\ sem[m].open /\ m \notin All
      /\ (\A x \in Seats : x \in All) /\ (\A x \in All : x \in Ids)
      /\ at[i] \notin {"none", "lock", "stop", "sleep"} /\ at[i] \in Inside
      /\ next \notin Inside /\ next # "none"
    <2>1. at[i] # "none"
        OBVIOUS
    <2> QED BY <2>1, PhiloFields, IdFacts, SeatFacts DEF PhiloInv, Round, SeatHolds, Inside
<1>2. sem[m].value = 0 /\ i \notin ToSet(s) /\ \A x \in All : x # i => at[x] \notin Inside
    <2>1. i \notin ToSet(s)
        BY <1>1, SleepsNowhere
    <2> QED BY <1>1, <2>1 DEF OneInside
<1>3. 0 \in 0..MaxTokens /\ More(0) = 1
    <2>1. 0 \in 0..MaxTokens
        BY IdFacts
    <2> QED BY <2>1, MoreFacts
<1>4. /\ Became(m, v, b) /\ (s # <<>> => q \in ToSet(s) /\ q \in All /\ q # i)
      /\ at' = IF s = <<>> THEN [at EXCEPT ![i] = next]
               ELSE [at EXCEPT ![i] = next, ![q] = Resumed(at[q])]
    <2>1. \/ /\ s = <<>> /\ at' = [at EXCEPT ![i] = next] /\ Became(m, More(sem[m].value), s)
          \/ /\ s # <<>> /\ q \in ToSet(s) /\ q \in All /\ q # i
             /\ at' = [at EXCEPT ![i] = next, ![q] = Resumed(at[q])]
             /\ Became(m, IF dead THEN More(sem[m].value) ELSE sem[m].value, Tail(s))
        <3> HIDE DEF m
        <3> QED BY <1>1, <1>2, PostFacts DEF m
    <2> HIDE DEF m
    <2> QED BY <1>2, <1>3, <2>1
<1>5. /\ s # <<>> => \/ at[q] = "lock" /\ spot = "check"
                     \/ at[q] = "stop" /\ spot = "free"
                     \/ at[q] = "none" /\ spot = "none" /\ ~Quiet
    BY <1>1, <1>4 DEF Queues, Resumed
<1>6. /\ at'[i] = next /\ \A x \in All : x # i /\ (s = <<>> \/ x # q) => at'[x] = at[x]
      /\ s # <<>> => at'[q] = spot
    BY <1>1, <1>4
<1>7. /\ IsInjective(b) /\ \A x \in ToSet(b) : x \in ToSet(s) /\ (s # <<>> => x # q)
    <2>1. CASE s = <<>>
        BY <1>1, <2>1 DEF Queues
    <2>2. CASE s # <<>>
        <3>1. IsInjective(s)
            BY <1>1 DEF Queues
        <3> QED BY <1>1, <2>2, <3>1, OneLessWaits
    <2> QED BY <2>1, <2>2
<1>8. v \in {0, 1} /\ ((s # <<>> /\ ~dead) <=> v = 0)
    OBVIOUS
<1> HIDE DEF m, b, v, spot, q
<1>9. at' \in [All -> Places] /\ \A x \in All : at'[x] = "none" <=> at[x] = "none"
    <2>1. spot \in Places
        BY <1>5, <1>1 DEF spot, Places
    <2>2. at' \in [All -> Places]
        BY <1>1, <1>4, <2>1 DEF spot
    <2> QED BY <1>1, <1>5, <1>6, <2>2
<1>10. Kept /\ Round' /\ Quiet' = Quiet
    BY <1>1, <1>4, <1>9, StepKept
<1>11. /\ \A x \in All : sem'[x] = sem[x]
       /\ sem'[m].queue = b /\ sem'[m].open /\ sem'[m].value = v
    BY <1>1, <1>4 DEF Became
<1>12. Queues'
    <2>1. \A x \in Ids : ~sem'[x].open => sem'[x] = Closed
        BY <1>1, <1>11 DEF Queues, Ids, m
    <2>2. \A x \in ToSet(s) : x \in All /\ x # i
        BY <1>1, <1>2 DEF ToSet
    <2>3. \A x \in ToSet(sem'[m].queue) :
            at'[x] \in {"lock", "stop"} \/ (at'[x] = "none" /\ ~Quiet')
        BY <1>1, <1>6, <1>7, <1>10, <1>11, <2>2 DEF Queues, m
    <2>4. \A x \in All : sem'[x].queue # <<>> =>
            /\ sem'[x].queue = <<x>>
            /\ (at'[x] = "sleep" /\ sem'[x].value = 0) \/ (at'[x] = "none" /\ ~Quiet')
        BY <1>1, <1>4, <1>5, <1>6, <1>10, <1>11 DEF Queues
    <2> QED BY <1>7, <1>11, <2>1, <2>3, <2>4 DEF Queues, Ids, m
<1>13. OneInside'
    <2>1. \A x \in All : at'[x] \in Inside => s # <<>> /\ x = q /\ ~dead
        BY <1>1, <1>2, <1>5, <1>6 DEF Inside
    <2> QED BY <1>8, <1>11, <2>1 DEF OneInside, m
<1>14. \A x \in All : Says(x)'
    <2> SUFFICES ASSUME NEW x \in All
                 PROVE  Says(x)'
        OBVIOUS
    <2>1. Says(x) /\ sem'[x] = sem[x]
        BY <1>11 DEF PhiloInv
    <2>2. CASE x = i
        BY <1>6, <2>1, <2>2 DEF Says
    <2>3. CASE x # i /\ s # <<>> /\ x = q
        BY <1>5, <1>6, <2>1, <2>3 DEF Says
    <2>4. CASE x # i /\ (s = <<>> \/ x # q)
        BY <1>6, <2>1, <2>4 DEF Says
    <2> QED BY <2>2, <2>3, <2>4
<1>15. NeighboursApart'
    BY <1>1, <1>4, <1>5, <1>6, <1>10, ApartKept DEF Eating
<1>16. \A y \in All : \A x \in All : Tells(y, x) => Tells(y, x)'
    BY <1>1, <1>4, <1>5, <1>6, <1>10, KeptSeats DEF Tells
<1>17. \A x \in Seats : at'[x] \in {"unlock", "sleep"} => at[x] \in {"unlock", "sleep"}
    BY <1>1, <1>5, <1>6
<1>18. Told'
    BY <1>1, <1>10, <1>11, <1>16, <1>17, ToldKept
<1> QED BY <1>10, <1>12, <1>13, <1>14, <1>15, <1>18 DEF PhiloInv, Kept

(* A neighbour that needs no unit, or has no semaphore yet, is not told.   *)
LEMMA TellNobody ==
    ASSUME PhiloInv, NEW i \in All, NEW j \in All, NEW next \in Places,
           \/ at[i] = "left" /\ next = "right" /\ j = LEFT(i)
           \/ at[i] = "right" /\ next = "done" /\ j = RIGHT(i),
           at[j] \in {"unlock", "sleep"} => sem[j].value > 0,
           at' = [at EXCEPT ![i] = next], sem' = sem,
           UNCHANGED <<philoVector, philoCount, manager>>
    PROVE  PhiloInv'
<1> DEFINE v == philoVector[i]
<1>1. /\ PhiloTypeOK /\ NeighboursApart /\ Told /\ Says(i) /\ (\A x \in Seats : x \in All)
      /\ v \in {"THINKING", "HUNGRY", "EATING"} /\ sem[j].value \in Int
      /\ philoVector \in [All -> {"THINKING", "HUNGRY", "EATING"}]
    BY SeatFacts, PhiloFields, IdFacts DEF PhiloInv
<1>2. /\ next # "none" /\ philoVector' = [philoVector EXCEPT ![i] = v]
      /\ next \in Inside /\ at[i] \in Inside /\ at[i] \notin {"none", "lock", "stop", "sleep"}
    BY <1>1 DEF Inside
<1>3. /\ Kept /\ Queues' /\ OneInside' /\ i \in Seats
      /\ \A x \in All : x # i => Says(x)'
      /\ at'[i] = next /\ philoVector'[i] = v
      /\ \A x \in All : x # i => at'[x] = at[x] /\ philoVector'[x] = philoVector[x]
    <2> HIDE DEF v
    <2> QED BY <1>1, <1>2, GotoFacts
<1>4. Says(i)'
    BY <1>3 DEF Says
<1>5. NeighboursApart'
    BY <1>1, <1>2, <1>3, ApartKept DEF Eating
<1>6. ASSUME NEW x \in Seats, NEW y \in Seats, y \in {LEFT(x), RIGHT(x)}, Tells(y, x), x # j
      PROVE  Tells(y, x)'
    <2>1. LEFT(y)' = LEFT(y) /\ RIGHT(y)' = RIGHT(y) /\ y \in All
        BY <1>1, <1>3, KeptSeats
    <2> QED BY <1>3, <1>6, <2>1 DEF Tells
<1>7. \A x \in Seats : at'[x] \in {"unlock", "sleep"} /\ sem'[x].value = 0 =>
            at[x] \in {"unlock", "sleep"} /\ sem[x].value = 0 /\ x # j
    BY <1>1, <1>3
<1>8. Told'
    BY <1>1, <1>3, <1>6, <1>7, ToldKept
<1> QED BY <1>1, <1>3, <1>4, <1>5, <1>8, KeptRound DEF PhiloInv, Kept

(* A unit for the semaphore of a philosopher: it has not slept yet, or it  *)
(* is woken up.                                                            *)
LEMMA SeatPost ==
    ASSUME PhiloInv, NEW i \in All, NEW j \in All, NEW next \in Places,
           \/ at[i] = "grant" /\ next = "unlock" /\ j = i
           \/ at[i] = "left" /\ next = "right" /\ j = LEFT(i) /\ j # i
           \/ at[i] = "right" /\ next = "done" /\ j = RIGHT(i) /\ j # i,
           sys_sempost(i, j, next), UNCHANGED <<philoVector, philoCount, manager>>
    PROVE  PhiloInv'
<1> DEFINE m == MUTEX_ID
           s == sem[j].queue
           e == <<>>
<1>1. /\ PhiloTypeOK /\ Queues /\ OneInside /\ Told /\ NeighboursApart /\ m \in Ids
      /\ at \in [All -> Places] /\ s \in Seq(All) /\ m \notin All
      /\ (\A x \in Seats : x \in All) /\ (\A x \in All : x \in Ids)
      /\ at[i] \notin {"none", "lock", "stop", "sleep"} /\ at[i] \in Inside
      /\ next \in Inside /\ (at[j] # "none" => sem[j].open)
      /\ sem[j].value \in 0..MaxTokens /\ sem[j].value \in Int /\ sem[j].value >= 0
    BY PhiloFields, IdFacts, SeatFacts DEF PhiloInv, Round, SeatHolds, Inside
<1>2. i \notin ToSet(s)
    BY <1>1, SleepsNowhere
<1>3. CASE ~sem[j].open
    <2>1. /\ sem' = sem /\ at' = [at EXCEPT ![i] = next] /\ at[j] = "none"
        BY <1>1, <1>2, <1>3, PostFacts
    <2> QED BY <1>1, <2>1, TellNobody
<1>4. CASE sem[j].open
    <2>1. /\ s # e => \/ at[j] = "sleep" /\ sem[j].value = 0
                      \/ at[j] = "none" /\ ~Quiet
          /\ s # e => s = <<j>> /\ Head(s) = j /\ Tail(s) = e
        <3>1. Head(<<j>>) = j /\ Tail(<<j>>) = e
            OBVIOUS
        <3>2. s # e => /\ s = <<j>>
                       /\ \/ at[j] = "sleep" /\ sem[j].value = 0
                          \/ at[j] = "none" /\ ~Quiet
            BY <1>1 DEF Queues
        <3> HIDE DEF e, s
        <3> QED BY <3>1, <3>2
    <2>2. PICK v \in 0..MaxTokens :
             /\ Became(j, v, e) /\ (s # e => j # i)
             /\ at' = IF s = e THEN [at EXCEPT ![i] = next]
                      ELSE [at EXCEPT ![i] = next, ![j] = Resumed(at[j])]
             /\ v > 0 \/ (s # e /\ v = 0 /\ at[j] # "none")
        <3>1. \/ /\ s = e /\ at' = [at EXCEPT ![i] = next] /\ Became(j, More(sem[j].value), s)
              \/ /\ s # e /\ Head(s) # i
                 /\ at' = [at EXCEPT ![i] = next, ![Head(s)] = Resumed(at[Head(s)])]
                 /\ Became(j, IF at[Head(s)] = "none" THEN More(sem[j].value) ELSE sem[j].value,
                           Tail(s))
            BY <1>1, <1>2, <1>4, PostFacts
        <3>2. More(sem[j].value) \in 0..MaxTokens /\ More(sem[j].value) > 0
            BY <1>1, MoreFacts
        <3> HIDE DEF e
        <3> QED BY <1>1, <2>1, <3>1, <3>2
    <2>3. s # e => Resumed(at[j]) = IF at[j] = "none" THEN "none" ELSE "test"
        BY <2>1 DEF Resumed
    <2>4. /\ at'[i] = next /\ \A x \in All : x # i /\ x # j => at'[x] = at[x]
          /\ j # i => \/ at'[j] = at[j] /\ v > 0
                      \/ at[j] = "sleep" /\ at'[j] = "test"
          /\ j = i => v > 0
        BY <1>1, <2>1, <2>2, <2>3
    <2>5. at' \in [All -> Places] /\ \A x \in All : at'[x] = "none" <=> at[x] = "none"
        <3>1. "test" \in Places /\ "none" \in Places
            BY DEF Places
        <3>2. at' \in [All -> Places]
            BY <1>1, <2>2, <2>3, <3>1
        <3> QED BY <1>1, <2>4, <3>2 DEF Inside
    <2> HIDE DEF e, m
    <2>6. Kept /\ Round' /\ Quiet' = Quiet
        BY <1>1, <2>2, <2>5, StepKept
    <2>7. /\ \A x \in Ids : x # j => sem'[x] = sem[x]
          /\ sem'[j].queue = e /\ sem'[j].open /\ sem'[j].value = v
        BY <1>1, <1>4, <2>2 DEF Became
    <2>8. Queues'
        <3>1. \A x \in Ids : ~sem'[x].open => sem'[x] = Closed
            BY <1>1, <2>7 DEF Queues, Ids
        <3>2. sem'[m].queue = sem[m].queue
            BY <1>1, <2>7
        <3>3. \A q \in ToSet(sem[m].queue) : q # i /\ q \in All /\ at'[q] = at[q]
            <4>1. sem[m].queue \in Seq(All)
                BY <1>1, PhiloFields
            <4>2. \A q \in ToSet(sem[m].queue) : q # i /\ q \in All /\ at[q] # "sleep"
                BY <1>1, <4>1 DEF Queues, m, ToSet
            <4> QED BY <2>4, <4>2
        <3>4. \A q \in ToSet(sem'[m].queue) :
                at'[q] \in {"lock", "stop"} \/ (at'[q] = "none" /\ ~Quiet')
            BY <1>1, <2>6, <3>2, <3>3 DEF Queues, m
        <3>5. \A x \in All : sem'[x].queue # <<>> =>
                /\ sem'[x].queue = <<x>>
                /\ (at'[x] = "sleep" /\ sem'[x].value = 0) \/ (at'[x] = "none" /\ ~Quiet')
            BY <1>1, <2>4, <2>6, <2>7 DEF Queues, e
        <3> QED BY <1>1, <3>1, <3>2, <3>4, <3>5 DEF Queues, Ids, m
    <2>9. OneInside'
        <3>1. sem'[m] = sem[m] /\ \A x \in All : at'[x] \in Inside => at[x] \in Inside
            BY <1>1, <2>4, <2>7 DEF Inside
        <3> QED BY <1>1, <3>1 DEF OneInside, m
    <2>10. \A x \in All : Says(x)'
        <3> SUFFICES ASSUME NEW x \in All
                     PROVE  Says(x)'
            OBVIOUS
        <3>1. Says(x) /\ (x # j => sem'[x] = sem[x])
            BY <1>1, <2>7 DEF PhiloInv
        <3>2. CASE x = i
            BY <2>4, <2>7, <3>1, <3>2 DEF Says
        <3>3. CASE x # i /\ x = j
            BY <2>4, <2>7, <3>1, <3>3 DEF Says
        <3>4. CASE x # i /\ x # j
            BY <2>4, <3>1, <3>4 DEF Says
        <3> QED BY <3>2, <3>3, <3>4
    <2>11. NeighboursApart'
        BY <1>1, <2>4, <2>6, ApartKept DEF Eating
    <2>12. ASSUME NEW x \in Seats, NEW y \in Seats, y \in {LEFT(x), RIGHT(x)}, Tells(y, x), x # j
           PROVE  Tells(y, x)'
        <3>1. LEFT(y)' = LEFT(y) /\ RIGHT(y)' = RIGHT(y) /\ y \in All
            BY <1>1, <2>6, KeptSeats
        <3> QED BY <1>1, <2>4, <2>12, <3>1 DEF Tells
    <2>13. \A x \in Seats : at'[x] \in {"unlock", "sleep"} /\ sem'[x].value = 0 =>
                at[x] \in {"unlock", "sleep"} /\ sem[x].value = 0 /\ x # j
        BY <1>1, <2>4, <2>7
    <2>14. Told'
        BY <1>1, <2>6, <2>12, <2>13, ToldKept
    <2> QED BY <2>6, <2>8, <2>9, <2>10, <2>11, <2>14 DEF PhiloInv, Kept
<1> QED BY <1>1, <1>3, <1>4

(* The semaphores of a philosopher's neighbours and its own, and the two   *)
(* uses of the mutex.                                                      *)
LEMMA PhilosopherKeeps ==
    ASSUME PhiloInv, NEW i \in All, Philosopher(i)
    PROVE  PhiloInv'
<1>1. /\ PhiloTypeOK /\ (at[i] # "none" => i \in Seats)
      /\ {"check", "free", "sleep", "think", "unlock", "right", "done"} \subseteq Places
    <2>1. at[i] # "none" => i < philoCount /\ i >= 0
        BY DEF PhiloInv, Round, SeatHolds, All
    <2>2. PhiloTypeOK /\ philoCount \in Int /\ i \in Int
        BY IdFacts DEF PhiloInv, PhiloTypeOK
    <2> QED BY <2>1, <2>2 DEF Seats, Places
<1>2. CASE Lock(i)
    <2>1. /\ at[i] = "lock" /\ sys_semwait(i, MUTEX_ID, "check")
          /\ UNCHANGED <<philoVector, philoCount, manager>>
        BY <1>2 DEF Lock, Step
    <2> QED BY <1>1, <2>1, MutexWait
<1>3. CASE StopLock(i)
    <2>1. /\ at[i] = "stop" /\ sys_semwait(i, MUTEX_ID, "free")
          /\ UNCHANGED <<philoVector, philoCount, manager>>
        BY <1>3 DEF StopLock, Step
    <2> QED BY <1>1, <2>1, MutexWait
<1>4. CASE Unlock(i)
    <2>1. /\ at[i] = "unlock" /\ sys_sempost(i, MUTEX_ID, "sleep")
          /\ UNCHANGED <<philoVector, philoCount, manager>>
        BY <1>4 DEF Unlock, Step
    <2> QED BY <1>1, <2>1, MutexPost
<1>5. CASE StopUnlock(i)
    <2>1. /\ at[i] = "done" /\ sys_sempost(i, MUTEX_ID, "think")
          /\ UNCHANGED <<philoVector, philoCount, manager>>
        BY <1>5 DEF StopUnlock, Step
    <2> QED BY <1>1, <2>1, MutexPost
<1>6. CASE Grant(i)
    <2>1. /\ at[i] = "grant" /\ sys_sempost(i, i, "unlock")
          /\ UNCHANGED <<philoVector, philoCount, manager>>
        BY <1>6 DEF Grant, Step
    <2> QED BY <1>1, <2>1, SeatPost
<1>7. ASSUME NEW j \in All, NEW next \in Places, Tell(i, j, next), j # i,
             \/ at[i] = "left" /\ next = "right" /\ j = LEFT(i)
             \/ at[i] = "right" /\ next = "done" /\ j = RIGHT(i),
             UNCHANGED <<philoCount, manager>>
      PROVE  PhiloInv'
    <2>1. CASE philoVector[j] = "HUNGRY"
        <3>1. sys_sempost(i, j, next) /\ UNCHANGED <<philoVector, philoCount, manager>>
            BY <1>7, <2>1 DEF Tell
        <3> QED BY <1>7, <3>1, SeatPost
    <2>2. CASE philoVector[j] # "HUNGRY"
        <3>1. /\ at' = [at EXCEPT ![i] = next] /\ sem' = sem
              /\ UNCHANGED <<philoVector, philoCount, manager>>
            BY <1>7, <2>2 DEF Tell, Goto
        <3>2. at[j] \in {"unlock", "sleep"} => sem[j].value > 0
            BY <2>2 DEF PhiloInv, Says
        <3> QED BY <1>7, <3>1, <3>2, TellNobody
    <2> QED BY <2>1, <2>2
<1>8. CASE TellLeft(i)
    <2> DEFINE j == LEFT(i)
    <2>1. at[i] = "left" /\ Tell(i, j, "right") /\ UNCHANGED <<philoCount, manager>>
        BY <1>8 DEF TellLeft, Step
    <2>2. j \in All /\ j # i
        BY <1>1, <2>1, SeatFacts
    <2>3. j = LEFT(i)
        OBVIOUS
    <2> HIDE DEF j
    <2> QED BY <1>1, <1>7, <2>1, <2>2, <2>3
<1>9. CASE TellRight(i)
    <2> DEFINE j == RIGHT(i)
    <2>1. at[i] = "right" /\ Tell(i, j, "done") /\ UNCHANGED <<philoCount, manager>>
        BY <1>9 DEF TellRight, Step
    <2>2. j \in All /\ j # i
        BY <1>1, <2>1, SeatFacts
    <2>3. j = RIGHT(i)
        OBVIOUS
    <2> HIDE DEF j
    <2> QED BY <1>1, <1>7, <2>1, <2>2, <2>3
<1> QED BY <1>2, <1>3, <1>4, <1>5, <1>6, <1>8, <1>9, GetHungryKeeps, TestHungryKeeps, CheckKeeps,
           PutForksKeeps, SleepOwnKeeps DEF Philosopher

(* Where the manager goes.                                                 *)
LEMMA ToFacts ==
    ASSUME PhiloTypeOK, NEW i \in 0..MAX_PHILO_COUNT,
           NEW pc \in {"mutex", "open", "create", "keys", "kill", "close", "end"}, To(pc, i)
    PROVE  /\ manager'.at = pc /\ manager'.i = i /\ manager'.modified = manager.modified
           /\ manager' \in [at : {"mutex", "open", "create", "keys", "kill", "close", "end"},
                            i : 0..MAX_PHILO_COUNT, modified : -1..1, end : BOOLEAN]
BY DEF PhiloTypeOK, To

(* The values the manager has to count with.                               *)
LEMMA ManagerFacts ==
    ASSUME PhiloInv
    PROVE  /\ philoCount \in Int /\ philoCount >= 2 /\ philoCount <= MAX_PHILO_COUNT
           /\ manager.i \in Int /\ manager.modified \in Int /\ MAX_PHILO_COUNT \in Int
           /\ \A x \in All : x \in Int /\ x >= 0 /\ x < MAX_PHILO_COUNT
BY PhilosophersAssumption DEF PhiloInv, PhiloTypeOK, All

(* Without philosophers nothing is said of them.                           *)
LEMMA NobodyThere ==
    ASSUME PhiloTypeOK', \A x \in All : at'[x] = "none", sem'[MUTEX_ID].value <= 1
    PROVE  (\A x \in All : Says(x)') /\ OneInside' /\ Told' /\ NeighboursApart'
<1>1. \A x \in Seats' : x \in All
    <2>1. philoCount' \in 2..MAX_PHILO_COUNT
        BY DEF PhiloTypeOK
    <2>2. Seats' = 0..(philoCount' - 1)
        BY DEF Seats
    <2>3. PICK n \in 2..MAX_PHILO_COUNT : n = philoCount'
        BY <2>1
    <2>4. \A x \in 0..(n - 1) : x \in All
        BY PhilosophersAssumption DEF All
    <2> QED BY <2>2, <2>3, <2>4
<1> QED BY <1>1 DEF Says, OneInside, Inside, Told, NeighboursApart, Eating

(* sys_semopen of the mutex.                                               *)
LEMMA OpenMutexKeeps ==
    ASSUME PhiloInv, OpenMutex
    PROVE  PhiloInv'
<1> DEFINE m == MUTEX_ID
           d == [open |-> TRUE, value |-> 1, queue |-> <<>>]
           pc == "open"
           z == 0
<1>1. /\ PhiloTypeOK /\ Round /\ Queues /\ manager.at = "mutex"
      /\ at' = at /\ philoCount' = philoCount /\ philoVector' = philoVector
      /\ sem' = [sem EXCEPT ![m] = d] /\ To(pc, z)
    <2>1. ~sem[m].open /\ manager.at = "mutex" /\ PhiloTypeOK /\ Round /\ Queues
        BY DEF PhiloInv, Round, OpenMutex, At
    <2> QED BY <2>1 DEF OpenMutex, sys_semopen
<1>2. /\ manager'.at = "open" /\ manager'.i = 0 /\ manager'.modified = manager.modified
      /\ manager' \in [at : {"mutex", "open", "create", "keys", "kill", "close", "end"},
                       i : 0..MAX_PHILO_COUNT, modified : -1..1, end : BOOLEAN]
    <2>1. z \in 0..MAX_PHILO_COUNT
        BY ManagerFacts
    <2> HIDE DEF z
    <2> QED BY <1>1, <2>1, ToFacts DEF z
<1>3. d \in Semaphore /\ d.open /\ d.value = 1 /\ d.queue = <<>>
    BY IdFacts DEF Semaphore
<1>4. m \in Ids /\ m \notin All /\ sem \in [Ids -> Semaphore] /\ \A x \in All : x \in Ids
    BY <1>1, IdFacts, PhiloFields
<1> HIDE DEF m, d
<1>5. /\ sem' \in [Ids -> Semaphore] /\ sem'[m] = d /\ \A x \in All : sem'[x] = sem[x]
    BY <1>1, <1>3, <1>4
<1>6. PhiloTypeOK'
    BY <1>1, <1>2, <1>5 DEF PhiloTypeOK, Ids, m
<1>7. \A x \in All : at[x] = "none" /\ ~sem[x].open
    BY <1>1 DEF Round, SeatHolds
<1>8. Round'
    <2>1. \A x \in All : SeatHolds(x)'
        BY <1>1, <1>2, <1>5, <1>7, ManagerFacts DEF SeatHolds
    <2> QED BY <1>1, <1>2, <1>3, <1>5, <2>1, ManagerFacts DEF Round, m
<1>9. Queues'
    <2>1. \A x \in All : sem'[x] = Closed /\ sem'[x].queue = <<>>
        BY <1>1, <1>5, <1>7 DEF Queues, Closed
    <2>2. IsInjective(<<>>) /\ ToSet(<<>>) = {}
        BY DEF IsInjective, ToSet
    <2> QED BY <1>3, <1>5, <2>1, <2>2 DEF Queues, m
<1>10. (\A x \in All : Says(x)') /\ OneInside' /\ Told' /\ NeighboursApart'
    BY <1>1, <1>3, <1>5, <1>6, <1>7, NobodyThere DEF m
<1> QED BY <1>6, <1>8, <1>9, <1>10 DEF PhiloInv

(* A step of the manager that leaves the philosophers' places and vector,  *)
(* or ends one of them.                                                    *)
LEMMA ManagerKeeps ==
    ASSUME PhiloInv, PhiloTypeOK', philoCount' = philoCount, philoVector' = philoVector,
           \A x \in All : at'[x] = at[x] \/ at'[x] \in {"none", "think"},
           \A x \in All : at'[x] # "none" => sem'[x].value = sem[x].value,
           sem'[MUTEX_ID].value = sem[MUTEX_ID].value,
           Quiet' => Quiet /\ \A x \in All : at[x] # "none" => at'[x] = at[x]
    PROVE  (\A x \in All : Says(x)') /\ OneInside' /\ Told' /\ NeighboursApart'
<1>1. /\ PhiloTypeOK /\ (\A x \in All : Says(x)) /\ OneInside /\ Told /\ NeighboursApart
      /\ \A x \in Seats : x \in All
    BY SeatFacts DEF PhiloInv
<1>2. Seats' = Seats /\ \A x \in All : LEFT(x)' = LEFT(x) /\ RIGHT(x)' = RIGHT(x)
    BY DEF Seats, LEFT, RIGHT
<1>3. \A x \in All : Says(x)'
    BY <1>1 DEF Says
<1>4. OneInside'
    <2>1. \A x \in All : at'[x] \in Inside => at[x] \in Inside
        BY DEF Inside
    <2> QED BY <1>1, <2>1 DEF OneInside
<1>5. NeighboursApart'
    <2>1. \A x \in All : Eating(x)' => Eating(x)
        BY DEF Eating
    <2> SUFFICES ASSUME NEW x \in Seats, NEW y \in Seats, x # y,
                        y = LEFT(x) \/ y = RIGHT(x), Eating(x)', Eating(y)'
                 PROVE  FALSE
        BY <1>1, <1>2 DEF NeighboursApart
    <2> QED BY <1>1, <2>1 DEF NeighboursApart
<1>6. Told'
    <2> SUFFICES ASSUME NEW x \in Seats, Quiet', at'[x] \in {"unlock", "sleep"},
                        sem'[x].value = 0
                 PROVE  Tells(LEFT(x), x)' \/ Tells(RIGHT(x), x)'
        BY <1>2 DEF Told
    <2>1. x \in All /\ LEFT(x) \in Seats /\ RIGHT(x) \in Seats /\ at[x] = at'[x]
        BY <1>1, SeatFacts
    <2>2. PICK y \in Seats : (y = LEFT(x) \/ y = RIGHT(x)) /\ Tells(y, x)
        BY <1>1, <2>1 DEF Told
    <2>3. LEFT(y)' = LEFT(y) /\ RIGHT(y)' = RIGHT(y) /\ y \in All
        BY <1>1, <1>2
    <2>4. Tells(y, x)'
        BY <2>2, <2>3 DEF Tells
    <2>5. LEFT(x)' = LEFT(x) /\ RIGHT(x)' = RIGHT(x)
        BY <1>2, <2>1
    <2> QED BY <2>2, <2>4, <2>5 DEF Tells
<1> QED BY <1>3, <1>4, <1>5, <1>6

(* sys_semopen of a philosopher's semaphore, before there is one.          *)
LEMMA OpenOwnKeeps ==
    ASSUME PhiloInv, NEW i \in All, OpenOwn(i)
    PROVE  PhiloInv'
<1> DEFINE m == MUTEX_ID
           d == [open |-> TRUE, value |-> 0, queue |-> <<>>]
           pc == "create"
<1>1. /\ PhiloTypeOK /\ Round /\ Queues /\ manager.at = "open" /\ manager.i = i /\ i < philoCount
      /\ at' = at /\ philoCount' = philoCount /\ philoVector' = philoVector
      /\ sem' = [sem EXCEPT ![i] = d] /\ To(pc, i) /\ at[i] = "none"
    <2>1. /\ manager.at = "open" /\ manager.i = i /\ PhiloTypeOK /\ Round /\ Queues
        BY DEF PhiloInv, OpenOwn, At
    <2>2. ~(i < i)
        BY ManagerFacts
    <2>3. ~sem[i].open /\ at[i] = "none"
        BY <2>1, <2>2 DEF Round, SeatHolds
    <2> QED BY <2>1, <2>3 DEF OpenOwn, sys_semopen
<1>2. /\ manager'.at = "create" /\ manager'.i = i /\ manager'.modified = manager.modified
      /\ manager' \in [at : {"mutex", "open", "create", "keys", "kill", "close", "end"},
                       i : 0..MAX_PHILO_COUNT, modified : -1..1, end : BOOLEAN]
    <2>1. i \in 0..MAX_PHILO_COUNT
        BY ManagerFacts
    <2> QED BY <1>1, <2>1, ToFacts
<1>3. d \in Semaphore /\ d.open /\ d.value = 0 /\ d.queue = <<>>
    BY IdFacts DEF Semaphore
<1>4. m \in Ids /\ m \notin All /\ sem \in [Ids -> Semaphore] /\ \A x \in All : x \in Ids
    BY <1>1, IdFacts, PhiloFields
<1> HIDE DEF m, d
<1>5. /\ sem' \in [Ids -> Semaphore] /\ sem'[i] = d /\ \A x \in Ids : x # i => sem'[x] = sem[x]
      /\ sem'[m] = sem[m]
    BY <1>1, <1>3, <1>4
<1>6. PhiloTypeOK'
    BY <1>1, <1>2, <1>5 DEF PhiloTypeOK, Ids
<1>7. Round'
    <2> SUFFICES \A x \in All : SeatHolds(x)'
        BY <1>1, <1>2, <1>5 DEF Round, m
    <2> SUFFICES ASSUME NEW x \in All
                 PROVE  SeatHolds(x)'
        OBVIOUS
    <2>1. SeatHolds(x)
        BY <1>1 DEF Round
    <2>2. CASE x = i
        BY <1>1, <1>2, <1>3, <1>5, <2>2, ManagerFacts DEF SeatHolds
    <2>3. CASE x # i
        BY <1>1, <1>2, <1>4, <1>5, <2>1, <2>3, ManagerFacts DEF SeatHolds, m
    <2> QED BY <2>2, <2>3
<1>8. Quiet /\ Quiet'
    BY <1>1, <1>2 DEF Quiet
<1>9. Queues'
    <2>1. \A x \in Ids : ~sem'[x].open => sem'[x] = Closed
        BY <1>1, <1>3, <1>5 DEF Queues, Ids
    <2> QED BY <1>1, <1>3, <1>4, <1>5, <1>8, <2>1 DEF Queues, m, Ids
<1>10. (\A x \in All : Says(x)') /\ OneInside' /\ Told' /\ NeighboursApart'
    <2>1. \A x \in All : at'[x] # "none" => sem'[x].value = sem[x].value
        BY <1>1, <1>4, <1>5
    <2> QED BY <1>1, <1>5, <1>6, <1>8, <2>1, ManagerKeeps DEF m
<1> QED BY <1>6, <1>7, <1>9, <1>10 DEF PhiloInv

(* A philosopher is created, and finds its two semaphores open.            *)
LEMMA CreateKeeps ==
    ASSUME PhiloInv, NEW i \in All, Create(i)
    PROVE  PhiloInv'
<1> DEFINE last == i + 1 = philoCount
           pc == IF last THEN "keys" ELSE "open"
           n == IF last THEN 0 ELSE i + 1
<1>1. /\ PhiloTypeOK /\ Round /\ Queues /\ manager.at = "create" /\ manager.i = i
      /\ at' = [at EXCEPT ![i] = "think"] /\ philoCount' = philoCount
      /\ philoVector' = philoVector /\ sem' = sem /\ To(pc, n) /\ at \in [All -> Places]
    BY PhiloFields DEF PhiloInv, Create, At
<1>2. i < philoCount /\ at[i] = "none" /\ sem[i].open /\ sem[MUTEX_ID].open
    <2>1. ~(i < i) /\ i <= i
        BY ManagerFacts
    <2> QED BY <1>1, <2>1 DEF Round, SeatHolds
<1>3. /\ manager'.at = pc /\ manager'.i = n /\ manager'.modified = manager.modified
      /\ manager' \in [at : {"mutex", "open", "create", "keys", "kill", "close", "end"},
                       i : 0..MAX_PHILO_COUNT, modified : -1..1, end : BOOLEAN]
    <2>1. n \in 0..MAX_PHILO_COUNT
        BY ManagerFacts
    <2>2. pc \in {"mutex", "open", "create", "keys", "kill", "close", "end"}
        OBVIOUS
    <2> HIDE DEF n, pc
    <2> QED BY <1>1, <2>1, <2>2, ToFacts
<1>4. /\ at' \in [All -> Places] /\ at'[i] = "think" /\ \A x \in All : x # i => at'[x] = at[x]
    <2>1. "think" \in Places
        BY DEF Places
    <2> QED BY <1>1, <2>1
<1>5. PhiloTypeOK'
    BY <1>1, <1>3, <1>4 DEF PhiloTypeOK
<1>6. Round'
    <2>1. pc = "open" => n < philoCount /\ n = i + 1
        BY <1>2, ManagerFacts
    <2>2. pc \in {"keys", "open"}
        OBVIOUS
    <2> HIDE DEF n, pc
    <2> SUFFICES \A x \in All : SeatHolds(x)'
        BY <1>1, <1>2, <1>3, <2>1, <2>2 DEF Round
    <2> SUFFICES ASSUME NEW x \in All
                 PROVE  SeatHolds(x)'
        OBVIOUS
    <2>3. SeatHolds(x)
        BY <1>1 DEF Round
    <2> QED BY <1>1, <1>2, <1>3, <1>4, <2>1, <2>2, <2>3, ManagerFacts DEF SeatHolds
<1>7. Quiet /\ Quiet'
    BY <1>1, <1>3 DEF Quiet
<1>8. Queues'
    <2>1. sem[MUTEX_ID].queue \in Seq(All)
        BY <1>1, PhiloFields, IdFacts
    <2>2. \A q \in ToSet(sem[MUTEX_ID].queue) : q \in All /\ q # i
        BY <1>1, <1>2, <1>7, <2>1 DEF Queues, ToSet
    <2> QED BY <1>1, <1>2, <1>4, <1>7, <2>2 DEF Queues
<1>9. (\A x \in All : Says(x)') /\ OneInside' /\ Told' /\ NeighboursApart'
    BY <1>1, <1>2, <1>4, <1>5, <1>7, ManagerKeeps
<1> QED BY <1>5, <1>6, <1>8, <1>9 DEF PhiloInv

(* A key ends the round.                                                   *)
LEMMA KeyKeeps ==
    ASSUME PhiloInv, NEW modified \in -1..1, NEW end \in BOOLEAN, Key(modified, end)
    PROVE  PhiloInv'
<1>1. /\ PhiloTypeOK /\ Round /\ Queues /\ manager.at = "keys"
      /\ at' = at /\ philoCount' = philoCount /\ philoVector' = philoVector /\ sem' = sem
      /\ manager'.at = "kill" /\ manager'.i = 0 /\ manager'.modified = modified
      /\ manager' \in [at : {"mutex", "open", "create", "keys", "kill", "close", "end"},
                       i : 0..MAX_PHILO_COUNT, modified : -1..1, end : BOOLEAN]
      /\ philoCount + modified \in 2..MAX_PHILO_COUNT
    BY ManagerFacts DEF PhiloInv, Key, At
<1>2. PhiloTypeOK'
    BY <1>1 DEF PhiloTypeOK
<1>3. Round'
    <2>1. \A x \in All : SeatHolds(x)'
        BY <1>1, ManagerFacts DEF Round, SeatHolds
    <2> QED BY <1>1, <2>1, ManagerFacts DEF Round
<1>4. ~Quiet' /\ Quiet
    BY <1>1 DEF Quiet
<1>5. Queues'
    BY <1>1, <1>4 DEF Queues
<1>6. (\A x \in All : Says(x)') /\ OneInside' /\ Told' /\ NeighboursApart'
    BY <1>1, <1>2, <1>4, ManagerKeeps
<1> QED BY <1>2, <1>3, <1>5, <1>6 DEF PhiloInv

(* A philosopher is killed wherever it is.                                 *)
LEMMA KillKeeps ==
    ASSUME PhiloInv, NEW i \in All, Kill(i)
    PROVE  PhiloInv'
<1> DEFINE pc == "close"
<1>1. /\ PhiloTypeOK /\ Round /\ Queues /\ manager.at = "kill" /\ manager.i = i /\ i < philoCount
      /\ at' = [at EXCEPT ![i] = "none"] /\ philoCount' = philoCount
      /\ philoVector' = philoVector /\ sem' = sem /\ To(pc, i) /\ at \in [All -> Places]
    BY PhiloFields DEF PhiloInv, Kill, At
<1>2. /\ manager'.at = "close" /\ manager'.i = i /\ manager'.modified = manager.modified
      /\ manager' \in [at : {"mutex", "open", "create", "keys", "kill", "close", "end"},
                       i : 0..MAX_PHILO_COUNT, modified : -1..1, end : BOOLEAN]
    <2>1. i \in 0..MAX_PHILO_COUNT
        BY ManagerFacts
    <2> QED BY <1>1, <2>1, ToFacts
<1>3. /\ at' \in [All -> Places] /\ at'[i] = "none" /\ \A x \in All : x # i => at'[x] = at[x]
    <2>1. "none" \in Places
        BY DEF Places
    <2> QED BY <1>1, <2>1
<1>4. PhiloTypeOK'
    BY <1>1, <1>2, <1>3 DEF PhiloTypeOK
<1>5. Round'
    <2> SUFFICES \A x \in All : SeatHolds(x)'
        BY <1>1, <1>2 DEF Round
    <2> SUFFICES ASSUME NEW x \in All
                 PROVE  SeatHolds(x)'
        OBVIOUS
    <2>1. SeatHolds(x)
        BY <1>1 DEF Round
    <2> QED BY <1>1, <1>2, <1>3, <2>1, ManagerFacts DEF SeatHolds
<1>6. ~Quiet /\ ~Quiet'
    BY <1>1, <1>2 DEF Quiet
<1>7. Queues'
    <2>1. sem[MUTEX_ID].queue \in Seq(All)
        BY <1>1, PhiloFields, IdFacts
    <2>2. \A q \in ToSet(sem[MUTEX_ID].queue) : q \in All
        BY <2>1 DEF ToSet
    <2> QED BY <1>1, <1>3, <1>6, <2>2 DEF Queues
<1>8. (\A x \in All : Says(x)') /\ OneInside' /\ Told' /\ NeighboursApart'
    BY <1>1, <1>3, <1>4, <1>6, ManagerKeeps
<1> QED BY <1>4, <1>5, <1>7, <1>8 DEF PhiloInv

(* The semaphore of a killed philosopher goes.                             *)
LEMMA CloseOwnKeeps ==
    ASSUME PhiloInv, NEW i \in All, CloseOwn(i)
    PROVE  PhiloInv'
<1> DEFINE m == MUTEX_ID
           n == i + 1
           pc == "kill"
<1>1. /\ PhiloTypeOK /\ Round /\ Queues /\ manager.at = "close" /\ manager.i = i
      /\ at' = at /\ philoCount' = philoCount /\ philoVector' = philoVector
      /\ sem' = [sem EXCEPT ![i] = Closed] /\ To(pc, n)
    BY DEF PhiloInv, CloseOwn, At, sys_semclose
<1>2. at[i] = "none" /\ i < philoCount
    <2>1. ~(i < i)
        BY ManagerFacts
    <2> QED BY <1>1, <2>1 DEF Round, SeatHolds
<1>3. /\ manager'.at = "kill" /\ manager'.i = n /\ manager'.modified = manager.modified
      /\ manager' \in [at : {"mutex", "open", "create", "keys", "kill", "close", "end"},
                       i : 0..MAX_PHILO_COUNT, modified : -1..1, end : BOOLEAN]
    <2>1. n \in 0..MAX_PHILO_COUNT
        BY ManagerFacts
    <2> HIDE DEF n
    <2> QED BY <1>1, <2>1, ToFacts
<1>4. Closed \in Semaphore /\ ~Closed.open /\ Closed.queue = <<>>
    BY IdFacts DEF Semaphore, Closed
<1>5. m \in Ids /\ m \notin All /\ sem \in [Ids -> Semaphore] /\ \A x \in All : x \in Ids
    BY <1>1, IdFacts, PhiloFields
<1> HIDE DEF m
<1>6. /\ sem' \in [Ids -> Semaphore] /\ sem'[i] = Closed
      /\ \A x \in Ids : x # i => sem'[x] = sem[x]
      /\ sem'[m] = sem[m]
    BY <1>1, <1>4, <1>5
<1>7. PhiloTypeOK'
    BY <1>1, <1>3, <1>6 DEF PhiloTypeOK, Ids
<1>8. Round'
    <2>1. n <= philoCount
        BY <1>2, ManagerFacts
    <2> SUFFICES \A x \in All : SeatHolds(x)'
        BY <1>1, <1>3, <1>6, <2>1 DEF Round, m
    <2> SUFFICES ASSUME NEW x \in All
                 PROVE  SeatHolds(x)'
        OBVIOUS
    <2>2. SeatHolds(x)
        BY <1>1 DEF Round
    <2>3. CASE x = i
        BY <1>1, <1>2, <1>3, <1>4, <1>6, <2>3, ManagerFacts DEF SeatHolds
    <2>4. CASE x # i
        BY <1>1, <1>3, <1>5, <1>6, <2>2, <2>4, ManagerFacts DEF SeatHolds, m
    <2> QED BY <2>3, <2>4
<1>9. ~Quiet /\ ~Quiet'
    BY <1>1, <1>3 DEF Quiet
<1>10. Queues'
    <2>1. \A x \in Ids : ~sem'[x].open => sem'[x] = Closed
        BY <1>1, <1>6 DEF Queues, Ids
    <2> QED BY <1>1, <1>4, <1>5, <1>6, <1>9, <2>1 DEF Queues, m, Ids
<1>11. (\A x \in All : Says(x)') /\ OneInside' /\ Told' /\ NeighboursApart'
    <2>1. \A x \in All : at'[x] # "none" => sem'[x].value = sem[x].value
        BY <1>1, <1>2, <1>5, <1>6
    <2> QED BY <1>1, <1>6, <1>7, <1>9, <2>1, ManagerKeeps DEF m
<1> QED BY <1>7, <1>8, <1>10, <1>11 DEF PhiloInv

(* All are dead, and the next round has one more or one fewer.             *)
LEMMA EndRoundKeeps ==
    ASSUME PhiloInv, EndRound
    PROVE  PhiloInv'
<1> DEFINE m == MUTEX_ID
<1>1. /\ PhiloTypeOK /\ Round /\ Queues /\ manager.at = "kill" /\ manager.i = philoCount
      /\ at' = at /\ philoVector' = philoVector /\ sem' = [sem EXCEPT ![m] = Closed]
      /\ philoCount' = philoCount + manager.modified
      /\ manager' = [at |-> IF manager.end THEN "end" ELSE "mutex", i |-> 0,
                     modified |-> 0, end |-> FALSE]
    BY DEF PhiloInv, EndRound, At, sys_semclose
<1>2. \A x \in All : at[x] = "none" /\ ~sem[x].open
    BY <1>1, ManagerFacts DEF Round, SeatHolds
<1>3. Closed \in Semaphore /\ ~Closed.open /\ Closed.queue = <<>> /\ Closed.value = 0
    BY IdFacts DEF Semaphore, Closed
<1>4. m \in Ids /\ m \notin All /\ sem \in [Ids -> Semaphore] /\ \A x \in All : x \in Ids
    BY <1>1, IdFacts, PhiloFields
<1> HIDE DEF m
<1>5. /\ sem' \in [Ids -> Semaphore] /\ sem'[m] = Closed /\ \A x \in All : sem'[x] = sem[x]
    BY <1>1, <1>3, <1>4
<1>6. philoCount' \in 2..MAX_PHILO_COUNT /\ philoCount' + 0 = philoCount'
    BY <1>1 DEF Round
<1>7. /\ manager'.at \in {"end", "mutex"} /\ manager'.modified = 0
      /\ manager' \in [at : {"mutex", "open", "create", "keys", "kill", "close", "end"},
                       i : 0..MAX_PHILO_COUNT, modified : -1..1, end : BOOLEAN]
    BY <1>1, ManagerFacts
<1>8. PhiloTypeOK'
    BY <1>1, <1>5, <1>6, <1>7 DEF PhiloTypeOK, Ids, m
<1>9. Round'
    <2>1. \A x \in All : SeatHolds(x)'
        BY <1>1, <1>2, <1>5, <1>7 DEF SeatHolds
    <2> QED BY <1>3, <1>5, <1>6, <1>7, <2>1 DEF Round, m
<1>10. Queues'
    <2>1. \A x \in All : sem'[x] = Closed /\ sem'[x].queue = <<>>
        BY <1>1, <1>2, <1>3, <1>5 DEF Queues
    <2>2. IsInjective(<<>>) /\ ToSet(<<>>) = {}
        BY DEF IsInjective, ToSet
    <2> QED BY <1>3, <1>5, <2>1, <2>2 DEF Queues, m
<1>11. (\A x \in All : Says(x)') /\ OneInside' /\ Told' /\ NeighboursApart'
    BY <1>1, <1>2, <1>3, <1>5, <1>8, NobodyThere DEF m
<1> QED BY <1>8, <1>9, <1>10, <1>11 DEF PhiloInv

---------------------------------------------------------------------------
(* Every step of the manager and of every philosopher, in any order, keeps *)
(* the invariant.                                                          *)
LEMMA PhiloStep == PhiloInv /\ [PhiloNext]_philoVars => PhiloInv'
<1> SUFFICES ASSUME PhiloInv, [PhiloNext]_philoVars
             PROVE  PhiloInv'
    OBVIOUS
<1>1. CASE UNCHANGED philoVars
    <2>1. /\ PhiloTypeOK' /\ Round' /\ Queues' /\ (\A i \in All : Says(i)') /\ OneInside'
        BY <1>1 DEF PhiloInv, philoVars, PhiloTypeOK, Round, SeatHolds, Queues, Says, OneInside, Quiet
    <2>2. Kept
        BY <1>1, <2>1 DEF Kept, philoVars
    <2>3. NeighboursApart'
        BY <1>1, <2>2, ApartKept DEF philoVars, Eating, PhiloInv
    <2>4. \A y \in All : \A x \in All : Tells(y, x) => Tells(y, x)'
        BY <1>1, <2>2, KeptSeats DEF Tells, philoVars
    <2>5. PhiloTypeOK /\ Told /\ \A x \in Seats : x \in All
        BY SeatFacts DEF PhiloInv
    <2>6. Told'
        BY <1>1, <2>2, <2>4, <2>5, ToldKept DEF philoVars
    <2> QED BY <2>1, <2>3, <2>6 DEF PhiloInv
<1>2. CASE \E i \in All : Philosopher(i)
    BY <1>2, PhilosopherKeeps
<1>3. CASE Manager
    BY <1>3, OpenMutexKeeps, EndRoundKeeps, OpenOwnKeeps, CreateKeeps, KillKeeps, CloseOwnKeeps
       DEF Manager
<1>4. CASE \E modified \in {-1, 1} : Key(modified, FALSE)
    <2>1. \A modified \in {-1, 1} : modified \in -1..1
        OBVIOUS
    <2> QED BY <1>4, <2>1, KeyKeeps
<1>5. CASE Key(0, TRUE)
    <2>1. 0 \in -1..1
        OBVIOUS
    <2> QED BY <1>5, <2>1, KeyKeeps
<1> QED BY <1>1, <1>2, <1>3, <1>4, <1>5 DEF PhiloNext

(* Before the first round there is nobody.                                 *)
LEMMA PhiloStart == PhiloInit => PhiloInv
<1> SUFFICES ASSUME PhiloInit
             PROVE  PhiloInv
    OBVIOUS
<1>1. Closed \in Semaphore /\ ~Closed.open /\ Closed.queue = <<>> /\ Closed.value = 0
    BY IdFacts DEF Semaphore, Closed
<1>2. /\ \A i \in All : at[i] = "none" /\ sem[i] = Closed
      /\ sem[MUTEX_ID] = Closed /\ manager.at = "mutex" /\ manager.modified = 0
      /\ philoCount \in 2..MAX_PHILO_COUNT /\ philoCount + 0 = philoCount
    BY PhilosophersAssumption DEF PhiloInit
<1>3. PhiloTypeOK
    BY <1>1, <1>2, PhilosophersAssumption DEF PhiloInit, PhiloTypeOK, Places
<1>4. Round
    BY <1>1, <1>2 DEF Round, SeatHolds
<1>5. Queues
    <2>1. IsInjective(<<>>) /\ ToSet(<<>>) = {}
        BY DEF IsInjective, ToSet
    <2> QED BY <1>1, <1>2, <2>1 DEF Queues
<1>6. \A x \in Seats : x \in All
    BY <1>3, SeatFacts
<1>7. (\A i \in All : Says(i)) /\ OneInside /\ Told /\ NeighboursApart
    BY <1>1, <1>2, <1>6 DEF Says, OneInside, Inside, Told, NeighboursApart, Eating
<1> QED BY <1>3, <1>4, <1>5, <1>7 DEF PhiloInv

(* The invariant, for any number of seats and rounds.                      *)
THEOREM PhiloCorrect == PhiloSpec => []PhiloInv
<1>1. PhiloInit => PhiloInv
    BY PhiloStart
<1>2. PhiloInv /\ [PhiloNext]_philoVars => PhiloInv'
    BY PhiloStep
<1> QED BY <1>1, <1>2, PTL DEF PhiloSpec

(* No two neighbours eat at the same time: tryToEat and stopEating, for    *)
(* any number of philosophers, and across rounds that end by killing.      *)
THEOREM NeighboursCorrect == PhiloSpec => []NeighboursApart
<1>1. PhiloInv => NeighboursApart
    BY DEF PhiloInv
<1> QED BY <1>1, PhiloCorrect, PTL

(* A philosopher that sleeps hungry in its semaphore has a neighbour that  *)
(* will tell it, or will eat and then tell it.                             *)
THEOREM HungryToldCorrect == PhiloSpec => []HungryIsTold
<1>1. ASSUME PhiloInv
      PROVE  HungryIsTold
    <2> SUFFICES ASSUME NEW i \in Seats, manager.at = "keys", Contains(sem[i].queue, i)
                 PROVE  \E j \in {LEFT(i), RIGHT(i)} : Tells(j, i)
        BY DEF HungryIsTold, Tells
    <2>1. i \in All /\ Quiet
        BY <1>1, SeatFacts DEF Quiet, PhiloInv
    <2>2. sem[i].queue # <<>>
        BY DEF Contains
    <2>3. at[i] = "sleep" /\ sem[i].value = 0
        BY <1>1, <2>1, <2>2 DEF PhiloInv, Queues
    <2> QED BY <1>1, <2>1, <2>3 DEF PhiloInv, Told
<1> QED BY <1>1, PhiloCorrect, PTL

(* What lets Check be one step: at most one philosopher is between a       *)
(* semwait and a sempost of the mutex, and the mutex then has no unit.     *)
THEOREM MutexCorrect == PhiloSpec => []OneInside
<1>1. PhiloInv => OneInside
    BY DEF PhiloInv
<1> QED BY <1>1, PhiloCorrect, PTL

(* Philosophers die before the semaphores they use: whoever exists finds   *)
(* the mutex and its own semaphore open, in every step of every round.     *)
THEOREM SleepersCorrect == PhiloSpec => [](PhiloTypeOK /\ NoSleeperLeft)
<1>1. PhiloInv => PhiloTypeOK /\ NoSleeperLeft
    BY DEF PhiloInv, Round, SeatHolds, NoSleeperLeft
<1> QED BY <1>1, PhiloCorrect, PTL

---------------------------------------------------------------------------
(***************************************************************************)
(* Shell.                                                                  *)
(*                                                                         *)
(* For any number of jobs and any command lines. On top of the types       *)
(* (Typed) there is one inductive invariant for each of the three things   *)
(* the shell and its jobs share: the unit of SEM_READ (ReadInv), the       *)
(* console (ConsoleInv) and the units of START_PROC_SEM (StartInv). Each   *)
(* holds up to the troubles it names.                                      *)
(***************************************************************************)

ShellSpec == ShellInit /\ [][ShellNext]_shellVars

ShellPlaces == {"wait", "waiting", "mode", "prompt", "watch", "release",
                "create", "map", "retreat", "promote", "post"}
JobPlaces   == {"none", "start", "starting", "body", "asking", "read", "give", "exit"}

Sem == [value : 0..(Word - 1), queue : Seq(Procs)]

(* Where everybody can be, how far the shell is with a command line, and   *)
(* that pids are new when they are given.                                  *)
Placed ==
    /\ place \in [Procs -> ShellPlaces \cup JobPlaces]
    /\ place[shellPid] \in ShellPlaces /\ \A p \in Jobs : place[p] \in JobPlaces
    /\ \A p \in blocked : p \in Procs /\ place[p] # "none"

Fresh ==
    /\ nextPid \in 2..(MaxJob + 1)
    /\ \A p \in Jobs : p >= nextPid => place[p] = "none" /\ background[p] = "BACKGROUND"
    /\ \A p \in ToSet(readSem.queue) \cup ToSet(startSem.queue) : p < nextPid

Working ==
    /\ command.kinds \in Seq(Kinds) /\ Len(command.kinds) \in {1, 2} /\ command.back \in BOOLEAN
    /\ newPids \in Seq(Jobs \cup {None}) /\ Len(newPids) <= Len(command.kinds)
    /\ \A p \in ToSet(newPids) : p < nextPid
    /\ place[shellPid] = "create" =>
            /\ Len(newPids) < Len(command.kinds)
            /\ nextPid + Len(command.kinds) - Len(newPids) - 1 <= MaxJob
    /\ place[shellPid] \in {"map", "retreat", "promote"} => Len(newPids) = Len(command.kinds)
    /\ place[shellPid] = "map" => Len(command.kinds) = 2
    /\ place[shellPid] = "post" => Len(newPids) > 0

Typed ==
    /\ Placed /\ Fresh /\ Working
    /\ job \in [Jobs -> [kind : Kinds, source : {"keyboard", "pipe"}, left : Jobs \cup {None}]]
    /\ background \in [Procs -> {"FOREGROUND", "BACKGROUND"}]
    /\ forePid \in Jobs \cup {0, None}
    /\ startSem \in Sem /\ readSem \in Sem
    /\ trouble \subseteq Troubles

(* Whoever is in a queue sleeps there or is dead, and once only.           *)
QueueOf(s, sleeps) ==
    /\ IsInjective(s.queue)
    /\ \A p \in ToSet(s.queue) : place[p] \in sleeps \cup {"none"}

(* The unit of SEM_READ is in the semaphore or with one process.           *)
OneUnit ==
    /\ \A p, q \in Holders : p = q
    /\ readSem.value <= 1
    /\ readSem.value = 1 => Holders = {}

Asleep ==
    /\ \A p \in Procs : place[p] \in Sleeps => p \in blocked
    /\ QueueOf(readSem, ReadSleeps) /\ QueueOf(startSem, {"starting"})

ReadInv == "woken" \notin trouble => Asleep /\ OneUnit

(* The jobs in the foreground.                                             *)
ForeJobs == {p \in Jobs : place[p] # "none" /\ background[p] = "FOREGROUND"}

InFront ==
    /\ place[shellPid] \in {"prompt", "create", "map", "retreat"} =>
            background[shellPid] = "FOREGROUND"
    /\ background[shellPid] = "FOREGROUND" => ForeJobs = {}
    /\ place[shellPid] = "promote" => ForeJobs = {} /\ background[shellPid] = "BACKGROUND"
    /\ background[shellPid] = "BACKGROUND" /\ place[shellPid] # "promote" =>
            ForeJobs = {forePid}

ConsoleInv == "console" \notin trouble => InFront

(* The jobs that still need a unit of START_PROC_SEM, and the posts that   *)
(* the shell owes them.                                                    *)
Waiters == {p \in Jobs : place[p] \in {"start", "starting"}}
Owed    == IF place[shellPid] \in {"create", "map", "retreat", "promote", "post"}
           THEN Len(newPids) ELSE 0

Balanced ==
    /\ \A p \in Jobs : place[p] = "start" => p \notin blocked
    /\ \A p : p \in ToSet(startSem.queue) <=> p \in Jobs /\ place[p] = "starting"
    /\ startSem.value > 0 => startSem.queue = <<>>
    /\ Cardinality(Waiters) = startSem.value + Owed
    /\ SettingUp => startSem.value = 0 /\ Waiters = ToSet(newPids)

StartInv == trouble \cap {"early", "woken", "stopped"} = {} => Balanced

ShellInv == Typed /\ ReadInv /\ ConsoleInv /\ StartInv

---------------------------------------------------------------------------
Everywhere == ShellPlaces \cup JobPlaces

(* The pids, and the bound on the values of the semaphores.                *)
LEMMA PidFacts ==
    /\ shellPid = 1 /\ shellPid \in Procs /\ shellPid \notin Jobs
    /\ \A p \in Jobs : p \in Procs /\ p # None /\ p # 0 /\ p \in Int /\ p >= 2
    /\ \A p \in Procs : p \in Int /\ (p = shellPid \/ p \in Jobs)
    /\ None \notin Procs /\ None \in Int /\ Word \in Nat /\ Word > 2
BY ShellAssumption DEF shellPid, Procs, Jobs, None

(* Who is in a queue.                                                      *)
LEMMA ElementFacts ==
    ASSUME NEW S, NEW s \in Seq(S)
    PROVE  \A x \in ToSet(s) : x \in S
BY DEF ToSet

(* Queueing behind a queue.                                                *)
LEMMA AppendFacts ==
    ASSUME NEW S, NEW s \in Seq(S), NEW i \in S
    PROVE  /\ Append(s, i) \in Seq(S) /\ Len(Append(s, i)) = Len(s) + 1
           /\ \A x : x \in ToSet(Append(s, i)) <=> x \in ToSet(s) \/ x = i
           /\ IsInjective(s) /\ i \notin ToSet(s) => IsInjective(Append(s, i))
<1> DEFINE t == Append(s, i)
           n == Len(s)
<1>1. /\ n \in Nat /\ DOMAIN s = 1..n /\ DOMAIN t = 1..(n + 1) /\ t[n + 1] = i
      /\ t \in Seq(S) /\ Len(t) = n + 1
      /\ \A x \in 1..n : t[x] = s[x] /\ x \in 1..(n + 1)
    OBVIOUS
<1>2. \A x \in 1..(n + 1) : x = n + 1 \/ x \in 1..n
    BY <1>1
<1>3. n + 1 \in 1..(n + 1)
    BY <1>1
<1> HIDE DEF t, n
<1>4. ASSUME IsInjective(s), i \notin ToSet(s) PROVE IsInjective(t)
    <2>1. \A x \in 1..n : s[x] # i
        BY <1>1, <1>4 DEF ToSet
    <2> QED BY <1>1, <1>2, <1>4, <2>1 DEF IsInjective
<1>5. \A x : x \in ToSet(t) <=> x \in ToSet(s) \/ x = i
    BY <1>1, <1>2, <1>3 DEF ToSet
<1> QED BY <1>1, <1>4, <1>5 DEF t, n

(* The head and the rest of a queue.                                       *)
LEMMA TailFacts ==
    ASSUME NEW S, NEW s \in Seq(S), s # <<>>
    PROVE  /\ Tail(s) \in Seq(S) /\ Len(Tail(s)) = Len(s) - 1 /\ Head(s) \in ToSet(s) /\ Head(s) \in S
           /\ \A x : x \in ToSet(s) <=> x = Head(s) \/ x \in ToSet(Tail(s))
           /\ IsInjective(s) => IsInjective(Tail(s)) /\ Head(s) \notin ToSet(Tail(s))
<1> DEFINE t == Tail(s)
           n == Len(s)
<1>1. /\ n \in Nat /\ n > 0 /\ DOMAIN s = 1..n /\ DOMAIN t = 1..(n - 1) /\ Head(s) = s[1]
      /\ t \in Seq(S) /\ Len(t) = n - 1 /\ s[1] \in S
      /\ \A x \in 1..(n - 1) : t[x] = s[x + 1] /\ x + 1 \in 1..n /\ x + 1 # 1
    OBVIOUS
<1>2. /\ \A x \in 1..n : x = 1 \/ (x - 1 \in 1..(n - 1) /\ (x - 1) + 1 = x)
      /\ 1 \in 1..n
    BY <1>1
<1> HIDE DEF t, n
<1>3. ASSUME IsInjective(s) PROVE IsInjective(t) /\ Head(s) \notin ToSet(t)
    <2>1. \A x, y \in 1..n : s[x] = s[y] => x = y
        BY <1>1, <1>3 DEF IsInjective
    <2>2. ASSUME NEW x \in 1..(n - 1), NEW y \in 1..(n - 1), t[x] = t[y] PROVE x = y
        <3>1. x + 1 = y + 1
            BY <1>1, <2>1, <2>2
        <3> QED BY <1>1, <3>1
    <2>3. \A x \in 1..(n - 1) : s[x + 1] # s[1]
        BY <1>1, <1>2, <2>1
    <2> QED BY <1>1, <2>2, <2>3 DEF IsInjective, ToSet
<1>4. \A x : x \in ToSet(t) => x \in ToSet(s)
    BY <1>1 DEF ToSet
<1>5. Head(s) \in ToSet(s)
    BY <1>1, <1>2 DEF ToSet
<1>6. ASSUME NEW x \in ToSet(s), x # Head(s) PROVE x \in ToSet(t)
    <2>1. PICK k \in 1..n : x = s[k]
        BY <1>1 DEF ToSet
    <2>2. k - 1 \in 1..(n - 1) /\ t[k - 1] = x
        BY <1>1, <1>2, <1>6, <2>1
    <2> QED BY <1>1, <2>2 DEF ToSet
<1> QED BY <1>1, <1>3, <1>4, <1>5, <1>6 DEF t, n

(* Both ways through semWait.                                              *)
LEMMA SemWaitFacts ==
    ASSUME place \in [Procs -> Everywhere], NEW p \in Procs, NEW s \in Sem, NEW s2,
           NEW asleep \in Sleeps, semWait(p, s, s2, asleep)
    PROVE  /\ s2 \in Sem
           /\ place' \in [Procs -> Everywhere]
           /\ \A x \in Procs : x # p => place'[x] = place[x]
           /\ \/ /\ s.value > 0 /\ s2.value = s.value - 1 /\ s2.queue = s.queue
                 /\ place'[p] = Woken(asleep) /\ blocked' = blocked
              \/ /\ s.value = 0 /\ s2.value = 0 /\ s2.queue = Append(s.queue, p)
                 /\ place'[p] = asleep /\ blocked' = blocked \cup {p}
<1>1. /\ s.value \in 0..(Word - 1) /\ s.queue \in Seq(Procs)
      /\ s = [value |-> s.value, queue |-> s.queue]
    BY DEF Sem
<1>2. asleep \in Everywhere /\ Woken(asleep) \in Everywhere
    BY DEF Sleeps, ReadSleeps, Woken, Everywhere, ShellPlaces, JobPlaces
<1>3. CASE s.value > 0
    <2>1. /\ s2 = [s EXCEPT !.value = @ - 1]
          /\ place' = [place EXCEPT ![p] = Woken(asleep)]
          /\ blocked' = blocked
        BY <1>3 DEF semWait
    <2>2. s2 \in Sem /\ s2.value = s.value - 1 /\ s2.queue = s.queue
        BY <1>1, <1>3, <2>1, PidFacts DEF Sem
    <2> QED BY <1>2, <1>3, <2>1, <2>2
<1>4. CASE s.value = 0
    <2>1. /\ s2 = [s EXCEPT !.queue = Append(@, p)]
          /\ place' = [place EXCEPT ![p] = asleep]
          /\ blocked' = blocked \cup {p}
        BY <1>4 DEF semWait
    <2>2. s2 \in Sem /\ s2.value = s.value /\ s2.queue = Append(s.queue, p)
        BY <1>1, <1>4, <2>1, AppendFacts DEF Sem
    <2> QED BY <1>2, <1>4, <2>1, <2>2
<1> QED BY <1>1, <1>3, <1>4

(* The three ways through semPost: nobody is queued, the first of the      *)
(* queue sleeps there, or it does not any more.                            *)
Posted(p, s, s2, sleeps, next) ==
    /\ s2 \in Sem
    /\ place' \in [Procs -> Everywhere] /\ place'[p] = next
    /\ \/ /\ s.queue = <<>> /\ s2.queue = <<>> /\ s2.value = (s.value + 1) % Word
          /\ \A x \in Procs : x # p => place'[x] = place[x]
          /\ blocked' = blocked
       \/ \E f \in Procs :
          /\ s.queue # <<>> /\ f = Head(s.queue) /\ s2.queue = Tail(s.queue)
          /\ f \in blocked /\ place[f] \in sleeps /\ f # p
          /\ s2.value = s.value /\ place'[f] = Woken(place[f])
          /\ \A x \in Procs : x # p /\ x # f => place'[x] = place[x]
          /\ blocked' = blocked \ {f}
       \/ \E f \in Procs :
          /\ s.queue # <<>> /\ f = Head(s.queue) /\ s2.queue = Tail(s.queue)
          /\ ~(f \in blocked /\ place[f] \in sleeps)
          /\ s2.value = (s.value + 1) % Word
          /\ \A x \in Procs : x # p => place'[x] = place[x]
          /\ blocked' = blocked \ {f}

LEMMA SemPostFacts ==
    ASSUME place \in [Procs -> Everywhere], \A x \in blocked : x \in Procs,
           NEW p \in Procs, NEW s \in Sem, NEW s2, NEW sleeps \in SUBSET Sleeps,
           NEW next \in Everywhere, place[p] \notin sleeps,
           semPost(p, s, s2, sleeps, next)
    PROVE  Posted(p, s, s2, sleeps, next)
<1> DEFINE first   == IF s.queue = <<>> THEN None ELSE Head(s.queue)
           sleeper == first \in blocked /\ place[first] \in sleeps
           v       == (s.value + 1) % Word
<1>1. /\ s.value \in 0..(Word - 1) /\ s.queue \in Seq(Procs)
      /\ v \in 0..(Word - 1)
    BY PidFacts DEF Sem
<1>2. /\ s2 = [queue |-> IF s.queue = <<>> THEN <<>> ELSE Tail(s.queue),
               value |-> IF sleeper THEN s.value ELSE v]
      /\ place' = IF sleeper THEN [place EXCEPT ![p] = next, ![first] = Woken(@)]
                  ELSE [place EXCEPT ![p] = next]
      /\ blocked' = blocked \ {first}
    BY DEF semPost
<1> HIDE DEF v
<1>3. CASE s.queue = <<>>
    <2>1. first = None /\ None \notin blocked
        BY <1>3, PidFacts
    <2>2. /\ s2 = [queue |-> <<>>, value |-> v] /\ place' = [place EXCEPT ![p] = next]
          /\ blocked' = blocked
        BY <1>2, <1>3, <2>1
    <2>3. s2 \in Sem /\ s2.value = v /\ s2.queue = <<>>
        BY <1>1, <2>2 DEF Sem
    <2> QED BY <1>3, <2>2, <2>3 DEF v, Posted
<1>4. CASE s.queue # <<>>
    <2> DEFINE f == Head(s.queue)
               t == Tail(s.queue)
    <2>1. f \in Procs /\ first = f /\ t \in Seq(Procs)
        BY <1>1, <1>4, TailFacts
    <2>2. /\ s2 = [queue |-> t, value |-> IF sleeper THEN s.value ELSE v]
        BY <1>2, <1>4
    <2> HIDE DEF t
    <2>3. CASE sleeper
        <3>1. f \in blocked /\ place[f] \in sleeps /\ f # p
            BY <2>1, <2>3
        <3>2. s2 \in Sem /\ s2.value = s.value /\ s2.queue = t
            BY <1>1, <2>1, <2>2, <2>3 DEF Sem
        <3>3. Woken(place[f]) \in Everywhere
            BY <3>1 DEF Sleeps, ReadSleeps, Woken, Everywhere, ShellPlaces, JobPlaces
        <3>4. place' = [place EXCEPT ![p] = next, ![f] = Woken(@)] /\ blocked' = blocked \ {f}
            BY <1>2, <2>1, <2>3
        <3> HIDE DEF f
        <3>5. /\ place' \in [Procs -> Everywhere] /\ place'[p] = next
              /\ place'[f] = Woken(place[f])
              /\ \A x \in Procs : x # p /\ x # f => place'[x] = place[x]
            BY <2>1, <3>1, <3>3, <3>4
        <3> QED BY <1>4, <2>1, <3>1, <3>2, <3>4, <3>5 DEF f, t, Posted
    <2>4. CASE ~sleeper
        <3>1. s2 \in Sem /\ s2.value = v /\ s2.queue = t
            BY <1>1, <2>1, <2>2, <2>4 DEF Sem
        <3>2. place' = [place EXCEPT ![p] = next] /\ blocked' = blocked \ {f}
            BY <1>2, <2>1, <2>4
        <3>3. ~(f \in blocked /\ place[f] \in sleeps)
            BY <2>1, <2>4
        <3> HIDE DEF f
        <3>4. /\ place' \in [Procs -> Everywhere] /\ place'[p] = next
              /\ \A x \in Procs : x # p => place'[x] = place[x]
            BY <3>2
        <3> QED BY <1>4, <2>1, <3>1, <3>2, <3>3, <3>4 DEF f, t, v, Posted
    <2> QED BY <2>3, <2>4
<1> QED BY <1>3, <1>4

---------------------------------------------------------------------------
(* What terminateProcess(q) does besides taking q away.                    *)
Ended(q) ==
    /\ q \in Jobs /\ place[q] # "none" /\ place'[q] = "none"
    /\ background' = IF background[q] = "FOREGROUND"
                     THEN [background EXCEPT ![shellPid] = "FOREGROUND"] ELSE background
    /\ blocked' \subseteq blocked /\ q \notin blocked'
    /\ \A x \in blocked : x # q /\ x \notin blocked' => x = shellPid /\ background[q] = "FOREGROUND"
    /\ trouble \subseteq trouble' /\ trouble' \subseteq Troubles
    /\ place[q] \in {"start", "starting"} => "early" \in trouble'
    /\ background[q] = "FOREGROUND" /\ shellPid \in blocked /\ place[shellPid] = "waiting"
            => "woken" \in trouble'

LEMMA EndedFacts ==
    ASSUME trouble \subseteq Troubles, NEW q \in Jobs, place[q] # "none",
           NEW where \in [Procs -> Everywhere], terminateProcess(q, where)
    PROVE  /\ Ended(q) /\ place' \in [Procs -> Everywhere]
           /\ \A x \in Procs : x # q => place'[x] = where[x]
<1>1. q \in Procs /\ q # shellPid /\ "none" \in Everywhere
    BY PidFacts DEF Everywhere, JobPlaces
<1>2. place' = [where EXCEPT ![q] = "none"]
    BY DEF terminateProcess
<1>3. /\ background' = IF background[q] = "FOREGROUND"
                       THEN [background EXCEPT ![shellPid] = "FOREGROUND"] ELSE background
      /\ blocked' = blocked \ ({q} \cup (IF background[q] = "FOREGROUND" THEN {shellPid} ELSE {}))
      /\ trouble' = trouble
              \cup Flag("early", place[q] \in {"start", "starting"})
              \cup Flag("keyboard", place[q] \in {"read", "give", "asking"})
              \cup Flag("woken", background[q] = "FOREGROUND" /\ shellPid \in blocked
                                    /\ place[shellPid] = "waiting")
    BY DEF terminateProcess
<1>4. /\ trouble \subseteq trouble' /\ trouble' \subseteq Troubles
      /\ place[q] \in {"start", "starting"} => "early" \in trouble'
      /\ background[q] = "FOREGROUND" /\ shellPid \in blocked /\ place[shellPid] = "waiting"
            => "woken" \in trouble'
    BY <1>3 DEF Flag, Troubles
<1>5. /\ blocked' \subseteq blocked /\ q \notin blocked'
      /\ \A x \in blocked : x # q /\ x \notin blocked' => x = shellPid /\ background[q] = "FOREGROUND"
    BY <1>3
<1> QED BY <1>1, <1>2, <1>3, <1>4, <1>5 DEF Ended

(* sys_kill by w, which goes on at `to', ends a job or does nothing.       *)
LEMMA KillFacts ==
    ASSUME trouble \subseteq Troubles, place \in [Procs -> Everywhere],
           NEW w \in Procs, NEW to \in Everywhere, NEW q, q # w,
           sys_kill(q, [place EXCEPT ![w] = to])
    PROVE  /\ place' \in [Procs -> Everywhere] /\ place'[w] = to
           /\ \A x \in Procs : x # w /\ x # q => place'[x] = place[x]
           /\ \/ Ended(q)
              \/ /\ \A x \in Procs : x # w => place'[x] = place[x]
                 /\ UNCHANGED <<background, blocked, trouble>>
<1> DEFINE where == [place EXCEPT ![w] = to]
<1>1. where \in [Procs -> Everywhere] /\ where[w] = to /\ \A x \in Procs : x # w => where[x] = place[x]
    OBVIOUS
<1>2. sys_kill(q, where)
    OBVIOUS
<1> HIDE DEF where
<1>3. CASE q \in Jobs /\ Exists(q)
    <2>1. terminateProcess(q, where) /\ place[q] # "none"
        BY <1>2, <1>3 DEF sys_kill, Exists
    <2> QED BY <1>1, <1>3, <2>1, EndedFacts
<1>4. CASE ~(q \in Jobs /\ Exists(q))
    <2>1. place' = where /\ UNCHANGED <<background, blocked, trouble>>
        BY <1>2, <1>4 DEF sys_kill
    <2> QED BY <1>1, <2>1
<1> QED BY <1>3, <1>4

(* A process that runs exists and is the shell or a job.                   *)
LEMMA RunsFacts ==
    ASSUME Typed
    PROVE  /\ place \in [Procs -> Everywhere] /\ trouble \subseteq Troubles
           /\ background \in [Procs -> {"FOREGROUND", "BACKGROUND"}]
           /\ startSem \in Sem /\ readSem \in Sem
           /\ \A x \in blocked : x \in Procs /\ place[x] # "none"
           /\ place[shellPid] \in ShellPlaces /\ \A x \in Jobs : place[x] \in JobPlaces
BY DEF Typed, Placed, Everywhere

(* A step after which the shell is as far with its command line as before, *)
(* or not working on one.                                                  *)
Setup == {"create", "map", "retreat", "promote", "post"}

LEMMA TypedKept ==
    ASSUME Typed, UNCHANGED <<job, forePid, command, newPids, nextPid>>,
           place' \in [Procs -> Everywhere], place'[shellPid] \in ShellPlaces,
           \A x \in Jobs : place'[x] \in JobPlaces /\ (place[x] = "none" => place'[x] = "none"),
           place'[shellPid] \in Setup => place'[shellPid] = place[shellPid],
           \A x \in blocked' : x \in Procs /\ place'[x] # "none",
           background' = background \/ background' = [background EXCEPT ![shellPid] = "FOREGROUND"],
           startSem' \in Sem, readSem' \in Sem, trouble' \subseteq Troubles,
           \A x \in ToSet(startSem'.queue) : x \in ToSet(startSem.queue) \/ (x \in Procs /\ place[x] # "none"),
           \A x \in ToSet(readSem'.queue) : x \in ToSet(readSem.queue) \/ (x \in Procs /\ place[x] # "none")
    PROVE  Typed'
<1>1. Placed'
    BY DEF Placed, Everywhere
<1>2. Working'
    BY DEF Typed, Working, Setup
<1>3. /\ background' \in [Procs -> {"FOREGROUND", "BACKGROUND"}]
      /\ \A x \in Jobs : background'[x] = background[x]
    BY PidFacts DEF Typed
<1>4. \A x \in Procs : place[x] # "none" => x < nextPid
    BY PidFacts DEF Typed, Fresh, Jobs, Procs, shellPid
<1>5. Fresh'
    BY <1>3, <1>4 DEF Typed, Fresh
<1> QED BY <1>1, <1>2, <1>3, <1>5 DEF Typed

(* Two shapes of such a step: one that leaves the semaphores, and one that *)
(* uses one of them.                                                       *)
LEMMA TypedQuiet ==
    ASSUME Typed, UNCHANGED <<job, forePid, command, newPids, nextPid, startSem, readSem>>,
           place' \in [Procs -> Everywhere], place'[shellPid] \in ShellPlaces,
           \A x \in Jobs : place'[x] \in JobPlaces /\ (place[x] = "none" => place'[x] = "none"),
           place'[shellPid] \in Setup => place'[shellPid] = place[shellPid],
           \A x \in blocked' : x \in Procs /\ place'[x] # "none",
           background' = background \/ background' = [background EXCEPT ![shellPid] = "FOREGROUND"],
           trouble' \subseteq Troubles
    PROVE  Typed'
<1>1. startSem' \in Sem /\ readSem' \in Sem
    BY DEF Typed
<1> QED BY <1>1, TypedKept

LEMMA WaitTyped ==
    ASSUME Typed, UNCHANGED <<job, background, forePid, command, newPids, nextPid, trouble>>,
           NEW p \in Procs, place[p] # "none", NEW asleep \in Sleeps,
           \/ semWait(p, readSem, readSem', asleep) /\ UNCHANGED startSem
           \/ semWait(p, startSem, startSem', asleep) /\ UNCHANGED readSem,
           p = shellPid => asleep = "waiting", p \in Jobs => asleep # "waiting"
    PROVE  Typed'
<1>1. PICK s \in Sem, s2 \in Sem :
        /\ semWait(p, s, s2, asleep)
        /\ \/ s = readSem /\ s2 = readSem' /\ UNCHANGED startSem
           \/ s = startSem /\ s2 = startSem' /\ UNCHANGED readSem
    BY RunsFacts, SemWaitFacts
<1>2. s.queue \in Seq(Procs)
    BY DEF Sem
<1>3. /\ place' \in [Procs -> Everywhere]
      /\ \A x \in Procs : x # p => place'[x] = place[x]
      /\ \/ s2.queue = s.queue /\ place'[p] = Woken(asleep) /\ blocked' = blocked
         \/ s2.queue = Append(s.queue, p) /\ place'[p] = asleep /\ blocked' = blocked \cup {p}
    BY <1>1, RunsFacts, SemWaitFacts
<1>4. \A x \in ToSet(s2.queue) : x \in ToSet(s.queue) \/ x = p
    BY <1>2, <1>3, AppendFacts
<1>5. /\ place'[p] # "none" /\ place'[p] \notin Setup
      /\ p = shellPid => place'[p] \in ShellPlaces
      /\ p \in Jobs => place'[p] \in JobPlaces
    BY <1>3 DEF Sleeps, ReadSleeps, Woken, ShellPlaces, JobPlaces, Setup
<1>6. \A x \in blocked' : x \in Procs /\ place'[x] # "none"
    BY <1>3, <1>5, RunsFacts
<1>7. /\ place'[shellPid] \in ShellPlaces
      /\ \A x \in Jobs : place'[x] \in JobPlaces /\ (place[x] = "none" => place'[x] = "none")
      /\ place'[shellPid] \in Setup => place'[shellPid] = place[shellPid]
    BY <1>3, <1>5, PidFacts, RunsFacts
<1>8. /\ startSem' \in Sem /\ readSem' \in Sem
      /\ \A x \in ToSet(startSem'.queue) : x \in ToSet(startSem.queue) \/ (x \in Procs /\ place[x] # "none")
      /\ \A x \in ToSet(readSem'.queue) : x \in ToSet(readSem.queue) \/ (x \in Procs /\ place[x] # "none")
    BY <1>1, <1>4, RunsFacts
<1> QED BY <1>3, <1>6, <1>7, <1>8, RunsFacts, TypedKept

(* Where everybody is after semPost by p.                                  *)
PostedPlaces(p, s, s2, sleeps, next) ==
    /\ s2 \in Sem /\ \A x \in ToSet(s2.queue) : x \in ToSet(s.queue)
    /\ place' \in [Procs -> Everywhere] /\ place'[p] = next
    /\ place'[shellPid] \in ShellPlaces /\ \A x \in Jobs : place'[x] \in JobPlaces
    /\ \A x \in Procs : place'[x] = "none" <=> place[x] = "none"
    /\ \A x \in Procs : x # p => place'[x] = place[x] \/ (place[x] \in sleeps /\ place'[x] = Woken(place[x]))
    /\ blocked' \subseteq blocked
    /\ \A x \in blocked' : x \in Procs /\ place'[x] # "none"

LEMMA PostShape ==
    ASSUME Typed, NEW p \in Procs, NEW s \in Sem, NEW s2, NEW sleeps \in SUBSET Sleeps, NEW next,
           place[p] \notin sleeps \cup {"none"}, semPost(p, s, s2, sleeps, next),
           p = shellPid => next \in ShellPlaces, p \in Jobs => next \in JobPlaces \ {"none"}
    PROVE  PostedPlaces(p, s, s2, sleeps, next) /\ Posted(p, s, s2, sleeps, next)
<1>1. /\ next \in Everywhere /\ next # "none" /\ s.queue \in Seq(Procs)
      /\ place \in [Procs -> Everywhere] /\ \A x \in blocked : x \in Procs
    BY PidFacts, RunsFacts DEF Everywhere, ShellPlaces, JobPlaces, Sem
<1>0. Posted(p, s, s2, sleeps, next)
    BY <1>1, SemPostFacts
<1>2. /\ s2 \in Sem /\ place' \in [Procs -> Everywhere] /\ place'[p] = next
      /\ blocked' \subseteq blocked
      /\ \/ s.queue = <<>> /\ s2.queue = <<>>
         \/ s.queue # <<>> /\ s2.queue = Tail(s.queue)
      /\ \A x \in Procs : x # p => place'[x] = place[x] \/ (place[x] \in sleeps /\ place'[x] = Woken(place[x]))
    BY <1>0 DEF Posted
<1>3. \A x \in ToSet(s2.queue) : x \in ToSet(s.queue)
    BY <1>1, <1>2, TailFacts
<1>4. \A x \in Procs : x # p => /\ place'[x] = "none" <=> place[x] = "none"
                                /\ x = shellPid => place'[x] \in ShellPlaces
                                /\ x \in Jobs => place'[x] \in JobPlaces
    BY <1>2, RunsFacts DEF Sleeps, ReadSleeps, Woken, ShellPlaces, JobPlaces
<1>5. /\ \A x \in Procs : place'[x] = "none" <=> place[x] = "none"
      /\ place'[shellPid] \in ShellPlaces /\ \A x \in Jobs : place'[x] \in JobPlaces
    BY <1>1, <1>2, <1>4, PidFacts
<1> QED BY <1>0, <1>2, <1>3, <1>5, RunsFacts DEF PostedPlaces

LEMMA GiveTyped ==
    ASSUME Typed, UNCHANGED <<job, background, forePid, command, newPids, nextPid, startSem, trouble>>,
           NEW p \in Procs, NEW next, place[p] \notin ReadSleeps \cup {"none"},
           semPost(p, readSem, readSem', ReadSleeps, next),
           p = shellPid => next = "wait", p \in Jobs => next = "exit"
    PROVE  Typed'
<1>1. /\ ReadSleeps \in SUBSET Sleeps /\ readSem \in Sem /\ startSem' \in Sem /\ trouble' \subseteq Troubles
      /\ p = shellPid => next \in ShellPlaces
      /\ p \in Jobs => next \in JobPlaces \ {"none"}
    BY RunsFacts DEF Sleeps, ShellPlaces, JobPlaces
<1>2. PostedPlaces(p, readSem, readSem', ReadSleeps, next)
    BY <1>1, PostShape
<1>3. place'[shellPid] \in Setup => place'[shellPid] = place[shellPid]
    BY <1>2, PidFacts DEF Setup, ReadSleeps, Woken, PostedPlaces
<1>4. /\ readSem' \in Sem /\ \A x \in ToSet(readSem'.queue) : x \in ToSet(readSem.queue)
      /\ place' \in [Procs -> Everywhere] /\ place'[shellPid] \in ShellPlaces
      /\ \A x \in Jobs : place'[x] \in JobPlaces /\ (place[x] = "none" => place'[x] = "none")
      /\ \A x \in blocked' : x \in Procs /\ place'[x] # "none"
    BY <1>2, PidFacts DEF PostedPlaces
<1> QED BY <1>1, <1>3, <1>4, TypedKept

(* The steps of the shell with a command line.                             *)
LEMMA CommandTyped ==
    ASSUME Typed, NEW c \in Commands, CommandLine(c)
    PROVE  Typed'
<1>1. /\ place[shellPid] = "prompt" /\ command' = c /\ newPids' = <<>>
      /\ semPost(shellPid, readSem, readSem', ReadSleeps, "create")
      /\ nextPid + Len(c.kinds) - 1 <= MaxJob
      /\ UNCHANGED <<job, background, forePid, nextPid, startSem, trouble>>
    BY DEF CommandLine, Runs
<1>2. /\ ReadSleeps \in SUBSET Sleeps /\ readSem \in Sem /\ "create" \in ShellPlaces
      /\ place[shellPid] \notin ReadSleeps \cup {"none"}
    BY <1>1, RunsFacts DEF Sleeps, ReadSleeps, ShellPlaces
<1>0. PostedPlaces(shellPid, readSem, readSem', ReadSleeps, "create")
    BY <1>1, <1>2, PidFacts, PostShape
<1>3. /\ readSem' \in Sem /\ \A x \in ToSet(readSem'.queue) : x \in ToSet(readSem.queue)
      /\ place' \in [Procs -> Everywhere] /\ place'[shellPid] = "create"
      /\ place'[shellPid] \in ShellPlaces /\ \A x \in Jobs : place'[x] \in JobPlaces
      /\ \A x \in Procs : place'[x] = "none" <=> place[x] = "none"
      /\ \A x \in blocked' : x \in Procs /\ place'[x] # "none"
    BY <1>0 DEF PostedPlaces
<1>4. Placed'
    BY <1>3 DEF Placed, Everywhere
<1>5. Fresh'
    BY <1>1, <1>3, PidFacts DEF Typed, Fresh
<1>6. Working'
    <2>1. /\ c.kinds \in Seq(Kinds) /\ Len(c.kinds) \in {1, 2} /\ c.back \in BOOLEAN
          /\ nextPid \in Int /\ MaxJob \in Int /\ Len(c.kinds) \in Nat
        BY ShellAssumption DEF Typed, Fresh
    <2>2. newPids' \in Seq(Jobs \cup {None}) /\ Len(newPids') = 0 /\ ToSet(newPids') = {}
        BY <1>1 DEF ToSet
    <2>3. \A p \in ToSet(newPids') : p < nextPid'
        BY <2>2
    <2>4. place'[shellPid] = "create" /\ command' = c /\ nextPid' = nextPid
        BY <1>1, <1>3
    <2>5. nextPid + Len(c.kinds) - 0 - 1 <= MaxJob /\ 0 < Len(c.kinds) /\ 0 <= Len(c.kinds)
        <3>1. ASSUME NEW k, k \in {1, 2}, NEW n \in Int, n + k - 1 <= MaxJob
              PROVE  n + k - 0 - 1 <= MaxJob /\ 0 < k /\ 0 <= k
            BY <3>1, ShellAssumption
        <3> QED BY <1>1, <2>1, <3>1
    <2> QED BY <2>1, <2>2, <2>3, <2>4, <2>5 DEF Working
<1> QED BY <1>1, <1>3, <1>4, <1>5, <1>6 DEF Typed

(* A step of the shell alone, to another place of the same line.           *)
LEMMA ShellTyped ==
    ASSUME Typed, NEW w \in ShellPlaces, place' = [place EXCEPT ![shellPid] = w],
           UNCHANGED <<blocked, command, newPids, nextPid, startSem, readSem>>,
           trouble' \subseteq Troubles,
           w \in Setup => place[shellPid] \in {"map", "retreat", "promote"} /\ w \notin {"create", "map"},
           background' \in [Procs -> {"FOREGROUND", "BACKGROUND"}],
           \A x \in Jobs : background'[x] = background[x] \/ place[x] # "none",
           job' \in [Jobs -> [kind : Kinds, source : {"keyboard", "pipe"}, left : Jobs \cup {None}]],
           forePid' \in Jobs \cup {0, None}
    PROVE  Typed'
<1>1. /\ place' \in [Procs -> Everywhere] /\ place'[shellPid] = w /\ w # "none"
      /\ \A x \in Procs : x # shellPid => place'[x] = place[x]
    BY PidFacts, RunsFacts DEF Everywhere, ShellPlaces
<1>2. Placed'
    BY <1>1, PidFacts DEF Typed, Placed, Everywhere
<1>3. Fresh'
    BY <1>1, PidFacts DEF Typed, Fresh
<1>4. Working'
    <2>1. /\ command' = command /\ newPids' = newPids /\ nextPid' = nextPid /\ place'[shellPid] = w
          /\ w \notin {"create", "map"}
          /\ w \in {"retreat", "promote", "post"} => Len(newPids) = Len(command.kinds)
        BY <1>1 DEF Typed, Working, Setup
    <2>2. /\ command.kinds \in Seq(Kinds) /\ Len(command.kinds) \in {1, 2} /\ command.back \in BOOLEAN
          /\ newPids \in Seq(Jobs \cup {None}) /\ Len(newPids) <= Len(command.kinds)
          /\ \A p \in ToSet(newPids) : p < nextPid
        BY DEF Typed, Working
    <2>3. w = "post" => Len(newPids) > 0
        <3>1. ASSUME NEW k, k \in {1, 2} PROVE k > 0
            BY <3>1
        <3> QED BY <2>1, <2>2, <3>1
    <2> HIDE DEF Typed
    <2> QED BY <2>1, <2>2, <2>3 DEF Working
<1> QED BY <1>2, <1>3, <1>4 DEF Typed

(* Where the shell goes after it has created a process.                    *)
LEMMA AfterCreateFacts ==
    ASSUME Typed, place[shellPid] = "create"
    PROVE  /\ Len(newPids) \in Nat /\ Len(newPids) < Len(command.kinds)
           /\ Len(command.kinds) \in {1, 2} /\ command.kinds \in Seq(Kinds)
           /\ AfterCreate(Len(newPids) + 1) \in {"create", "map", "retreat", "post"}
           /\ AfterCreate(Len(newPids) + 1) = "create" <=> Len(newPids) + 1 < Len(command.kinds)
           /\ AfterCreate(Len(newPids) + 1) = "map" => Len(command.kinds) = 2
<1>1. /\ newPids \in Seq(Jobs \cup {None}) /\ Len(newPids) < Len(command.kinds)
      /\ Len(command.kinds) \in {1, 2} /\ command.kinds \in Seq(Kinds)
    BY DEF Typed, Working
<1>2. Len(newPids) \in Nat
    BY <1>1
<1> DEFINE n == Len(newPids)
           m == Len(command.kinds)
<1>3. AfterCreate(n + 1) = CASE n + 1 < m -> "create"
            [] n + 1 = m /\ m = 2 -> "map"
            [] n + 1 = m /\ ~(m = 2) -> IF command.back THEN "post" ELSE "retreat"
    BY DEF AfterCreate, Piped
<1> HIDE DEF n, m
<1>4. n \in Nat /\ n < m /\ m \in {1, 2}
    BY <1>1, <1>2 DEF n, m
<1>5. /\ AfterCreate(n + 1) \in {"create", "map", "retreat", "post"}
      /\ AfterCreate(n + 1) = "create" <=> n + 1 < m
      /\ AfterCreate(n + 1) = "map" => m = 2
    <2>1. CASE n + 1 < m
        BY <1>3, <1>4, <2>1
    <2>2. CASE n + 1 = m /\ m = 2
        BY <1>3, <1>4, <2>2
    <2>3. CASE n + 1 = m /\ m = 1
        BY <1>3, <1>4, <2>3
    <2> QED BY <1>4, <2>1, <2>2, <2>3
<1> QED BY <1>1, <1>2, <1>5 DEF n, m

LEMMA CreateWorking ==
    ASSUME Typed, place[shellPid] = "create", NEW pid \in Jobs \cup {None},
           newPids' = Append(newPids, pid), command' = command,
           place'[shellPid] = AfterCreate(Len(newPids) + 1),
           \/ pid = None /\ nextPid' = nextPid
           \/ pid = nextPid /\ nextPid' = nextPid + 1
    PROVE  Working'
<1> DEFINE n == Len(newPids)
           m == Len(command.kinds)
           a == AfterCreate(n + 1)
<1>1. /\ n \in Nat /\ n < m /\ m \in {1, 2} /\ command.kinds \in Seq(Kinds)
      /\ a \in {"create", "map", "retreat", "post"}
      /\ a = "create" <=> n + 1 < m
      /\ a = "map" => m = 2
    BY AfterCreateFacts
<1>2. /\ nextPid \in Int /\ nextPid >= 2 /\ MaxJob \in Int /\ nextPid + m - n - 1 <= MaxJob
      /\ newPids \in Seq(Jobs \cup {None}) /\ \A p \in ToSet(newPids) : p < nextPid
      /\ command.back \in BOOLEAN /\ place'[shellPid] = a
    BY ShellAssumption DEF Typed, Fresh, Working
<1>3. /\ newPids' \in Seq(Jobs \cup {None}) /\ Len(newPids') = n + 1
      /\ \A x : x \in ToSet(newPids') => x \in ToSet(newPids) \/ x = pid
    BY <1>2, AppendFacts
<1> HIDE DEF n, a
<1>4. \A p \in ToSet(newPids') : p < nextPid'
    <2>1. nextPid' >= nextPid /\ pid < nextPid' /\ nextPid' \in Int
        BY <1>2 DEF None
    <2>2. \A p \in ToSet(newPids) : p \in Int
        BY <1>2, PidFacts DEF ToSet
    <2> QED BY <1>2, <1>3, <2>1, <2>2
<1>5. m \in Int /\ (m = 1 \/ m = 2) /\ command'.kinds = command.kinds /\ command'.back = command.back
    BY <1>1
<1> HIDE DEF m
<1>6. /\ n + 1 <= m
      /\ a = "create" => n + 1 < m /\ nextPid' + m - (n + 1) - 1 <= MaxJob
      /\ a # "create" => n + 1 = m
    BY <1>1, <1>2, <1>5
<1>7. Len(command'.kinds) = m
    BY <1>5 DEF m
<1> QED BY <1>1, <1>2, <1>3, <1>4, <1>5, <1>6, <1>7 DEF Working

LEMMA CreateFailsTyped ==
    ASSUME Typed, CreateFails
    PROVE  Typed'
<1> DEFINE w == AfterCreate(Len(newPids) + 1)
<1>1. /\ place[shellPid] = "create" /\ newPids' = Append(newPids, None)
      /\ place' = [place EXCEPT ![shellPid] = w] /\ trouble' = trouble \cup {"early"}
      /\ UNCHANGED <<job, background, blocked, forePid, command, nextPid, startSem, readSem>>
    BY DEF CreateFails, Runs
<1>2. w \in ShellPlaces /\ w # "none"
    BY <1>1, AfterCreateFacts DEF ShellPlaces
<1> HIDE DEF w
<1>3. /\ place' \in [Procs -> Everywhere] /\ place'[shellPid] = w
      /\ \A x \in Procs : x # shellPid => place'[x] = place[x]
    BY <1>1, <1>2, PidFacts, RunsFacts DEF Everywhere
<1>4. Placed'
    BY <1>1, <1>2, <1>3, PidFacts DEF Typed, Placed, Everywhere
<1>5. Fresh'
    BY <1>1, <1>3, PidFacts DEF Typed, Fresh
<1>6. Working'
    BY <1>1, <1>3, CreateWorking DEF w
<1> QED BY <1>1, <1>4, <1>5, <1>6 DEF Typed, Troubles

(* What createprocess changes.                                             *)
LEMMA CreateFacts ==
    ASSUME Typed, createprocess
    PROVE  /\ nextPid \in Jobs /\ nextPid' = nextPid + 1
           /\ place[nextPid] = "none" /\ background[nextPid] = "BACKGROUND"
           /\ place' \in [Procs -> Everywhere] /\ place'[nextPid] = "start"
           /\ place'[shellPid] = AfterCreate(Len(newPids) + 1)
           /\ \A x \in Procs : x # shellPid /\ x # nextPid => place'[x] = place[x]
<1>1. /\ place[shellPid] = "create" /\ nextPid' = nextPid + 1
      /\ place' = [place EXCEPT ![shellPid] = AfterCreate(Len(newPids) + 1), ![nextPid] = "start"]
    BY DEF createprocess, Runs
<1> DEFINE w == AfterCreate(Len(newPids) + 1)
           n == Len(newPids)
           m == Len(command.kinds)
<1>2. w \in Everywhere /\ "start" \in Everywhere /\ n \in Nat /\ n < m /\ (m = 1 \/ m = 2)
    BY <1>1, AfterCreateFacts DEF ShellPlaces, JobPlaces, Everywhere
<1>3. nextPid \in Int /\ nextPid >= 2 /\ MaxJob \in Int /\ nextPid + m - n - 1 <= MaxJob
    BY <1>1, ShellAssumption DEF Typed, Fresh, Working
<1> HIDE DEF w, n, m
<1>4. nextPid \in Jobs
    BY <1>2, <1>3 DEF Jobs
<1>5. place[nextPid] = "none" /\ background[nextPid] = "BACKGROUND" /\ nextPid \in Procs /\ nextPid # shellPid
    BY <1>3, <1>4, PidFacts DEF Typed, Fresh
<1>6. place' = [place EXCEPT ![shellPid] = w, ![nextPid] = "start"]
    BY <1>1 DEF w
<1>7. /\ place' \in [Procs -> Everywhere] /\ place'[nextPid] = "start" /\ place'[shellPid] = w
      /\ \A x \in Procs : x # shellPid /\ x # nextPid => place'[x] = place[x]
    BY <1>2, <1>5, <1>6, PidFacts, RunsFacts
<1> QED BY <1>1, <1>4, <1>5, <1>7 DEF w

LEMMA CreateTyped ==
    ASSUME Typed, createprocess
    PROVE  Typed'
<1> DEFINE kind == command.kinds[Len(newPids) + 1]
           new  == [NoJob EXCEPT !.kind = kind]
<1>1. /\ place[shellPid] = "create" /\ newPids' = Append(newPids, nextPid)
      /\ job' = [job EXCEPT ![nextPid] = new]
      /\ UNCHANGED <<background, blocked, forePid, command, startSem, readSem, trouble>>
    BY DEF createprocess, Runs
<1>2. kind \in Kinds
    BY <1>1, AfterCreateFacts
<1> HIDE DEF kind
<1>3. new \in [kind : Kinds, source : {"keyboard", "pipe"}, left : Jobs \cup {None}]
    BY <1>2 DEF NoJob
<1> HIDE DEF new
<1>4. job' \in [Jobs -> [kind : Kinds, source : {"keyboard", "pipe"}, left : Jobs \cup {None}]]
    BY <1>1, <1>3 DEF Typed
<1>5. Placed'
    <2>1. place'[shellPid] \in ShellPlaces /\ place'[shellPid] # "none"
        BY <1>1, CreateFacts, AfterCreateFacts DEF ShellPlaces
    <2>2. \A x \in Jobs : place'[x] \in JobPlaces
        BY CreateFacts, RunsFacts, PidFacts DEF JobPlaces
    <2>3. \A x \in blocked : x \in Procs /\ place'[x] # "none"
        BY <2>1, CreateFacts, RunsFacts
    <2> QED BY <1>1, <2>1, <2>2, <2>3, CreateFacts DEF Placed, Everywhere
<1>6. Fresh'
    <2>1. nextPid' \in 2..(MaxJob + 1) /\ nextPid' = nextPid + 1 /\ nextPid \in Int
        BY CreateFacts, ShellAssumption DEF Jobs
    <2>2. \A x \in Jobs : x >= nextPid' => x >= nextPid /\ x # nextPid /\ x # shellPid
        BY <2>1, PidFacts
    <2>3. \A x \in Jobs : x >= nextPid' => place'[x] = "none" /\ background'[x] = "BACKGROUND"
        BY <1>1, <2>2, CreateFacts, PidFacts DEF Typed, Fresh
    <2>4. \A x \in ToSet(readSem.queue) \cup ToSet(startSem.queue) : x \in Int /\ x < nextPid
        <3>1. readSem.queue \in Seq(Procs) /\ startSem.queue \in Seq(Procs)
            BY RunsFacts DEF Sem
        <3> QED BY <3>1, ElementFacts, PidFacts DEF Typed, Fresh
    <2>5. \A x \in ToSet(readSem'.queue) \cup ToSet(startSem'.queue) : x < nextPid'
        BY <1>1, <2>1, <2>4
    <2> QED BY <2>1, <2>3, <2>5 DEF Fresh
<1>7. Working'
    BY <1>1, CreateFacts, CreateWorking
<1> QED BY <1>1, <1>4, <1>5, <1>6, <1>7 DEF Typed

LEMMA MapTyped ==
    ASSUME Typed, MapStdFds
    PROVE  Typed'
<1> DEFINE right == newPids[2]
           w == IF command.back THEN "post" ELSE "retreat"
           J == [kind : Kinds, source : {"keyboard", "pipe"}, left : Jobs \cup {None}]
<1>1. /\ place[shellPid] = "map" /\ place' = [place EXCEPT ![shellPid] = w]
      /\ job' = IF Exists(right)
                THEN [job EXCEPT ![right].source = "pipe", ![right].left = newPids[1]]
                ELSE job
      /\ UNCHANGED <<background, blocked, forePid, command, newPids, nextPid, startSem, readSem, trouble>>
    BY DEF MapStdFds, Runs
<1>2. newPids[1] \in Jobs \cup {None} /\ newPids[2] \in Jobs \cup {None}
    <2>1. newPids \in Seq(Jobs \cup {None}) /\ Len(newPids) = 2
        BY <1>1 DEF Typed, Working
    <2> QED BY <2>1
<1>3. w \in ShellPlaces /\ w \notin {"create", "map"}
    BY DEF ShellPlaces
<1>4. job \in [Jobs -> J] /\ job' \in [Jobs -> J]
    <2>1. job \in [Jobs -> J]
        BY DEF Typed
    <2>2. CASE Exists(right)
        <3>1. right \in Jobs
            BY <1>2, <2>2, PidFacts DEF Exists
        <3> DEFINE l == newPids[1]
                   c == [[job[right] EXCEPT !.source = "pipe"] EXCEPT !.left = l]
        <3>2. job' = [job EXCEPT ![right].source = "pipe", ![right].left = l]
            BY <1>1, <2>2
        <3> HIDE DEF l, right
        <3>3. job[right] \in J
            BY <2>1, <3>1
        <3>4. c \in J
            BY <1>2, <3>3 DEF l
        <3> HIDE DEF J
        <3>5. job' = [job EXCEPT ![right] = c]
            BY <2>1, <3>1, <3>2
        <3> HIDE DEF c
        <3> QED BY <2>1, <3>1, <3>4, <3>5
    <2> QED BY <1>1, <2>1, <2>2
<1>5. /\ trouble' \subseteq Troubles /\ background' \in [Procs -> {"FOREGROUND", "BACKGROUND"}]
      /\ forePid' \in Jobs \cup {0, None} /\ \A x \in Jobs : background'[x] = background[x]
    BY <1>1 DEF Typed
<1> HIDE DEF w
<1> QED BY <1>1, <1>3, <1>4, <1>5, ShellTyped

LEMMA RetreatTyped ==
    ASSUME Typed, setShellBackground
    PROVE  Typed'
<1>1. /\ place[shellPid] = "retreat" /\ place' = [place EXCEPT ![shellPid] = "promote"]
      /\ background' = [background EXCEPT ![shellPid] = "BACKGROUND"]
      /\ UNCHANGED <<job, blocked, forePid, command, newPids, nextPid, startSem, readSem, trouble>>
    BY DEF setShellBackground, Runs
<1>2. /\ trouble' \subseteq Troubles /\ background' \in [Procs -> {"FOREGROUND", "BACKGROUND"}]
      /\ forePid' \in Jobs \cup {0, None} /\ \A x \in Jobs : background'[x] = background[x]
      /\ job' \in [Jobs -> [kind : Kinds, source : {"keyboard", "pipe"}, left : Jobs \cup {None}]]
    BY <1>1, PidFacts DEF Typed
<1>3. "promote" \in ShellPlaces
    BY DEF ShellPlaces
<1> QED BY <1>1, <1>2, <1>3, ShellTyped

LEMMA PromoteFacts ==
    ASSUME Typed, Promote
    PROVE  LET pid == newPids[1]
           IN  /\ place[shellPid] = "promote" /\ pid \in Jobs \cup {None} /\ forePid' = pid
               /\ place' = [place EXCEPT ![shellPid] = "post"]
               /\ background' = IF Exists(pid) THEN [background EXCEPT ![pid] = "FOREGROUND"]
                                ELSE background
               /\ Exists(pid) => pid \in Jobs /\ place[pid] # "none"
               /\ trouble' = trouble \cup Flag("console", ~Exists(pid))
               /\ UNCHANGED <<job, blocked, command, newPids, nextPid, startSem, readSem>>
<1> DEFINE pid == newPids[1]
<1>1. /\ place[shellPid] = "promote" /\ forePid' = pid
      /\ place' = [place EXCEPT ![shellPid] = "post"]
      /\ background' = IF Exists(pid) THEN [background EXCEPT ![pid] = "FOREGROUND"]
                       ELSE background
      /\ trouble' = trouble \cup Flag("console", ~Exists(pid))
      /\ UNCHANGED <<job, blocked, command, newPids, nextPid, startSem, readSem>>
    BY DEF Promote, Runs
<1>2. pid \in Jobs \cup {None}
    <2>1. newPids \in Seq(Jobs \cup {None}) /\ Len(newPids) \in {1, 2}
        BY <1>1 DEF Typed, Working
    <2> QED BY <2>1
<1>3. Exists(pid) => pid \in Jobs /\ place[pid] # "none"
    BY <1>2, PidFacts DEF Exists
<1> QED BY <1>1, <1>2, <1>3

LEMMA PromoteTyped ==
    ASSUME Typed, Promote
    PROVE  Typed'
<1> DEFINE pid == newPids[1]
<1>1. /\ place[shellPid] = "promote" /\ pid \in Jobs \cup {None} /\ forePid' = pid
      /\ place' = [place EXCEPT ![shellPid] = "post"]
      /\ background' = IF Exists(pid) THEN [background EXCEPT ![pid] = "FOREGROUND"]
                       ELSE background
      /\ Exists(pid) => pid \in Jobs /\ place[pid] # "none"
      /\ trouble' = trouble \cup Flag("console", ~Exists(pid))
      /\ UNCHANGED <<job, blocked, command, newPids, nextPid, startSem, readSem>>
    BY PromoteFacts
<1> HIDE DEF pid
<1>2. /\ background' \in [Procs -> {"FOREGROUND", "BACKGROUND"}]
      /\ \A x \in Jobs : background'[x] = background[x] \/ place[x] # "none"
    <2>1. pid \in Jobs => pid \in Procs
        BY PidFacts
    <2>2. \A x \in Jobs : x \in Procs
        BY PidFacts
    <2> QED BY <1>1, <2>1, <2>2, RunsFacts
<1>3. /\ trouble' \subseteq Troubles /\ forePid' \in Jobs \cup {0, None} /\ "post" \in ShellPlaces
      /\ job' \in [Jobs -> [kind : Kinds, source : {"keyboard", "pipe"}, left : Jobs \cup {None}]]
    BY <1>1 DEF Typed, Flag, Troubles, ShellPlaces
<1> QED BY <1>1, <1>2, <1>3, ShellTyped

(* PostStart: what it leaves of the line, and where everybody is.          *)
LEMMA PostStartFacts ==
    ASSUME Typed, PostStart
    PROVE  /\ place[shellPid] = "post" /\ Len(newPids) \in Nat /\ Len(newPids) > 0
           /\ newPids' \in Seq(Jobs \cup {None}) /\ Len(newPids') = Len(newPids) - 1
           /\ \A x \in ToSet(newPids') : x \in ToSet(newPids)
           /\ \E next : /\ next = IF Len(newPids) = 1 THEN "wait" ELSE "post"
                        /\ PostedPlaces(shellPid, startSem, startSem', {"starting"}, next)
                        /\ Posted(shellPid, startSem, startSem', {"starting"}, next)
           /\ UNCHANGED <<job, background, forePid, command, nextPid, readSem, trouble>>
<1> DEFINE next == IF Len(newPids) = 1 THEN "wait" ELSE "post"
<1>1. /\ place[shellPid] = "post" /\ newPids' = Tail(newPids)
      /\ semPost(shellPid, startSem, startSem', {"starting"}, next)
      /\ UNCHANGED <<job, background, forePid, command, nextPid, readSem, trouble>>
    BY DEF PostStart, Runs
<1>2. newPids \in Seq(Jobs \cup {None}) /\ newPids # <<>> /\ Len(newPids) \in Nat /\ Len(newPids) > 0
    BY <1>1 DEF Typed, Working
<1>3. next \in ShellPlaces
    BY DEF ShellPlaces
<1> HIDE DEF next
<1>4. /\ newPids' \in Seq(Jobs \cup {None}) /\ Len(newPids') = Len(newPids) - 1
      /\ \A x \in ToSet(newPids') : x \in ToSet(newPids)
    BY <1>1, <1>2, TailFacts
<1>5. startSem \in Sem /\ {"starting"} \in SUBSET Sleeps /\ place[shellPid] \notin {"starting"} \cup {"none"}
    BY <1>1, RunsFacts DEF Sleeps
<1>6. /\ PostedPlaces(shellPid, startSem, startSem', {"starting"}, next)
      /\ Posted(shellPid, startSem, startSem', {"starting"}, next)
    BY <1>1, <1>3, <1>5, PidFacts, PostShape
<1> QED BY <1>1, <1>2, <1>4, <1>6 DEF next

LEMMA PostStartTyped ==
    ASSUME Typed, PostStart
    PROVE  Typed'
<1>1. PICK next : /\ next = IF Len(newPids) = 1 THEN "wait" ELSE "post"
                  /\ PostedPlaces(shellPid, startSem, startSem', {"starting"}, next)
    BY PostStartFacts
<1>2. UNCHANGED <<job, background, forePid, command, nextPid, readSem, trouble>>
    BY PostStartFacts
<1>3. Placed'
    BY <1>1 DEF PostedPlaces, Placed, Everywhere
<1>4. Fresh'
    BY <1>1, <1>2, PidFacts DEF PostedPlaces, Typed, Fresh
<1>5. Working'
    <2>1. /\ place'[shellPid] = next /\ next \in {"wait", "post"}
          /\ next = "post" => Len(newPids) # 1
        BY <1>1 DEF PostedPlaces
    <2>2. /\ Len(newPids) \in Nat /\ Len(newPids) > 0 /\ Len(newPids') = Len(newPids) - 1
          /\ Len(command.kinds) \in Int /\ Len(newPids) <= Len(command.kinds)
        BY PostStartFacts DEF Typed, Working
    <2>3. Len(newPids') <= Len(command.kinds) /\ (next = "post" => Len(newPids') > 0)
        BY <2>1, <2>2
    <2>4. /\ newPids' \in Seq(Jobs \cup {None}) /\ \A p \in ToSet(newPids') : p < nextPid
        BY PostStartFacts DEF Typed, Working
    <2>5. /\ command.kinds \in Seq(Kinds) /\ Len(command.kinds) \in {1, 2} /\ command.back \in BOOLEAN
        BY DEF Typed, Working
    <2> QED BY <1>2, <2>1, <2>3, <2>4, <2>5 DEF Working
<1>6. startSem' \in Sem
    BY <1>1 DEF PostedPlaces
<1> QED BY <1>2, <1>3, <1>4, <1>5, <1>6 DEF Typed

(* The steps of the shell between two command lines.                       *)
LEMMA IdleTyped ==
    ASSUME Typed, LookAtMode \/ IdleLine \/ LostLine
    PROVE  Typed'
<1>1. PICK w \in {"prompt", "watch", "release"} : place' = [place EXCEPT ![shellPid] = w]
    BY DEF LookAtMode, IdleLine, LostLine
<1>2. UNCHANGED <<job, background, blocked, forePid, command, newPids, nextPid, startSem, readSem, trouble>>
    BY DEF LookAtMode, IdleLine, LostLine
<1>3. w \in ShellPlaces /\ w \notin Setup
    BY DEF ShellPlaces, Setup
<1>4. /\ trouble' \subseteq Troubles /\ background' \in [Procs -> {"FOREGROUND", "BACKGROUND"}]
      /\ forePid' \in Jobs \cup {0, None} /\ \A x \in Jobs : background'[x] = background[x]
      /\ job' \in [Jobs -> [kind : Kinds, source : {"keyboard", "pipe"}, left : Jobs \cup {None}]]
    BY <1>2 DEF Typed
<1> QED BY <1>1, <1>2, <1>3, <1>4, ShellTyped

(* The end of a process, or a kill that finds none.                        *)
LEMMA EndTyped ==
    ASSUME Typed, UNCHANGED <<job, forePid, command, newPids, nextPid, startSem, readSem>>,
           NEW w \in Procs, place[w] # "none", NEW to \in Everywhere, NEW q,
           place' \in [Procs -> Everywhere], w # q => place'[w] = to,
           \A x \in Procs : x # w /\ x # q => place'[x] = place[x],
           \/ Ended(q)
           \/ /\ \A x \in Procs : x # w => place'[x] = place[x]
              /\ w # q /\ UNCHANGED <<background, blocked, trouble>>,
           w = shellPid => to = "release", w \in Jobs => to = "exit"
    PROVE  Typed'
<1>1. /\ to # "none" /\ to \notin Setup
      /\ w = shellPid => to \in ShellPlaces
      /\ w \in Jobs => to \in JobPlaces
    BY PidFacts DEF Setup, ShellPlaces, JobPlaces
<1>2. CASE Ended(q)
    <2>1. /\ q \in Jobs /\ place'[q] = "none" /\ q \notin blocked' /\ blocked' \subseteq blocked
          /\ trouble' \subseteq Troubles
          /\ background' = background \/ background' = [background EXCEPT ![shellPid] = "FOREGROUND"]
        BY <1>2 DEF Ended
    <2>2. /\ place'[shellPid] \in ShellPlaces
          /\ place'[shellPid] \in Setup => place'[shellPid] = place[shellPid]
        BY <1>1, <2>1, PidFacts, RunsFacts
    <2>3. \A x \in Jobs : place'[x] \in JobPlaces /\ (place[x] = "none" => place'[x] = "none")
        BY <1>1, <2>1, PidFacts, RunsFacts DEF JobPlaces
    <2>4. \A x \in blocked' : x \in Procs /\ place'[x] # "none"
        BY <1>1, <2>1, RunsFacts
    <2> QED BY <2>1, <2>2, <2>3, <2>4, TypedQuiet
<1>3. CASE /\ \A x \in Procs : x # w => place'[x] = place[x]
           /\ w # q /\ UNCHANGED <<background, blocked, trouble>>
    <2>1. /\ place'[shellPid] \in ShellPlaces
          /\ place'[shellPid] \in Setup => place'[shellPid] = place[shellPid]
        BY <1>1, <1>3, PidFacts, RunsFacts
    <2>2. \A x \in Jobs : place'[x] \in JobPlaces /\ (place[x] = "none" => place'[x] = "none")
        BY <1>1, <1>3, PidFacts, RunsFacts
    <2>3. \A x \in blocked' : x \in Procs /\ place'[x] # "none"
        BY <1>1, <1>3, RunsFacts
    <2>4. trouble' \subseteq Troubles
        BY <1>3, RunsFacts
    <2> QED BY <1>3, <2>1, <2>2, <2>3, <2>4, TypedQuiet
<1> QED BY <1>2, <1>3

(* Who ends whom: w goes on at `to', and q is gone if there was a q.       *)
Killed(w, to, q) ==
    /\ w \in Procs /\ place[w] # "none" /\ place[w] \notin Sleeps \cup Setup \cup {"start", "prompt"}
    /\ to \in Everywhere
    /\ place' \in [Procs -> Everywhere] /\ (w # q => place'[w] = to)
    /\ \A x \in Procs : x # w /\ x # q => place'[x] = place[x]
    /\ \/ Ended(q)
       \/ /\ \A x \in Procs : x # w => place'[x] = place[x]
          /\ w # q /\ UNCHANGED <<background, blocked, trouble>>
    /\ w = shellPid => to = "release" /\ place[w] = "watch"
    /\ w \in Jobs => to = "exit"

LEMMA KillSteps ==
    ASSUME Typed,
           \/ Interrupt
           \/ \E p \in Jobs : Exit(p) \/ \E q \in Procs : KillJob(p, q)
    PROVE  /\ UNCHANGED <<job, forePid, command, newPids, nextPid, startSem, readSem>>
           /\ \E w, to, q : Killed(w, to, q)
<1>1. UNCHANGED <<job, forePid, command, newPids, nextPid, startSem, readSem>>
    BY DEF Interrupt, Exit, KillJob
<1>2. "release" \in Everywhere /\ "exit" \in Everywhere
    BY DEF Everywhere, ShellPlaces, JobPlaces
<1>3. CASE Interrupt
    <2>1. /\ place[shellPid] = "watch" /\ sys_kill(forePid, [place EXCEPT ![shellPid] = "release"])
        BY <1>3 DEF Interrupt, Runs
    <2>2. forePid # shellPid
        BY PidFacts DEF Typed, None, shellPid
    <2>3. /\ place' \in [Procs -> Everywhere] /\ place'[shellPid] = "release"
          /\ \A x \in Procs : x # shellPid /\ x # forePid => place'[x] = place[x]
          /\ \/ Ended(forePid)
             \/ /\ \A x \in Procs : x # shellPid => place'[x] = place[x]
                /\ UNCHANGED <<background, blocked, trouble>>
        BY <1>2, <2>1, <2>2, PidFacts, RunsFacts, KillFacts
    <2>4. Killed(shellPid, "release", forePid)
        BY <1>2, <2>1, <2>2, <2>3, PidFacts DEF Killed, Sleeps, ReadSleeps, Setup
    <2> QED BY <1>1, <2>4
<1>4. ASSUME NEW p \in Jobs, NEW q \in Procs, KillJob(p, q)
      PROVE  \E w, to, r : Killed(w, to, r)
    <2>1. place[p] = "body" /\ q # p /\ sys_kill(q, [place EXCEPT ![p] = "exit"])
        BY <1>4 DEF KillJob, Does, Runs
    <2>2. /\ place' \in [Procs -> Everywhere] /\ place'[p] = "exit"
          /\ \A x \in Procs : x # p /\ x # q => place'[x] = place[x]
          /\ \/ Ended(q)
             \/ /\ \A x \in Procs : x # p => place'[x] = place[x]
                /\ UNCHANGED <<background, blocked, trouble>>
        BY <1>2, <2>1, PidFacts, RunsFacts, KillFacts
    <2>3. Killed(p, "exit", q)
        BY <1>2, <2>1, <2>2, PidFacts DEF Killed, Sleeps, ReadSleeps, Setup
    <2> QED BY <2>3
<1>5. ASSUME NEW p \in Jobs, Exit(p)
      PROVE  \E w, to, r : Killed(w, to, r)
    <2>1. place[p] \in {"exit", "body"} /\ terminateProcess(p, place)
        BY <1>5 DEF Exit, Does, Runs
    <2>2. /\ Ended(p) /\ place' \in [Procs -> Everywhere]
          /\ \A x \in Procs : x # p => place'[x] = place[x]
        BY <2>1, RunsFacts, EndedFacts
    <2>3. Killed(p, "exit", p)
        BY <1>2, <2>1, <2>2, PidFacts DEF Killed, Sleeps, ReadSleeps, Setup
    <2> QED BY <2>3
<1> QED BY <1>1, <1>3, <1>4, <1>5

LEMMA KillTyped ==
    ASSUME Typed, UNCHANGED <<job, forePid, command, newPids, nextPid, startSem, readSem>>,
           NEW w, NEW to, NEW q, Killed(w, to, q)
    PROVE  Typed'
BY EndTyped DEF Killed

(* A job that goes on by itself.                                           *)
LEMMA JobTyped ==
    ASSUME Typed, UNCHANGED <<job, background, forePid, command, newPids, nextPid, startSem, readSem>>,
           NEW p \in Jobs, NEW to \in JobPlaces \ {"none"}, place[p] # "none",
           place' = [place EXCEPT ![p] = to],
           \A x \in blocked' : x \in blocked \/ (x \in Procs /\ place[x] # "none"),
           trouble' \subseteq Troubles
    PROVE  Typed'
<1>1. /\ place' \in [Procs -> Everywhere] /\ place'[p] = to /\ p # shellPid
      /\ \A x \in Procs : x # p => place'[x] = place[x]
    BY PidFacts, RunsFacts DEF Everywhere
<1>2. place'[shellPid] = place[shellPid] /\ place'[shellPid] \in ShellPlaces
    BY <1>1, PidFacts, RunsFacts
<1>3. \A x \in Jobs : place'[x] \in JobPlaces /\ (place[x] = "none" => place'[x] = "none")
    BY <1>1, PidFacts, RunsFacts
<1>4. \A x \in blocked' : x \in Procs /\ place'[x] # "none"
    BY <1>1, RunsFacts
<1> QED BY <1>1, <1>2, <1>3, <1>4, TypedQuiet

(* A process woken in a semaphore without a post, which takes a unit all   *)
(* the same.                                                               *)
LEMMA WakeUpTyped ==
    ASSUME Typed, NEW p \in Procs,
           (p # shellPid /\ WakeUpStart(p)) \/ WakeUpRead(p)
    PROVE  Typed'
<1> DEFINE w == Woken(place[p])
<1>1. /\ place[p] \in Sleeps /\ place' = [place EXCEPT ![p] = w]
      /\ UNCHANGED <<job, background, blocked, forePid, command, newPids, nextPid, trouble>>
    BY PidFacts, RunsFacts DEF WakeUpStart, WakeUpRead, Runs, Sleeps, ReadSleeps
<1>2. /\ w \notin Setup \cup {"none"}
      /\ p = shellPid => w \in ShellPlaces
      /\ p \in Jobs => w \in JobPlaces
    BY <1>1, RunsFacts DEF Sleeps, ReadSleeps, Woken, ShellPlaces, JobPlaces, Setup
<1> HIDE DEF w
<1>3. /\ startSem' \in Sem /\ startSem'.queue = startSem.queue
      /\ readSem' \in Sem /\ readSem'.queue = readSem.queue
    <2>1. ASSUME NEW s \in Sem, NEW s2, s2 = [s EXCEPT !.value = (@ - 1) % Word]
          PROVE  s2 \in Sem /\ s2.queue = s.queue
        <3> DEFINE v == (s.value - 1) % Word
        <3>1. s.value \in 0..(Word - 1) /\ s.queue \in Seq(Procs) /\ v \in 0..(Word - 1)
            BY PidFacts DEF Sem
        <3>2. s2 = [s EXCEPT !.value = v]
            BY <2>1
        <3> HIDE DEF v
        <3> QED BY <3>1, <3>2 DEF Sem
    <2>2. \/ startSem' = [startSem EXCEPT !.value = (@ - 1) % Word] /\ readSem' = readSem
          \/ readSem' = [readSem EXCEPT !.value = (@ - 1) % Word] /\ startSem' = startSem
        BY DEF WakeUpStart, WakeUpRead
    <2> QED BY <2>1, <2>2, RunsFacts
<1>4. /\ place' \in [Procs -> Everywhere] /\ place'[p] = w
      /\ \A x \in Procs : x # p => place'[x] = place[x]
    BY <1>1, <1>2, PidFacts, RunsFacts DEF Everywhere
<1>5. /\ place'[shellPid] \in ShellPlaces
      /\ place'[shellPid] \in Setup => place'[shellPid] = place[shellPid]
      /\ \A x \in Jobs : place'[x] \in JobPlaces /\ (place[x] = "none" => place'[x] = "none")
    BY <1>1, <1>2, <1>4, PidFacts, RunsFacts DEF Sleeps, ReadSleeps
<1>6. /\ \A x \in blocked' : x \in Procs /\ place'[x] # "none"
      /\ trouble' \subseteq Troubles
    BY <1>1, <1>2, <1>4, RunsFacts
<1> QED BY <1>1, <1>3, <1>4, <1>5, <1>6, TypedKept

(* EndOfInput, ReadBlocks and BlockJob: job p goes on by itself, and       *)
(* blocks itself, or blocks or unblocks another.                           *)
JobMoved(p, to) ==
    /\ p \in Jobs /\ place' = [place EXCEPT ![p] = to]
    /\ \/ place[p] = "read" /\ to \in {"read", "give"}
       \/ place[p] = "body" /\ to = "exit"
    /\ \A x \in blocked : x \notin blocked' /\ place[x] \in Sleeps => "woken" \in trouble'
    /\ \A x \in blocked' : x \in blocked \/ (/\ x \in Procs /\ place[x] # "none"
                                             /\ (x = p /\ place[x] = "read") \/ "stopped" \in trouble')
    /\ trouble \subseteq trouble' /\ trouble' \subseteq Troubles

LEMMA JobMoves ==
    ASSUME Typed, NEW p \in Jobs,
           EndOfInput(p) \/ ReadBlocks(p) \/ \E q \in Procs : BlockJob(p, q)
    PROVE  /\ UNCHANGED <<job, background, forePid, command, newPids, nextPid, startSem, readSem>>
           /\ \E to : JobMoved(p, to)
<1>1. UNCHANGED <<job, background, forePid, command, newPids, nextPid, startSem, readSem>>
    BY DEF EndOfInput, ReadBlocks, BlockJob
<1>2. p \in Procs /\ trouble \subseteq Troubles /\ place \in [Procs -> Everywhere]
    BY PidFacts, RunsFacts
<1>3. CASE EndOfInput(p)
    <2>1. /\ place[p] = "read" /\ place' = [place EXCEPT ![p] = "give"]
          /\ UNCHANGED <<blocked, trouble>>
        BY <1>3 DEF EndOfInput, Runs
    <2>2. JobMoved(p, "give")
        BY <1>2, <2>1 DEF JobMoved
    <2> QED BY <1>1, <2>2
<1>4. CASE ReadBlocks(p)
    <2>1. /\ place[p] = "read" /\ blocked' = blocked \cup {p} /\ trouble' = trouble \cup {"keyboard"}
          /\ place' = [place EXCEPT ![p] = "give"] \/ place' = place
        BY <1>4 DEF ReadBlocks, Runs
    <2>2. place' = place => place' = [place EXCEPT ![p] = "read"]
        BY <1>2, <2>1
    <2>3. PICK to \in {"read", "give"} : place' = [place EXCEPT ![p] = to]
        BY <2>1, <2>2
    <2>4. JobMoved(p, to)
        BY <1>2, <2>1, <2>3 DEF JobMoved, Troubles
    <2> QED BY <1>1, <2>4
<1>5. ASSUME NEW q \in Procs, BlockJob(p, q) PROVE \E to : JobMoved(p, to)
    <2>1. /\ place[p] = "body" /\ place' = [place EXCEPT ![p] = "exit"] /\ BlockOrUnblock(q)
        BY <1>5 DEF BlockJob, Does, Runs
    <2>2. \/ /\ q \in blocked /\ blocked' = blocked \ {q}
             /\ trouble' = trouble \cup Flag("woken", place[q] \in Sleeps)
          \/ /\ Exists(q) /\ blocked' = blocked \cup {q} /\ trouble' = trouble \cup Flag("stopped", TRUE)
          \/ blocked' = blocked /\ trouble' = trouble \cup Flag("stopped", FALSE)
        BY <2>1 DEF BlockOrUnblock, Flag
    <2>3. trouble \subseteq trouble' /\ trouble' \subseteq Troubles
        BY <1>2, <2>2 DEF Flag, Troubles
    <2>4. \A x \in blocked : x \notin blocked' /\ place[x] \in Sleeps => "woken" \in trouble'
        BY <2>2 DEF Flag
    <2>5. \A x \in blocked' : x \in blocked \/ (x \in Procs /\ place[x] # "none" /\ "stopped" \in trouble')
        BY <1>5, <2>2 DEF Flag, Exists
    <2>6. JobMoved(p, "exit")
        BY <2>1, <2>3, <2>4, <2>5 DEF JobMoved
    <2> QED BY <2>6
<1> QED BY <1>1, <1>3, <1>4, <1>5

LEMMA JobMovedTyped ==
    ASSUME Typed, UNCHANGED <<job, background, forePid, command, newPids, nextPid, startSem, readSem>>,
           NEW p, NEW to, JobMoved(p, to)
    PROVE  Typed'
<1>1. /\ p \in Jobs /\ to \in JobPlaces \ {"none"} /\ place[p] # "none"
      /\ place' = [place EXCEPT ![p] = to] /\ trouble' \subseteq Troubles
      /\ \A x \in blocked' : x \in blocked \/ (x \in Procs /\ place[x] # "none")
    BY DEF JobMoved, JobPlaces
<1> QED BY <1>1, JobTyped

(* What takes a unit of SEM_READ, and what gives it back.                  *)
ReadTaken(p, asleep) ==
    /\ p \in Procs /\ semWait(p, readSem, readSem', asleep)
    /\ UNCHANGED <<job, background, forePid, command, newPids, nextPid, startSem, trouble>>
    /\ \/ p = shellPid /\ place[p] = "wait" /\ asleep = "waiting"
       \/ p \in Jobs /\ place[p] = "body" /\ asleep = "asking"

ReadGiven(p, next) ==
    /\ p \in Procs /\ semPost(p, readSem, readSem', ReadSleeps, next)
    /\ UNCHANGED <<job, background, forePid, nextPid, startSem, trouble>>
    /\ \/ p = shellPid /\ place[p] = "release" /\ next = "wait"
       \/ p = shellPid /\ place[p] = "prompt" /\ next = "create"
       \/ p \in Jobs /\ place[p] = "give" /\ next = "exit"

(* The ways a step of the system can go.                                   *)
LEMMA StepCases ==
    ASSUME Typed, ShellNext
    PROVE  \/ \E p, asleep : ReadTaken(p, asleep)
           \/ \E p, next : ReadGiven(p, next) /\ next # "create" /\ UNCHANGED <<command, newPids>>
           \/ \E c \in Commands : CommandLine(c) /\ ReadGiven(shellPid, "create")
           \/ \E p \in Jobs : WaitStart(p)
           \/ PostStart
           \/ LookAtMode \/ IdleLine \/ LostLine
           \/ CreateFails \/ createprocess \/ MapStdFds \/ setShellBackground \/ Promote
           \/ \E p \in Procs : (p # shellPid /\ WakeUpStart(p)) \/ WakeUpRead(p)
           \/ /\ UNCHANGED <<job, forePid, command, newPids, nextPid, startSem, readSem>>
              /\ \E w, to, q : Killed(w, to, q)
           \/ /\ UNCHANGED <<job, background, forePid, command, newPids, nextPid, startSem, readSem>>
              /\ \E p, to : JobMoved(p, to)
<1>1. CASE ShellStep
    <2>1. CASE WaitRead
        <3>1. ReadTaken(shellPid, "waiting")
            BY <2>1, PidFacts DEF WaitRead, Runs, ReadTaken
        <3> QED BY <3>1
    <2>2. CASE ReleaseRead
        <3>1. ReadGiven(shellPid, "wait") /\ "wait" # "create" /\ UNCHANGED <<command, newPids>>
            BY <2>2, PidFacts DEF ReleaseRead, Runs, ReadGiven
        <3> QED BY <3>1
    <2> QED BY <1>1, <2>1, <2>2, PidFacts DEF ShellStep, RunCommand
<1>2. CASE UserStep
    <2>1. CASE Interrupt
        BY <2>1, KillSteps
    <2>2. ASSUME NEW c \in Commands, CommandLine(c) PROVE ReadGiven(shellPid, "create")
        BY <2>2, PidFacts DEF CommandLine, Runs, ReadGiven
    <2> QED BY <1>2, <2>1, <2>2 DEF UserStep
<1>3. ASSUME NEW p \in Jobs, AskRead(p) PROVE ReadTaken(p, "asking")
    BY <1>3, PidFacts DEF AskRead, Does, Runs, ReadTaken
<1>4. ASSUME NEW p \in Jobs, GiveRead(p) PROVE ReadGiven(p, "exit") /\ "exit" # "create" /\ UNCHANGED <<command, newPids>>
    BY <1>4, PidFacts DEF GiveRead, Runs, ReadGiven
<1>5. ASSUME NEW p \in Jobs, WakeUpStart(p) \/ WakeUpRead(p)
      PROVE  \E x \in Procs : (x # shellPid /\ WakeUpStart(x)) \/ WakeUpRead(x)
    BY <1>5, PidFacts
<1>6. ASSUME NEW p \in Jobs, Exit(p) \/ \E q \in Procs : KillJob(p, q)
      PROVE  /\ UNCHANGED <<job, forePid, command, newPids, nextPid, startSem, readSem>>
             /\ \E w, to, q : Killed(w, to, q)
    BY <1>6, KillSteps
<1>7. ASSUME NEW p \in Jobs, EndOfInput(p) \/ ReadBlocks(p) \/ \E q \in Procs : BlockJob(p, q)
      PROVE  /\ UNCHANGED <<job, background, forePid, command, newPids, nextPid, startSem, readSem>>
             /\ \E to : JobMoved(p, to)
    BY <1>7, JobMoves
<1>8. ASSUME NEW p \in Jobs, JobStep(p) \/ Exit(p) \/ \E q \in Procs : KillJob(p, q) \/ BlockJob(p, q)
      PROVE  \/ WaitStart(p) \/ AskRead(p) \/ GiveRead(p)
             \/ WakeUpStart(p) \/ WakeUpRead(p)
             \/ Exit(p) \/ \E q \in Procs : KillJob(p, q)
             \/ EndOfInput(p) \/ ReadBlocks(p) \/ \E q \in Procs : BlockJob(p, q)
    BY <1>8 DEF JobStep
<1>9. CASE \E p \in Jobs : JobStep(p) \/ Exit(p) \/ \E q \in Procs : KillJob(p, q) \/ BlockJob(p, q)
    <2>1. PICK p \in Jobs : \/ WaitStart(p) \/ AskRead(p) \/ GiveRead(p)
                            \/ WakeUpStart(p) \/ WakeUpRead(p)
                            \/ Exit(p) \/ \E q \in Procs : KillJob(p, q)
                            \/ EndOfInput(p) \/ ReadBlocks(p) \/ \E q \in Procs : BlockJob(p, q)
        BY <1>8, <1>9
    <2>2. CASE WaitStart(p)
        BY <2>2
    <2>3. CASE AskRead(p)
        BY <1>3, <2>3
    <2>4. CASE GiveRead(p)
        BY <1>4, <2>4
    <2>5. CASE WakeUpStart(p) \/ WakeUpRead(p)
        BY <1>5, <2>5
    <2>6. CASE Exit(p) \/ \E q \in Procs : KillJob(p, q)
        BY <1>6, <2>6
    <2>7. CASE EndOfInput(p) \/ ReadBlocks(p) \/ \E q \in Procs : BlockJob(p, q)
        BY <1>7, <2>7
    <2> QED BY <2>1, <2>2, <2>3, <2>4, <2>5, <2>6, <2>7
<1> QED BY <1>1, <1>2, <1>9 DEF ShellNext

LEMMA TypedStep ==
    ASSUME Typed, [ShellNext]_shellVars
    PROVE  Typed'
<1>1. CASE UNCHANGED shellVars
    BY <1>1 DEF shellVars, Typed, Placed, Fresh, Working
<1>2. ASSUME NEW p, NEW asleep, ReadTaken(p, asleep) PROVE Typed'
    <2>1. p \in Procs /\ place[p] # "none" /\ asleep \in Sleeps
        BY <1>2 DEF ReadTaken, Sleeps, ReadSleeps
    <2> QED BY <1>2, <2>1, PidFacts, WaitTyped DEF ReadTaken
<1>3. ASSUME NEW p, NEW next, ReadGiven(p, next), next # "create", UNCHANGED <<command, newPids>>
      PROVE  Typed'
    <2>1. p \in Procs /\ place[p] \notin ReadSleeps \cup {"none"}
        BY <1>3 DEF ReadGiven, ReadSleeps
    <2> QED BY <1>3, <2>1, PidFacts, GiveTyped DEF ReadGiven
<1>4. ASSUME NEW p \in Jobs, WaitStart(p) PROVE Typed'
    <2>1. /\ p \in Procs /\ place[p] # "none" /\ "starting" \in Sleeps
          /\ semWait(p, startSem, startSem', "starting")
          /\ UNCHANGED <<job, background, forePid, command, newPids, nextPid, readSem, trouble>>
        BY <1>4, PidFacts DEF WaitStart, Runs, Sleeps
    <2> QED BY <2>1, PidFacts, WaitTyped
<1> QED
    BY <1>1, <1>2, <1>3, <1>4, StepCases, CommandTyped, PostStartTyped, IdleTyped, CreateFailsTyped,
       CreateTyped, MapTyped, RetreatTyped, PromoteTyped, WakeUpTyped, KillTyped, JobMovedTyped

---------------------------------------------------------------------------
(* SEM_READ.  A step that leaves both semaphores alone, moves nobody out   *)
(* of a queue and gives nobody the unit.                                   *)
LEMMA ReadQuiet ==
    ASSUME Typed, Asleep, OneUnit, UNCHANGED <<startSem, readSem>>,
           \A x \in Procs :
              \/ place'[x] = place[x] /\ (place[x] \in Sleeps => x \in blocked')
              \/ place'[x] = "none"
              \/ /\ place[x] \notin Sleeps \cup {"none"} \/ x >= nextPid
                 /\ place'[x] \notin Sleeps
                 /\ x \in Holders' => x \in Holders
    PROVE  Asleep' /\ OneUnit'
<1>1. \A x \in Procs : place'[x] \in Sleeps => place'[x] = place[x] /\ x \in blocked'
    BY DEF Sleeps, ReadSleeps
<1>2. \A x \in ToSet(readSem.queue) \cup ToSet(startSem.queue) :
        /\ x \in Procs /\ ~(x >= nextPid) /\ place[x] \in Sleeps \cup {"none"}
        /\ place'[x] = place[x] \/ place'[x] = "none"
    <2>1. readSem.queue \in Seq(Procs) /\ startSem.queue \in Seq(Procs)
        BY RunsFacts DEF Sem
    <2>2. \A x \in ToSet(readSem.queue) \cup ToSet(startSem.queue) :
            x \in Procs /\ x < nextPid /\ x \in Int /\ nextPid \in Int
        <3>1. \A x \in ToSet(readSem.queue) \cup ToSet(startSem.queue) : x \in Procs
            BY <2>1, ElementFacts
        <3>2. nextPid \in Int /\ \A x \in ToSet(readSem.queue) \cup ToSet(startSem.queue) : x < nextPid
            BY DEF Typed, Fresh
        <3> QED BY <3>1, <3>2, PidFacts
    <2>3. \A x \in ToSet(readSem.queue) \cup ToSet(startSem.queue) : place[x] \in Sleeps \cup {"none"}
        BY DEF Asleep, QueueOf, Sleeps, ReadSleeps
    <2>4. \A x \in ToSet(readSem.queue) \cup ToSet(startSem.queue) : ~(x >= nextPid)
        BY <2>2
    <2> QED BY <2>2, <2>3, <2>4
<1>3. QueueOf(readSem, ReadSleeps)' /\ QueueOf(startSem, {"starting"})'
    BY <1>2 DEF Asleep, QueueOf
<1>4. Asleep'
    BY <1>1, <1>3 DEF Asleep
<1>5. Holders' \subseteq Holders
    BY DEF Holders
<1>6. OneUnit'
    BY <1>5 DEF OneUnit
<1> QED BY <1>4, <1>6

(* A process that is neither asleep nor dead is in no queue.               *)
LEMMA NotQueued ==
    ASSUME Asleep, NEW p, place[p] \notin Sleeps \cup {"none"}
    PROVE  p \notin ToSet(readSem.queue) /\ p \notin ToSet(startSem.queue)
BY DEF Asleep, QueueOf, Sleeps, ReadSleeps

(* The queue s2 that p joined, and the queue s2 that has lost its head f.  *)
LEMMA Joined ==
    ASSUME NEW s \in Sem, NEW s2, NEW sleeps, NEW p \in Procs, p \notin ToSet(s.queue),
           QueueOf(s, sleeps), s2.queue = Append(s.queue, p), place'[p] \in sleeps,
           \A x \in Procs : x # p => place'[x] = place[x]
    PROVE  /\ IsInjective(s2.queue)
           /\ \A x \in ToSet(s2.queue) : place'[x] \in sleeps \cup {"none"}
<1>1. s.queue \in Seq(Procs)
    BY DEF Sem
<1>2. /\ IsInjective(s2.queue)
      /\ \A x : x \in ToSet(s2.queue) <=> x \in ToSet(s.queue) \/ x = p
    BY <1>1, AppendFacts DEF QueueOf
<1>3. \A x \in ToSet(s.queue) : x \in Procs /\ x # p
    BY <1>1, ElementFacts
<1> QED BY <1>2, <1>3 DEF QueueOf

LEMMA Popped ==
    ASSUME NEW s \in Sem, NEW s2, NEW sleeps, NEW p \in Procs, NEW f,
           p \notin ToSet(s.queue), QueueOf(s, sleeps),
           \/ s.queue = <<>> /\ s2.queue = <<>>
           \/ s.queue # <<>> /\ f = Head(s.queue) /\ s2.queue = Tail(s.queue),
           \A x \in Procs : x # p /\ x # f => place'[x] = place[x]
    PROVE  /\ IsInjective(s2.queue)
           /\ \A x \in ToSet(s2.queue) : place'[x] \in sleeps \cup {"none"}
<1>1. s.queue \in Seq(Procs)
    BY DEF Sem
<1>2. \A x \in ToSet(s.queue) : x \in Procs /\ x # p
    BY <1>1, ElementFacts
<1>3. CASE s.queue = <<>> /\ s2.queue = <<>>
    BY <1>3 DEF IsInjective, ToSet
<1>4. CASE s.queue # <<>> /\ f = Head(s.queue) /\ s2.queue = Tail(s.queue)
    <2>1. /\ IsInjective(s2.queue) /\ f \notin ToSet(s2.queue)
          /\ \A x \in ToSet(s2.queue) : x \in ToSet(s.queue)
        BY <1>1, <1>4, TailFacts DEF QueueOf
    <2> QED BY <1>2, <2>1 DEF QueueOf
<1> QED BY <1>3, <1>4

(* The queue of the other semaphore, whose members the step leaves alone.  *)
LEMMA OtherQueue ==
    ASSUME NEW s \in Sem, NEW sleeps, QueueOf(s, sleeps),
           \A x \in Procs : place[x] \in sleeps \cup {"none"} => place'[x] = place[x]
    PROVE  /\ IsInjective(s.queue)
           /\ \A x \in ToSet(s.queue) : place'[x] \in sleeps \cup {"none"}
<1>1. s.queue \in Seq(Procs)
    BY DEF Sem
<1> QED BY <1>1, ElementFacts DEF QueueOf

(* Taking the unit of SEM_READ, or queueing for it.                        *)
LEMMA ReadTakenInv ==
    ASSUME Typed, Asleep, OneUnit, NEW p, NEW asleep, ReadTaken(p, asleep)
    PROVE  Asleep' /\ OneUnit'
<1>1. /\ p \in Procs /\ asleep \in ReadSleeps /\ asleep \in Sleeps /\ startSem' = startSem
      /\ place[p] \in {"wait", "body"} /\ place[p] \notin Sleeps \cup {"none"}
      /\ semWait(p, readSem, readSem', asleep)
    BY DEF ReadTaken, ReadSleeps, Sleeps
<1>2. /\ readSem' \in Sem
      /\ \A x \in Procs : x # p => place'[x] = place[x]
      /\ \/ /\ readSem.value > 0 /\ readSem'.value = readSem.value - 1 /\ readSem'.queue = readSem.queue
            /\ place'[p] = Woken(asleep) /\ blocked' = blocked
         \/ /\ readSem.value = 0 /\ readSem'.value = 0 /\ readSem'.queue = Append(readSem.queue, p)
            /\ place'[p] = asleep /\ blocked' = blocked \cup {p}
    BY <1>1, RunsFacts, SemWaitFacts
<1>3. p \notin ToSet(readSem.queue) /\ p \notin ToSet(startSem.queue)
    BY <1>1, NotQueued
<1>4. QueueOf(startSem, {"starting"})'
    <2>1. \A x \in Procs : place[x] \in {"starting"} \cup {"none"} => place'[x] = place[x]
        BY <1>1, <1>2
    <2> QED BY <1>1, <2>1, RunsFacts, OtherQueue DEF Asleep, QueueOf
<1>5. readSem.value \in Nat /\ readSem.value <= 1
    BY RunsFacts DEF OneUnit, Sem
<1>6. CASE /\ readSem.value > 0 /\ readSem'.value = readSem.value - 1 /\ readSem'.queue = readSem.queue
           /\ place'[p] = Woken(asleep) /\ blocked' = blocked
    <2>1. readSem.value = 1 /\ readSem'.value = 0 /\ Holders = {}
        BY <1>5, <1>6 DEF OneUnit
    <2>2. place'[p] \in {"read", "mode"}
        BY <1>1, <1>6 DEF Woken, ReadSleeps
    <2>3. \A x \in Holders' : x = p
        BY <1>2, <2>1 DEF Holders
    <2>4. \A x \in Procs : place'[x] \in Sleeps => x \in blocked'
        BY <1>2, <1>6, <2>2 DEF Asleep, Sleeps, ReadSleeps
    <2>5. QueueOf(readSem, ReadSleeps)'
        <3>1. \A x \in Procs : place[x] \in ReadSleeps \cup {"none"} => place'[x] = place[x]
            BY <1>1, <1>2 DEF Sleeps
        <3> QED BY <1>6, <3>1, RunsFacts, OtherQueue DEF Asleep, QueueOf
    <2> QED BY <1>4, <2>1, <2>3, <2>4, <2>5 DEF Asleep, OneUnit
<1>7. CASE /\ readSem.value = 0 /\ readSem'.value = 0 /\ readSem'.queue = Append(readSem.queue, p)
           /\ place'[p] = asleep /\ blocked' = blocked \cup {p}
    <2>1. Holders' \subseteq Holders
        BY <1>1, <1>2, <1>7 DEF Holders, ReadSleeps
    <2>2. \A x \in Procs : place'[x] \in Sleeps => x \in blocked'
        BY <1>2, <1>7 DEF Asleep
    <2>3. QueueOf(readSem, ReadSleeps)'
        <3>1. /\ IsInjective(readSem'.queue)
              /\ \A x \in ToSet(readSem'.queue) : place'[x] \in ReadSleeps \cup {"none"}
            <4>1. QueueOf(readSem, ReadSleeps) /\ place'[p] \in ReadSleeps /\ readSem \in Sem
                BY <1>1, <1>7, RunsFacts DEF Asleep
            <4> QED BY <1>1, <1>2, <1>3, <1>7, <4>1, Joined
        <3> QED BY <3>1 DEF QueueOf
    <2> QED BY <1>4, <1>7, <2>1, <2>2, <2>3 DEF Asleep, OneUnit
<1> QED BY <1>2, <1>6, <1>7

(* Giving it back: the first of the queue has it then, or the semaphore.   *)
LEMMA ReadGivenInv ==
    ASSUME Typed, Asleep, OneUnit, NEW p, NEW next, ReadGiven(p, next)
    PROVE  /\ Asleep' /\ OneUnit'
           /\ PostedPlaces(p, readSem, readSem', ReadSleeps, next)
<1>1. /\ p \in Procs /\ startSem' = startSem /\ ReadSleeps \in SUBSET Sleeps
      /\ place[p] \in {"release", "prompt", "give"} /\ place[p] \notin Sleeps \cup {"none"}
      /\ next \in {"wait", "create", "exit"} /\ next \notin Sleeps
      /\ semPost(p, readSem, readSem', ReadSleeps, next)
      /\ p = shellPid => next \in ShellPlaces
      /\ p \in Jobs => next \in JobPlaces \ {"none"}
    BY PidFacts DEF ReadGiven, ReadSleeps, Sleeps, ShellPlaces, JobPlaces
<1>2. /\ PostedPlaces(p, readSem, readSem', ReadSleeps, next)
      /\ Posted(p, readSem, readSem', ReadSleeps, next)
    <2>1. place[p] \notin ReadSleeps \cup {"none"}
        BY <1>1
    <2> QED BY <1>1, <2>1, RunsFacts, PostShape
<1>3. p \notin ToSet(readSem.queue) /\ p \notin ToSet(startSem.queue)
    BY <1>1, NotQueued
<1>4. p \in Holders /\ readSem.value = 0 /\ \A x \in Holders : x = p
    <2>1. p \in Holders
        BY <1>1 DEF Holders
    <2>2. readSem.value \in Nat /\ readSem.value <= 1 /\ readSem.value # 1
        BY <2>1, RunsFacts DEF OneUnit, Sem
    <2> QED BY <2>1, <2>2 DEF OneUnit
<1>5. 1 % Word = 1
    BY PidFacts
<1>6. place'[p] = next /\ readSem' \in Sem
    BY <1>2 DEF Posted
<1>7. QueueOf(startSem, {"starting"})'
    <2>1. \A x \in Procs : place[x] \in {"starting"} \cup {"none"} => place'[x] = place[x]
        <3>1. \A x \in Procs : x # p => place'[x] = place[x] \/ place[x] \in ReadSleeps
            BY <1>2 DEF PostedPlaces
        <3> QED BY <1>1, <3>1 DEF ReadSleeps
    <2> QED BY <1>1, <2>1, RunsFacts, OtherQueue DEF Asleep, QueueOf
<1>8. QueueOf(readSem, ReadSleeps)'
    <2>1. PICK f :
            /\ \/ readSem.queue = <<>> /\ readSem'.queue = <<>>
               \/ readSem.queue # <<>> /\ f = Head(readSem.queue) /\ readSem'.queue = Tail(readSem.queue)
            /\ \A x \in Procs : x # p /\ x # f => place'[x] = place[x]
        BY <1>2 DEF Posted
    <2>2. /\ IsInjective(readSem'.queue)
          /\ \A x \in ToSet(readSem'.queue) : place'[x] \in ReadSleeps \cup {"none"}
        <3>1. QueueOf(readSem, ReadSleeps) /\ readSem \in Sem
            BY RunsFacts DEF Asleep
        <3>2. \/ readSem.queue = <<>> /\ readSem'.queue = <<>>
              \/ readSem.queue # <<>> /\ f = Head(readSem.queue) /\ readSem'.queue = Tail(readSem.queue)
            BY <2>1
        <3>3. \A x \in Procs : x # p /\ x # f => place'[x] = place[x]
            BY <2>1
        <3>4. p \in Procs /\ p \notin ToSet(readSem.queue)
            BY <1>1, <1>3
        <3> QED BY <3>1, <3>2, <3>3, <3>4, Popped
    <2> QED BY <2>2 DEF QueueOf
<1>9. ASSUME /\ readSem'.value = (readSem.value + 1) % Word
             /\ \A x \in Procs : x # p => place'[x] = place[x]
             /\ \A x \in Procs : place[x] \in Sleeps /\ x \in blocked => x \in blocked'
      PROVE  Asleep' /\ OneUnit'
    <2>1. readSem'.value = 1
        BY <1>4, <1>5, <1>9
    <2>2. Holders' = {}
        BY <1>1, <1>4, <1>6, <1>9 DEF Holders
    <2>3. \A x \in Procs : place'[x] \in Sleeps => x \in blocked'
        BY <1>1, <1>6, <1>9 DEF Asleep
    <2> QED BY <1>7, <1>8, <2>1, <2>2, <2>3 DEF Asleep, OneUnit
<1>10. CASE /\ readSem.queue = <<>> /\ readSem'.queue = <<>> /\ readSem'.value = (readSem.value + 1) % Word
            /\ \A x \in Procs : x # p => place'[x] = place[x]
            /\ blocked' = blocked
    BY <1>2, <1>9, <1>10
<1>11. ASSUME NEW f \in Procs,
              /\ readSem.queue # <<>> /\ f = Head(readSem.queue) /\ readSem'.queue = Tail(readSem.queue)
              /\ f \in blocked /\ place[f] \in ReadSleeps /\ f # p
              /\ readSem'.value = readSem.value /\ place'[f] = Woken(place[f])
              /\ \A x \in Procs : x # p /\ x # f => place'[x] = place[x]
              /\ blocked' = blocked \ {f}
       PROVE  Asleep' /\ OneUnit'
    <2>1. place'[f] \in {"read", "mode"} /\ place'[f] \notin Sleeps
        BY <1>11 DEF ReadSleeps, Woken, Sleeps
    <2>2. \A x \in Holders' : x = f
        BY <1>1, <1>4, <1>6, <1>11 DEF Holders
    <2>3. \A x \in Procs : place'[x] \in Sleeps => x \in blocked'
        BY <1>1, <1>6, <1>11, <2>1 DEF Asleep
    <2>4. readSem'.value = 0
        BY <1>4, <1>11
    <2> QED BY <1>7, <1>8, <2>2, <2>3, <2>4 DEF Asleep, OneUnit
<1>12. ASSUME NEW f \in Procs,
              /\ readSem.queue # <<>> /\ f = Head(readSem.queue) /\ readSem'.queue = Tail(readSem.queue)
              /\ ~(f \in blocked /\ place[f] \in ReadSleeps)
              /\ readSem'.value = (readSem.value + 1) % Word
              /\ \A x \in Procs : x # p => place'[x] = place[x]
              /\ blocked' = blocked \ {f}
       PROVE  Asleep' /\ OneUnit'
    <2>1. f \in ToSet(readSem.queue)
        <3>1. readSem.queue \in Seq(Procs)
            BY RunsFacts DEF Sem
        <3> QED BY <1>12, <3>1, TailFacts
    <2>2. place[f] = "none"
        BY <1>12, <2>1 DEF Asleep, QueueOf, Sleeps
    <2>3. \A x \in Procs : place[x] \in Sleeps /\ x \in blocked => x \in blocked'
        BY <1>12, <2>2 DEF Sleeps, ReadSleeps
    <2> QED BY <1>9, <1>12, <2>3
<1> QED BY <1>2, <1>10, <1>11, <1>12 DEF Posted

(* START_PROC_SEM leaves the unit of SEM_READ where it is.                 *)
LEMMA WaitStartFacts ==
    ASSUME Typed, NEW p \in Jobs, WaitStart(p)
    PROVE  /\ p \in Procs /\ place[p] = "start" /\ p \notin blocked
           /\ UNCHANGED <<job, background, forePid, command, newPids, nextPid, readSem, trouble>>
           /\ startSem' \in Sem
           /\ \A x \in Procs : x # p => place'[x] = place[x]
           /\ \/ /\ startSem.value > 0 /\ startSem'.value = startSem.value - 1
                 /\ startSem'.queue = startSem.queue
                 /\ place'[p] = "body" /\ blocked' = blocked
              \/ /\ startSem.value = 0 /\ startSem'.value = 0
                 /\ startSem'.queue = Append(startSem.queue, p)
                 /\ place'[p] = "starting" /\ blocked' = blocked \cup {p}
<1>1. /\ p \in Procs /\ place[p] = "start" /\ p \notin blocked /\ "starting" \in Sleeps
      /\ UNCHANGED <<job, background, forePid, command, newPids, nextPid, readSem, trouble>>
      /\ semWait(p, startSem, startSem', "starting")
    BY PidFacts DEF WaitStart, Runs, Sleeps
<1>2. Woken("starting") = "body"
    BY DEF Woken
<1> QED BY <1>1, <1>2, RunsFacts, SemWaitFacts

LEMMA WaitStartInv ==
    ASSUME Typed, Asleep, OneUnit, NEW p \in Jobs, WaitStart(p)
    PROVE  Asleep' /\ OneUnit'
<1>1. /\ p \in Procs /\ place[p] = "start" /\ readSem' = readSem /\ startSem' \in Sem
      /\ \A x \in Procs : x # p => place'[x] = place[x]
      /\ \/ /\ startSem'.queue = startSem.queue /\ place'[p] = "body" /\ blocked' = blocked
         \/ /\ startSem'.queue = Append(startSem.queue, p)
            /\ place'[p] = "starting" /\ blocked' = blocked \cup {p}
    BY WaitStartFacts
<1>2. p \notin ToSet(startSem.queue) /\ place[p] \notin Sleeps \cup {"none"}
    <2>1. place[p] \notin Sleeps \cup {"none"}
        BY <1>1 DEF Sleeps, ReadSleeps
    <2> QED BY <2>1, NotQueued
<1>3. QueueOf(readSem, ReadSleeps)'
    <2>1. \A x \in Procs : place[x] \in ReadSleeps \cup {"none"} => place'[x] = place[x]
        BY <1>1, <1>2 DEF Sleeps
    <2> QED BY <1>1, <2>1, RunsFacts, OtherQueue DEF Asleep, QueueOf
<1>4. QueueOf(startSem, {"starting"})'
    <2>1. QueueOf(startSem, {"starting"}) /\ startSem \in Sem
        BY RunsFacts DEF Asleep
    <2>2. CASE startSem'.queue = startSem.queue
        <3>1. \A x \in Procs : place[x] \in {"starting"} \cup {"none"} => place'[x] = place[x]
            BY <1>1
        <3> QED BY <2>1, <2>2, <3>1, OtherQueue DEF QueueOf
    <2>3. CASE startSem'.queue = Append(startSem.queue, p) /\ place'[p] = "starting"
        <3>1. place'[p] \in {"starting"}
            BY <2>3
        <3>2. /\ IsInjective(startSem'.queue)
              /\ \A x \in ToSet(startSem'.queue) : place'[x] \in {"starting"} \cup {"none"}
            BY <1>1, <1>2, <2>1, <2>3, <3>1, Joined, ZenonT(60)
        <3> QED BY <3>2 DEF QueueOf
    <2> QED BY <1>1, <2>2, <2>3
<1>5. \A x \in Procs : place'[x] \in Sleeps => x \in blocked'
    BY <1>1 DEF Asleep, Sleeps, ReadSleeps
<1>6. Holders' \subseteq Holders
    BY <1>1 DEF Holders
<1> QED BY <1>1, <1>3, <1>4, <1>5, <1>6 DEF Asleep, OneUnit

LEMMA PostStartInv ==
    ASSUME Typed, Asleep, OneUnit, PostStart
    PROVE  Asleep' /\ OneUnit'
<1>1. PICK next : /\ next \in {"wait", "post"} /\ place[shellPid] = "post" /\ readSem' = readSem
                  /\ PostedPlaces(shellPid, startSem, startSem', {"starting"}, next)
                  /\ Posted(shellPid, startSem, startSem', {"starting"}, next)
    BY PostStartFacts
<1>2. place'[shellPid] = next /\ next \notin Sleeps /\ shellPid \in Procs
      /\ place[shellPid] \notin Sleeps \cup {"none"}
    BY <1>1, PidFacts DEF Posted, Sleeps, ReadSleeps
<1>3. shellPid \notin ToSet(startSem.queue)
    BY <1>2, NotQueued
<1>4. \A x \in Procs : x # shellPid => place'[x] = place[x]
                                       \/ (place[x] = "starting" /\ place'[x] = "body")
    BY <1>1 DEF PostedPlaces, Woken
<1>5. QueueOf(readSem, ReadSleeps)'
    <2>1. \A x \in Procs : place[x] \in ReadSleeps \cup {"none"} => place'[x] = place[x]
        BY <1>1, <1>4 DEF ReadSleeps
    <2> QED BY <1>1, <2>1, RunsFacts, OtherQueue DEF Asleep, QueueOf
<1>6. QueueOf(startSem, {"starting"}) /\ startSem \in Sem /\ startSem.queue \in Seq(Procs)
    BY RunsFacts DEF Asleep, Sem
<1>7. QueueOf(startSem, {"starting"})'
    <2>1. PICK f :
            /\ \/ startSem.queue = <<>> /\ startSem'.queue = <<>>
               \/ startSem.queue # <<>> /\ f = Head(startSem.queue) /\ startSem'.queue = Tail(startSem.queue)
            /\ \A x \in Procs : x # shellPid /\ x # f => place'[x] = place[x]
        BY <1>1 DEF Posted
    <2>2. \/ startSem.queue = <<>> /\ startSem'.queue = <<>>
          \/ startSem.queue # <<>> /\ f = Head(startSem.queue) /\ startSem'.queue = Tail(startSem.queue)
        BY <2>1
    <2>3. \A x \in Procs : x # shellPid /\ x # f => place'[x] = place[x]
        BY <2>1
    <2>4. /\ IsInjective(startSem'.queue)
          /\ \A x \in ToSet(startSem'.queue) : place'[x] \in {"starting"} \cup {"none"}
        <3> DEFINE sleeps == {"starting"}
        <3>1. QueueOf(startSem, sleeps) /\ startSem \in Sem /\ shellPid \in Procs
            BY <1>2, <1>6
        <3> HIDE DEF sleeps
        <3>2. /\ IsInjective(startSem'.queue)
              /\ \A x \in ToSet(startSem'.queue) : place'[x] \in sleeps \cup {"none"}
            BY <1>3, <2>2, <2>3, <3>1, Popped
        <3> QED BY <3>2 DEF sleeps
    <2> QED BY <2>4 DEF QueueOf
<1>8. \A x \in Procs : place'[x] \in Sleeps => x \in blocked'
    <2>1. ASSUME NEW f \in Procs, startSem.queue # <<>>, f = Head(startSem.queue)
          PROVE  place[f] \in {"starting", "none"}
        <3>1. f \in ToSet(startSem.queue)
            BY <1>6, <2>1, TailFacts
        <3> QED BY <1>6, <3>1 DEF QueueOf
    <2>2. \A x \in Procs : place'[x] \in Sleeps =>
                x # shellPid /\ place'[x] = place[x] /\ place[x] \in Sleeps /\ x \in blocked
        BY <1>2, <1>4 DEF Asleep, Sleeps, ReadSleeps
    <2>3. CASE blocked' = blocked
        BY <2>2, <2>3
    <2>4. ASSUME NEW f \in Procs, startSem.queue # <<>>, f = Head(startSem.queue),
                 f \in blocked, place'[f] = Woken(place[f]), place[f] \in {"starting"},
                 blocked' = blocked \ {f}
          PROVE  \A x \in Procs : place'[x] \in Sleeps => x \in blocked'
        <3>1. place'[f] = "body"
            BY <2>4 DEF Woken
        <3> QED BY <2>2, <2>4, <3>1 DEF Sleeps, ReadSleeps
    <2>5. ASSUME NEW f \in Procs, startSem.queue # <<>>, f = Head(startSem.queue),
                 ~(f \in blocked /\ place[f] \in {"starting"}), blocked' = blocked \ {f}
          PROVE  \A x \in Procs : place'[x] \in Sleeps => x \in blocked'
        <3>1. f \notin blocked
            BY <2>1, <2>5, RunsFacts
        <3> QED BY <2>2, <2>5, <3>1
    <2> QED BY <1>1, <2>3, <2>4, <2>5 DEF Posted
<1>9. Holders' \subseteq Holders
    BY <1>1, <1>2, <1>4 DEF Holders
<1> QED BY <1>1, <1>5, <1>7, <1>8, <1>9 DEF Asleep, OneUnit

(* The rest of the steps.                                                  *)
LEMMA WokenGrows ==
    ASSUME Typed, [ShellNext]_shellVars
    PROVE  trouble \subseteq trouble'
<1>1. CASE UNCHANGED shellVars
    BY <1>1 DEF shellVars
<1>2. CASE ShellNext
    BY <1>2, StepCases, PostStartFacts, WaitStartFacts, PromoteFacts
       DEF ReadTaken, ReadGiven, LookAtMode, IdleLine, LostLine, CreateFails, createprocess,
           MapStdFds, setShellBackground, Promote, WakeUpStart, WakeUpRead, Killed, Ended, JobMoved
<1> QED BY <1>1, <1>2

LEMMA ReadStep ==
    ASSUME Typed, ReadInv, [ShellNext]_shellVars
    PROVE  ReadInv'
<1> SUFFICES ASSUME "woken" \notin trouble'
             PROVE  Asleep' /\ OneUnit'
    BY DEF ReadInv
<1>1. "woken" \notin trouble /\ Asleep /\ OneUnit
    BY WokenGrows DEF ReadInv
<1>2. CASE UNCHANGED shellVars
    BY <1>1, <1>2 DEF shellVars, Asleep, QueueOf, OneUnit, Holders
<1>3. ASSUME LookAtMode \/ IdleLine \/ LostLine PROVE Asleep' /\ OneUnit'
    <2>1. PICK w \in {"prompt", "watch", "release"} : place' = [place EXCEPT ![shellPid] = w]
        BY <1>3 DEF LookAtMode, IdleLine, LostLine
    <2>2. /\ UNCHANGED <<blocked, startSem, readSem>> /\ place[shellPid] \in {"mode", "prompt", "watch"}
        BY <1>3 DEF LookAtMode, IdleLine, LostLine, Runs
    <2>3. /\ place'[shellPid] = w /\ \A x \in Procs : x # shellPid => place'[x] = place[x]
        BY <2>1, PidFacts, RunsFacts
    <2>4. \A x \in Procs :
              \/ place'[x] = place[x] /\ (place[x] \in Sleeps => x \in blocked')
              \/ /\ place[x] \notin Sleeps \cup {"none"} \/ x >= nextPid
                 /\ place'[x] \notin Sleeps
                 /\ x \in Holders' => x \in Holders
        BY <1>1, <2>2, <2>3 DEF Asleep, Holders, Sleeps, ReadSleeps
    <2> QED BY <1>1, <2>2, <2>4, ReadQuiet
<1>4. ASSUME CreateFails \/ MapStdFds \/ setShellBackground \/ Promote PROVE Asleep' /\ OneUnit'
    <2>1. PICK w \in Setup : place' = [place EXCEPT ![shellPid] = w]
        BY <1>4, AfterCreateFacts DEF CreateFails, MapStdFds, setShellBackground, Promote, Setup, Runs
    <2>2. UNCHANGED <<blocked, startSem, readSem>> /\ place[shellPid] \in Setup
        BY <1>4 DEF CreateFails, MapStdFds, setShellBackground, Promote, Setup, Runs
    <2>3. /\ place'[shellPid] = w /\ \A x \in Procs : x # shellPid => place'[x] = place[x]
        BY <2>1, PidFacts, RunsFacts
    <2>4. \A x \in Procs :
              \/ place'[x] = place[x] /\ (place[x] \in Sleeps => x \in blocked')
              \/ /\ place[x] \notin Sleeps \cup {"none"} \/ x >= nextPid
                 /\ place'[x] \notin Sleeps
                 /\ x \in Holders' => x \in Holders
        BY <1>1, <2>2, <2>3 DEF Asleep, Holders, Sleeps, ReadSleeps, Setup
    <2> QED BY <1>1, <2>2, <2>4, ReadQuiet
<1>5. ASSUME createprocess PROVE Asleep' /\ OneUnit'
    <2>1. UNCHANGED <<blocked, startSem, readSem>> /\ place[shellPid] = "create"
        BY <1>5 DEF createprocess, Runs
    <2>2. /\ place'[shellPid] \in {"create", "map", "retreat", "post"} /\ nextPid \in Jobs
          /\ place'[nextPid] = "start" /\ nextPid >= nextPid
          /\ \A x \in Procs : x # shellPid /\ x # nextPid => place'[x] = place[x]
        BY <1>5, <2>1, CreateFacts, AfterCreateFacts, PidFacts
    <2>3. \A x \in Procs :
              \/ place'[x] = place[x] /\ (place[x] \in Sleeps => x \in blocked')
              \/ /\ place[x] \notin Sleeps \cup {"none"} \/ x >= nextPid
                 /\ place'[x] \notin Sleeps
                 /\ x \in Holders' => x \in Holders
        BY <1>1, <2>1, <2>2 DEF Asleep, Holders, Sleeps, ReadSleeps
    <2> QED BY <1>1, <2>1, <2>3, ReadQuiet
<1>6. ASSUME NEW w, NEW to, NEW q, Killed(w, to, q), UNCHANGED <<startSem, readSem>>
      PROVE  Asleep' /\ OneUnit'
    <2>1. /\ w \in Procs /\ place[w] \notin Sleeps \cup {"none"}
          /\ w # q => place'[w] = to
          /\ to \in {"release", "exit"} /\ (to = "release" => place[w] = "watch")
          /\ \A x \in Procs : x # w /\ x # q => place'[x] = place[x]
        BY <1>6, PidFacts DEF Killed
    <2>2. /\ place'[q] = "none" \/ (w # q /\ \A x \in Procs : x # w => place'[x] = place[x])
          /\ \A x \in Procs : place[x] \in Sleeps /\ x # q => x \in blocked'
        <3>1. CASE Ended(q)
            <4>1. \A x \in Procs : place[x] \in Sleeps /\ x # q => x \in blocked'
                <5>1. SUFFICES ASSUME NEW x \in Procs, place[x] \in Sleeps, x # q, x \notin blocked' PROVE FALSE
                    OBVIOUS
                <5>2. x \in blocked
                    BY <1>1, <5>1 DEF Asleep
                <5>3. x = shellPid /\ background[q] = "FOREGROUND"
                    BY <3>1, <5>1, <5>2 DEF Ended
                <5>4. place[shellPid] = "waiting"
                    BY <5>1, <5>3, RunsFacts DEF Sleeps, ReadSleeps, ShellPlaces
                <5> QED BY <3>1, <5>2, <5>3, <5>4 DEF Ended
            <4> QED BY <3>1, <4>1 DEF Ended
        <3>2. CASE ~Ended(q)
            BY <1>1, <1>6, <3>2 DEF Killed, Asleep
        <3> QED BY <3>1, <3>2
    <2>3. \A x \in Procs :
              \/ place'[x] = place[x] /\ (place[x] \in Sleeps => x \in blocked')
              \/ place'[x] = "none"
              \/ /\ place[x] \notin Sleeps \cup {"none"} \/ x >= nextPid
                 /\ place'[x] \notin Sleeps
                 /\ x \in Holders' => x \in Holders
        <3>1. \A x \in Procs : x # w /\ x # q =>
                    place'[x] = place[x] /\ (place[x] \in Sleeps => x \in blocked')
            BY <2>1, <2>2
        <3>2. w # q => /\ place'[w] \notin Sleeps
                       /\ w \in Holders' => w \in Holders
            BY <2>1 DEF Holders, Sleeps, ReadSleeps
        <3>3. q \in Procs /\ w # q => place'[q] = "none" \/ place'[q] = place[q]
            BY <2>2
        <3>4. q \in Procs /\ w # q /\ place'[q] # "none" => (place[q] \in Sleeps => q \in blocked')
            <4>1. SUFFICES ASSUME q \in Procs, w # q, place'[q] # "none" PROVE place[q] \in Sleeps => q \in blocked'
                OBVIOUS
            <4>2. ~Ended(q)
                BY <4>1 DEF Ended
            <4> QED BY <1>1, <1>6, <4>1, <4>2 DEF Killed, Asleep
        <3>5. w = q => place'[w] = "none"
            BY <2>2
        <3> QED BY <2>1, <3>1, <3>2, <3>3, <3>4, <3>5
    <2> QED BY <1>1, <1>6, <2>3, ReadQuiet
<1>7. ASSUME NEW p, NEW to, JobMoved(p, to), UNCHANGED <<startSem, readSem>>
      PROVE  Asleep' /\ OneUnit'
    <2>1. /\ p \in Procs /\ place' = [place EXCEPT ![p] = to]
          /\ \/ place[p] = "read" /\ to \in {"read", "give"}
             \/ place[p] = "body" /\ to = "exit"
        BY <1>7, PidFacts DEF JobMoved
    <2>2. place'[p] = to /\ \A x \in Procs : x # p => place'[x] = place[x]
        BY <2>1, RunsFacts
    <2>3. \A x \in Procs : place[x] \in Sleeps => x \in blocked'
        BY <1>1, <1>7 DEF JobMoved, Asleep
    <2>4. \A x \in Procs :
              \/ place'[x] = place[x] /\ (place[x] \in Sleeps => x \in blocked')
              \/ /\ place[x] \notin Sleeps \cup {"none"} \/ x >= nextPid
                 /\ place'[x] \notin Sleeps
                 /\ x \in Holders' => x \in Holders
        BY <2>1, <2>2, <2>3 DEF Holders, Sleeps, ReadSleeps
    <2> QED BY <1>1, <1>7, <2>4, ReadQuiet
<1>8. ASSUME NEW p \in Procs, WakeUpStart(p) \/ WakeUpRead(p) PROVE FALSE
    BY <1>1, <1>8 DEF WakeUpStart, WakeUpRead, Runs, Asleep, Sleeps, ReadSleeps
<1>9. CASE ShellNext
    BY <1>1, <1>3, <1>4, <1>5, <1>6, <1>7, <1>8, <1>9, StepCases, ReadTakenInv, ReadGivenInv,
       WaitStartInv, PostStartInv
<1> QED BY <1>2, <1>9

---------------------------------------------------------------------------
(* The console.  A step that changes nobody's flag.                        *)
LEMMA FrontQuiet ==
    ASSUME InFront, ForeJobs' = ForeJobs, background'[shellPid] = background[shellPid], forePid' = forePid,
           place'[shellPid] \in {"prompt", "create", "map", "retreat"} => background[shellPid] = "FOREGROUND",
           place'[shellPid] = "promote" <=> place[shellPid] = "promote"
    PROVE  InFront'
BY DEF InFront

(* The same jobs live, with the same flags.                                *)
LEMMA SameFore ==
    ASSUME background' = background, \A x \in Jobs : place'[x] = "none" <=> place[x] = "none"
    PROVE  ForeJobs' = ForeJobs
BY DEF ForeJobs

LEMMA ReadGivenPlaces ==
    ASSUME Typed, NEW p, NEW next, ReadGiven(p, next)
    PROVE  PostedPlaces(p, readSem, readSem', ReadSleeps, next)
<1>1. /\ p \in Procs /\ ReadSleeps \in SUBSET Sleeps
      /\ place[p] \notin ReadSleeps \cup {"none"}
      /\ semPost(p, readSem, readSem', ReadSleeps, next)
      /\ p = shellPid => next \in ShellPlaces
      /\ p \in Jobs => next \in JobPlaces \ {"none"}
    BY PidFacts DEF ReadGiven, ReadSleeps, Sleeps, ShellPlaces, JobPlaces
<1> QED BY <1>1, RunsFacts, PostShape

LEMMA ReadTakenPlaces ==
    ASSUME Typed, NEW p, NEW asleep, ReadTaken(p, asleep)
    PROVE  /\ \A x \in Procs : x # p => place'[x] = place[x]
           /\ p \in Procs /\ place[p] \in {"wait", "body"}
           /\ place'[p] \in {"waiting", "asking", "mode", "read"}
           /\ blocked' = blocked \/ blocked' = blocked \cup {p}
<1>1. /\ p \in Procs /\ asleep \in ReadSleeps /\ asleep \in Sleeps
      /\ place[p] \in {"wait", "body"}
      /\ semWait(p, readSem, readSem', asleep)
    BY DEF ReadTaken, ReadSleeps, Sleeps
<1>2. /\ \A x \in Procs : x # p => place'[x] = place[x]
      /\ place'[p] = Woken(asleep) \/ place'[p] = asleep
      /\ blocked' = blocked \/ blocked' = blocked \cup {p}
    BY <1>1, RunsFacts, SemWaitFacts
<1>3. Woken(asleep) \in {"mode", "read"} /\ asleep \in {"waiting", "asking"}
    BY <1>1 DEF ReadSleeps, Woken
<1> QED BY <1>1, <1>2, <1>3

(* The end of the process in the foreground gives the console back, the    *)
(* end of another changes nothing.                                         *)
LEMMA FrontKill ==
    ASSUME Typed, InFront, NEW w, NEW to, NEW q, Killed(w, to, q), forePid' = forePid
    PROVE  InFront'
<1>1. /\ w \in Procs /\ place[w] # "none" /\ to \in {"release", "exit"}
      /\ w # q => place'[w] = to
      /\ \A x \in Procs : x # w /\ x # q => place'[x] = place[x]
      /\ w = shellPid => place[w] = "watch" /\ to = "release"
    BY PidFacts DEF Killed
<1>2. CASE Ended(q)
    <2>1. /\ q \in Jobs /\ place[q] # "none" /\ place'[q] = "none"
          /\ background' = IF background[q] = "FOREGROUND"
                           THEN [background EXCEPT ![shellPid] = "FOREGROUND"] ELSE background
        BY <1>2 DEF Ended
    <2>2. /\ shellPid # q /\ shellPid \in Procs
          /\ place'[shellPid] = place[shellPid] \/ (place[shellPid] = "watch" /\ place'[shellPid] = "release")
        BY <1>1, <2>1, PidFacts
    <2>3. \A x \in Jobs : x # q => (place'[x] = "none" <=> place[x] = "none")
        BY <1>1, PidFacts
    <2>4. CASE background[q] = "FOREGROUND"
        <3>1. /\ background'[shellPid] = "FOREGROUND"
              /\ \A x \in Jobs : background'[x] = background[x]
            BY <2>1, <2>4, PidFacts, RunsFacts
        <3>2. q \in ForeJobs
            BY <2>1, <2>4 DEF ForeJobs
        <3>3. ForeJobs = {forePid} /\ place[shellPid] # "promote"
            BY <3>2, PidFacts, RunsFacts DEF InFront
        <3>4. ForeJobs' = {}
            BY <2>1, <2>3, <3>1, <3>2, <3>3 DEF ForeJobs
        <3>5. place'[shellPid] # "promote"
            BY <2>2, <3>3
        <3> QED BY <3>1, <3>4, <3>5 DEF InFront
    <2>5. CASE background[q] # "FOREGROUND"
        <3>1. background' = background
            BY <2>1, <2>5
        <3>2. ForeJobs' = ForeJobs
            BY <2>1, <2>3, <2>5, <3>1 DEF ForeJobs
        <3>3. /\ place'[shellPid] \in {"prompt", "create", "map", "retreat"} => background[shellPid] = "FOREGROUND"
              /\ place'[shellPid] = "promote" <=> place[shellPid] = "promote"
            BY <2>2 DEF InFront
        <3> QED BY <3>1, <3>2, <3>3, FrontQuiet
    <2> QED BY <2>4, <2>5
<1>3. CASE ~Ended(q)
    <2>1. /\ \A x \in Procs : x # w => place'[x] = place[x]
          /\ w # q /\ background' = background
        BY <1>3 DEF Killed
    <2>2. ForeJobs' = ForeJobs
        <3>1. \A x \in Jobs : place'[x] = "none" <=> place[x] = "none"
            BY <1>1, <2>1, PidFacts
        <3> QED BY <2>1, <3>1, SameFore
    <2>3. /\ place'[shellPid] \in {"prompt", "create", "map", "retreat"} => background[shellPid] = "FOREGROUND"
          /\ place'[shellPid] = "promote" <=> place[shellPid] = "promote"
        BY <1>1, <2>1, PidFacts DEF InFront
    <2> QED BY <2>1, <2>2, <2>3, FrontQuiet
<1> QED BY <1>2, <1>3

(* The shell steps back, and the job it names comes to the front.          *)
LEMMA FrontRetreat ==
    ASSUME Typed, InFront, setShellBackground
    PROVE  InFront'
<1>1. /\ place[shellPid] = "retreat" /\ place' = [place EXCEPT ![shellPid] = "promote"]
      /\ background' = [background EXCEPT ![shellPid] = "BACKGROUND"]
    BY DEF setShellBackground, Runs
<1>2. /\ place'[shellPid] = "promote" /\ background'[shellPid] = "BACKGROUND"
      /\ \A x \in Jobs : place'[x] = place[x] /\ background'[x] = background[x]
    BY <1>1, PidFacts, RunsFacts
<1>3. ForeJobs = {} /\ ForeJobs' = ForeJobs
    BY <1>1, <1>2 DEF InFront, ForeJobs
<1> QED BY <1>2, <1>3 DEF InFront

LEMMA FrontPromote ==
    ASSUME Typed, InFront, Promote, "console" \notin trouble'
    PROVE  InFront'
<1> DEFINE pid == newPids[1]
<1>1. /\ place[shellPid] = "promote" /\ forePid' = pid
      /\ place' = [place EXCEPT ![shellPid] = "post"]
      /\ background' = IF Exists(pid) THEN [background EXCEPT ![pid] = "FOREGROUND"]
                       ELSE background
      /\ Exists(pid) => pid \in Jobs /\ place[pid] # "none"
      /\ trouble' = trouble \cup Flag("console", ~Exists(pid))
    BY PromoteFacts
<1> HIDE DEF pid
<1>2. Exists(pid)
    BY <1>1 DEF Flag
<1>3. /\ pid \in Jobs /\ pid \in Procs /\ pid # shellPid /\ place[pid] # "none"
      /\ background' = [background EXCEPT ![pid] = "FOREGROUND"]
    BY <1>1, <1>2, PidFacts
<1>4. /\ place'[shellPid] = "post" /\ background'[pid] = "FOREGROUND"
      /\ \A x \in Procs : x # pid => background'[x] = background[x]
      /\ \A x \in Jobs : place'[x] = place[x]
    BY <1>1, <1>3, PidFacts, RunsFacts
<1>5. ForeJobs = {} /\ background'[shellPid] = "BACKGROUND"
    BY <1>1, <1>3, <1>4, PidFacts DEF InFront
<1>6. ForeJobs' = {pid}
    BY <1>3, <1>4, <1>5, PidFacts, ZenonT(60) DEF ForeJobs
<1> QED BY <1>1, <1>4, <1>5, <1>6 DEF InFront

LEMMA ConsoleStep ==
    ASSUME Typed, ConsoleInv, [ShellNext]_shellVars
    PROVE  ConsoleInv'
<1> SUFFICES ASSUME "console" \notin trouble'
             PROVE  InFront'
    BY DEF ConsoleInv
<1>1. "console" \notin trouble /\ InFront
    BY WokenGrows DEF ConsoleInv
<1>2. CASE UNCHANGED shellVars
    BY <1>1, <1>2 DEF shellVars, InFront, ForeJobs
<1>3. ASSUME NEW p, NEW asleep, ReadTaken(p, asleep) PROVE InFront'
    <2>1. background' = background /\ forePid' = forePid
        BY <1>3 DEF ReadTaken
    <2>2. \A x \in Jobs : place'[x] = "none" <=> place[x] = "none"
        BY <1>3, ReadTakenPlaces, PidFacts
    <2>3. /\ place'[shellPid] \in {"prompt", "create", "map", "retreat"} => background[shellPid] = "FOREGROUND"
          /\ place'[shellPid] = "promote" <=> place[shellPid] = "promote"
        BY <1>1, <1>3, ReadTakenPlaces, PidFacts DEF InFront
    <2> QED BY <1>1, <2>1, <2>2, <2>3, SameFore, FrontQuiet
<1>4. ASSUME NEW p, NEW next, ReadGiven(p, next) PROVE InFront'
    <2>1. /\ background' = background /\ forePid' = forePid
          /\ p = shellPid => /\ place[p] \in {"release", "prompt"} /\ next \in {"wait", "create"}
                             /\ next = "create" => place[p] = "prompt"
        BY <1>4, PidFacts DEF ReadGiven
    <2>2. PostedPlaces(p, readSem, readSem', ReadSleeps, next)
        BY <1>4, ReadGivenPlaces
    <2>3. \A x \in Jobs : place'[x] = "none" <=> place[x] = "none"
        BY <2>2, PidFacts DEF PostedPlaces
    <2>4. \/ p = shellPid /\ place'[shellPid] = next
          \/ p # shellPid /\ place'[shellPid] = place[shellPid]
          \/ p # shellPid /\ place'[shellPid] = "mode" /\ place[shellPid] = "waiting"
        BY <2>2, PidFacts, RunsFacts DEF PostedPlaces, ReadSleeps, Woken, ShellPlaces
    <2>5. /\ place'[shellPid] \in {"prompt", "create", "map", "retreat"} => background[shellPid] = "FOREGROUND"
          /\ place'[shellPid] = "promote" <=> place[shellPid] = "promote"
        BY <1>1, <2>1, <2>4 DEF InFront
    <2> QED BY <1>1, <2>1, <2>3, <2>5, SameFore, FrontQuiet
<1>5. ASSUME NEW p \in Jobs, WaitStart(p) PROVE InFront'
    <2>1. /\ background' = background /\ forePid' = forePid /\ p # shellPid
          /\ place[p] # "none" /\ place'[p] # "none"
          /\ \A x \in Procs : x # p => place'[x] = place[x]
        BY <1>5, WaitStartFacts, PidFacts
    <2>2. \A x \in Jobs : place'[x] = "none" <=> place[x] = "none"
        BY <2>1, PidFacts
    <2>3. place'[shellPid] = place[shellPid]
        BY <2>1, PidFacts
    <2>4. place[shellPid] \in {"prompt", "create", "map", "retreat"} => background[shellPid] = "FOREGROUND"
        BY <1>1 DEF InFront
    <2> QED BY <1>1, <2>1, <2>2, <2>3, <2>4, SameFore, FrontQuiet
<1>6. ASSUME PostStart PROVE InFront'
    <2>1. /\ background' = background /\ forePid' = forePid /\ place[shellPid] = "post"
        BY <1>6, PostStartFacts
    <2>2. PICK next : /\ next \in {"wait", "post"}
                      /\ PostedPlaces(shellPid, startSem, startSem', {"starting"}, next)
        BY <1>6, PostStartFacts
    <2>3. /\ place'[shellPid] \in {"wait", "post"}
          /\ \A x \in Jobs : place'[x] = "none" <=> place[x] = "none"
        BY <2>2, PidFacts DEF PostedPlaces
    <2> QED BY <1>1, <2>1, <2>3, SameFore, FrontQuiet
<1>7. ASSUME LookAtMode \/ IdleLine \/ LostLine \/ CreateFails \/ MapStdFds PROVE InFront'
    <2>1. PICK w \in ShellPlaces :
                /\ place' = [place EXCEPT ![shellPid] = w] /\ w # "promote"
                /\ w \in {"prompt", "create", "map", "retreat"} => background[shellPid] = "FOREGROUND"
        <3>1. CASE LookAtMode
            BY <3>1 DEF LookAtMode, ShellPlaces
        <3>2. CASE IdleLine \/ LostLine
            BY <3>2 DEF IdleLine, LostLine, ShellPlaces
        <3>3. CASE CreateFails
            <4>1. place[shellPid] = "create" /\ background[shellPid] = "FOREGROUND"
                BY <1>1, <3>3 DEF CreateFails, Runs, InFront
            <4>2. AfterCreate(Len(newPids) + 1) \in {"create", "map", "retreat", "post"}
                BY <4>1, AfterCreateFacts
            <4> QED BY <3>3, <4>1, <4>2 DEF CreateFails, ShellPlaces
        <3>4. CASE MapStdFds
            <4>1. place[shellPid] = "map" /\ background[shellPid] = "FOREGROUND"
                BY <1>1, <3>4 DEF MapStdFds, Runs, InFront
            <4> QED BY <3>4, <4>1 DEF MapStdFds, ShellPlaces
        <3> QED BY <1>7, <3>1, <3>2, <3>3, <3>4
    <2>2. /\ background' = background /\ forePid' = forePid /\ place[shellPid] # "promote"
        BY <1>7 DEF LookAtMode, IdleLine, LostLine, CreateFails, MapStdFds, Runs
    <2>3. /\ place'[shellPid] = w /\ \A x \in Jobs : place'[x] = place[x]
        BY <2>1, PidFacts, RunsFacts
    <2> QED BY <1>1, <2>1, <2>2, <2>3, SameFore, FrontQuiet
<1>8. ASSUME createprocess PROVE InFront'
    <2>1. /\ background' = background /\ forePid' = forePid /\ place[shellPid] = "create"
        BY <1>8 DEF createprocess, Runs
    <2>2. background[shellPid] = "FOREGROUND"
        BY <1>1, <2>1 DEF InFront
    <2>3. place'[shellPid] # "promote"
        BY <1>8, <2>1, CreateFacts, AfterCreateFacts
    <2>4. ForeJobs' = ForeJobs
        BY <1>8, <2>1, CreateFacts, PidFacts DEF ForeJobs
    <2> QED BY <1>1, <2>1, <2>2, <2>3, <2>4, FrontQuiet
<1>9. ASSUME NEW p \in Procs, WakeUpStart(p) \/ WakeUpRead(p) PROVE InFront'
    <2>1. /\ background' = background /\ forePid' = forePid /\ place[p] \in Sleeps
          /\ place' = [place EXCEPT ![p] = Woken(place[p])]
        BY <1>9, RunsFacts DEF WakeUpStart, WakeUpRead, Runs, Sleeps, ReadSleeps
    <2>2. Woken(place[p]) \in {"body", "read", "mode"}
        BY <2>1 DEF Sleeps, ReadSleeps, Woken
    <2>3. /\ place'[p] \in {"body", "read", "mode"} /\ \A x \in Procs : x # p => place'[x] = place[x]
        BY <2>1, <2>2, RunsFacts
    <2>4. \A x \in Jobs : place'[x] = "none" <=> place[x] = "none"
        BY <2>1, <2>3, PidFacts DEF Sleeps, ReadSleeps
    <2>5. /\ place'[shellPid] \in {"prompt", "create", "map", "retreat"} => background[shellPid] = "FOREGROUND"
          /\ place'[shellPid] = "promote" <=> place[shellPid] = "promote"
        BY <1>1, <2>1, <2>3, PidFacts DEF InFront, Sleeps, ReadSleeps
    <2> QED BY <1>1, <2>1, <2>4, <2>5, SameFore, FrontQuiet
<1>10. ASSUME NEW p, NEW to, JobMoved(p, to), UNCHANGED <<background, forePid>> PROVE InFront'
    <2>1. /\ p \in Jobs /\ p \in Procs /\ p # shellPid /\ place[p] # "none" /\ to # "none"
          /\ place' = [place EXCEPT ![p] = to]
        BY <1>10, PidFacts DEF JobMoved
    <2>2. /\ place'[shellPid] = place[shellPid]
          /\ \A x \in Jobs : place'[x] = "none" <=> place[x] = "none"
        BY <2>1, PidFacts, RunsFacts
    <2>3. place[shellPid] \in {"prompt", "create", "map", "retreat"} => background[shellPid] = "FOREGROUND"
        BY <1>1 DEF InFront
    <2> QED BY <1>1, <1>10, <2>2, <2>3, SameFore, FrontQuiet
<1>11. CASE ShellNext
    BY <1>1, <1>3, <1>4, <1>5, <1>6, <1>7, <1>8, <1>9, <1>10, <1>11, StepCases, FrontKill,
       FrontRetreat, FrontPromote
<1> QED BY <1>2, <1>11

---------------------------------------------------------------------------
(* START_PROC_SEM.  There are finitely many jobs, fewer than a semaphore   *)
(* can count.                                                              *)
LEMMA WaitersFacts ==
    ASSUME NEW S \in SUBSET Jobs
    PROVE  IsFiniteSet(S) /\ Cardinality(S) \in Nat /\ Cardinality(S) < Word
<1>1. 2 \in Int /\ MaxJob \in Int /\ MaxJob >= 2 /\ Word \in Int /\ Word > MaxJob
    BY ShellAssumption
<1>2. IsFiniteSet(Jobs) /\ Cardinality(Jobs) = MaxJob - 2 + 1
    BY <1>1, FS_Interval DEF Jobs
<1>3. IsFiniteSet(S) /\ Cardinality(S) <= Cardinality(Jobs)
    BY <1>2, FS_Subset
<1>4. Cardinality(S) \in Nat
    BY <1>3, FS_CardinalityType
<1> QED BY <1>1, <1>2, <1>3, <1>4

LEMMA OneLess ==
    ASSUME NEW S \in SUBSET Jobs, NEW x \in S, NEW T, \A y : y \in T <=> y \in S /\ y # x
    PROVE  Cardinality(T) = Cardinality(S) - 1
<1>1. T = S \ {x}
    OBVIOUS
<1> QED BY <1>1, WaitersFacts, FS_RemoveElement

LEMMA OneMore ==
    ASSUME NEW S \in SUBSET Jobs, NEW x, x \notin S, NEW T, \A y : y \in T <=> y \in S \/ y = x
    PROVE  Cardinality(T) = Cardinality(S) + 1
<1>1. T = S \cup {x}
    OBVIOUS
<1> QED BY <1>1, WaitersFacts, FS_AddElement

(* A step that leaves START_PROC_SEM and those who wait for it alone.      *)
LEMMA StartQuiet ==
    ASSUME Balanced, startSem' = startSem, newPids' = newPids, Owed' = Owed, SettingUp' => SettingUp,
           \A x \in Jobs : \/ place'[x] = place[x]
                           \/ place[x] \notin {"start", "starting"} /\ place'[x] \notin {"start", "starting"},
           \A x \in Jobs : place[x] = "start" /\ x \notin blocked => x \notin blocked'
    PROVE  Balanced'
<1>1. \A x \in Jobs : /\ place'[x] = "start" <=> place[x] = "start"
                      /\ place'[x] = "starting" <=> place[x] = "starting"
    OBVIOUS
<1>2. Waiters' = Waiters
    BY <1>1 DEF Waiters
<1>3. /\ \A x \in Jobs : place'[x] = "start" => x \notin blocked'
      /\ \A x : x \in ToSet(startSem'.queue) <=> x \in Jobs /\ place'[x] = "starting"
      /\ startSem'.value > 0 => startSem'.queue = <<>>
    BY <1>1 DEF Balanced
<1>4. Cardinality(Waiters') = startSem'.value + Owed'
    BY <1>2 DEF Balanced
<1>5. SettingUp' => startSem'.value = 0 /\ Waiters' = ToSet(newPids')
    BY <1>2 DEF Balanced
<1> QED BY <1>3, <1>4, <1>5 DEF Balanced

(* At the prompt, with the last jobs on their way, no unit is left and     *)
(* nobody waits for one.                                                   *)
LEMMA StartCommand ==
    ASSUME Typed, Balanced, NEW c \in Commands, CommandLine(c), ReadGiven(shellPid, "create")
    PROVE  Balanced'
<1>1. /\ place[shellPid] = "prompt" /\ Settled /\ newPids' = <<>> /\ startSem' = startSem
    BY DEF CommandLine, Runs
<1>2. PostedPlaces(shellPid, readSem, readSem', ReadSleeps, "create")
    BY ReadGivenPlaces
<1>3. /\ place'[shellPid] = "create" /\ blocked' \subseteq blocked
      /\ \A x \in Jobs : \/ place'[x] = place[x]
                         \/ place[x] \notin {"start", "starting"} /\ place'[x] \notin {"start", "starting"}
    BY <1>2, PidFacts DEF PostedPlaces, ReadSleeps, Woken
<1>4. \A x \in Jobs : place[x] # "start"
    BY <1>1 DEF Settled, Runs, Balanced
<1>5. Owed = 0 /\ Cardinality(Waiters) = startSem.value /\ startSem.value \in Nat
    <2>1. Owed = 0
        BY <1>1 DEF Owed
    <2>2. startSem.value \in Nat
        BY RunsFacts DEF Sem
    <2> QED BY <2>1, <2>2 DEF Balanced
<1>6. \A x : x \in Waiters <=> x \in ToSet(startSem.queue)
    BY <1>4 DEF Waiters, Balanced
<1>7. Waiters \in SUBSET Jobs /\ IsFiniteSet(Waiters)
    BY WaitersFacts DEF Waiters
<1>8. startSem.value = 0
    <2>1. SUFFICES ASSUME startSem.value > 0 PROVE FALSE
        BY <1>5
    <2>2. startSem.queue = <<>>
        BY <2>1 DEF Balanced
    <2>3. Waiters = {}
        BY <1>6, <2>2 DEF ToSet
    <2> QED BY <1>5, <2>1, <2>3, FS_EmptySet
<1>9. Waiters = {}
    BY <1>5, <1>7, <1>8, FS_EmptySet
<1>10. Waiters' = {} /\ \A x \in Jobs : place'[x] \notin {"start", "starting"}
    BY <1>3, <1>9 DEF Waiters
<1>11. /\ \A x \in Jobs : place'[x] = "start" => x \notin blocked'
       /\ \A x : x \in ToSet(startSem'.queue) <=> x \in Jobs /\ place'[x] = "starting"
       /\ startSem'.value > 0 => startSem'.queue = <<>>
    BY <1>1, <1>6, <1>9, <1>10 DEF Balanced
<1>12. Owed' = 0
    BY <1>1, <1>3 DEF Owed
<1>13. Cardinality(Waiters') = startSem'.value + Owed'
    BY <1>1, <1>8, <1>10, <1>12, FS_EmptySet
<1>14. startSem'.value = 0 /\ Waiters' = ToSet(newPids')
    BY <1>1, <1>8, <1>10 DEF ToSet
<1> QED BY <1>11, <1>13, <1>14 DEF Balanced

(* A new job is one more that waits and one more post that is owed.        *)
LEMMA StartCreate ==
    ASSUME Typed, Balanced, createprocess
    PROVE  Balanced'
<1>1. /\ place[shellPid] = "create" /\ newPids' = Append(newPids, nextPid)
      /\ UNCHANGED <<blocked, startSem, command>>
    BY DEF createprocess, Runs
<1>2. /\ nextPid \in Jobs /\ place[nextPid] = "none" /\ place'[nextPid] = "start"
      /\ place'[shellPid] = AfterCreate(Len(newPids) + 1)
      /\ \A x \in Procs : x # shellPid /\ x # nextPid => place'[x] = place[x]
    BY CreateFacts
<1>3. /\ newPids \in Seq(Jobs \cup {None}) /\ Len(newPids) \in Nat
      /\ place'[shellPid] \in {"create", "map", "retreat", "post"}
    BY <1>1, <1>2, AfterCreateFacts DEF Typed, Working
<1>4. /\ Len(newPids') = Len(newPids) + 1
      /\ \A x : x \in ToSet(newPids') <=> x \in ToSet(newPids) \/ x = nextPid
    BY <1>1, <1>2, <1>3, AppendFacts
<1>5. \A x \in Jobs : x # nextPid => place'[x] = place[x]
    BY <1>2, PidFacts
<1>6. /\ \A y : y \in Waiters' <=> y \in Waiters \/ y = nextPid
      /\ nextPid \notin Waiters /\ Waiters \in SUBSET Jobs
    BY <1>2, <1>5 DEF Waiters
<1>7. Cardinality(Waiters') = Cardinality(Waiters) + 1
    BY <1>6, OneMore
<1>8. Owed = Len(newPids) /\ Owed' = Len(newPids) + 1
    BY <1>1, <1>3, <1>4 DEF Owed
<1>9. startSem.value = 0 /\ Waiters = ToSet(newPids)
    BY <1>1 DEF Balanced, SettingUp
<1>10. Cardinality(Waiters') = startSem'.value + Owed'
    BY <1>1, <1>3, <1>7, <1>8, <1>9 DEF Balanced
<1>11. startSem'.value = 0 /\ Waiters' = ToSet(newPids')
    BY <1>1, <1>4, <1>6, <1>9
<1>12. /\ \A x \in Jobs : place'[x] = "start" => x \notin blocked'
       /\ \A x : x \in ToSet(startSem'.queue) <=> x \in Jobs /\ place'[x] = "starting"
       /\ startSem'.value > 0 => startSem'.queue = <<>>
    <2>1. nextPid \notin blocked
        BY <1>2, RunsFacts
    <2> QED BY <1>1, <1>2, <1>5, <2>1 DEF Balanced
<1> QED BY <1>10, <1>11, <1>12 DEF Balanced

(* A job takes its unit or queues for it.                                  *)
LEMMA StartWait ==
    ASSUME Typed, Balanced, NEW p \in Jobs, WaitStart(p)
    PROVE  Balanced'
<1>1. /\ p \in Procs /\ p # shellPid /\ place[p] = "start" /\ p \notin blocked
      /\ command' = command /\ newPids' = newPids
      /\ \A x \in Procs : x # p => place'[x] = place[x]
    BY WaitStartFacts, PidFacts
<1>2. place'[shellPid] = place[shellPid] /\ \A x \in Jobs : x # p => place'[x] = place[x]
    BY <1>1, PidFacts
<1>3. Owed' = Owed /\ (SettingUp' <=> SettingUp) /\ Owed \in Int /\ startSem.value \in Nat
    <2>1. Len(newPids) \in Nat /\ startSem.value \in Nat
        BY RunsFacts DEF Typed, Working, Sem
    <2> QED BY <1>1, <1>2, <2>1 DEF Owed, SettingUp
<1>4. Waiters \in SUBSET Jobs /\ p \in Waiters
    BY <1>1 DEF Waiters
<1>5. startSem.queue \in Seq(Procs)
    BY RunsFacts DEF Sem
<1>6. CASE /\ startSem.value > 0 /\ startSem'.value = startSem.value - 1
           /\ startSem'.queue = startSem.queue
           /\ place'[p] = "body" /\ blocked' = blocked
    <2>1. \A y : y \in Waiters' <=> y \in Waiters /\ y # p
        BY <1>2, <1>6 DEF Waiters
    <2>2. Cardinality(Waiters') = Cardinality(Waiters) - 1
        BY <1>4, <2>1, OneLess
    <2>3. Cardinality(Waiters') = startSem'.value + Owed'
        BY <1>3, <1>6, <2>2 DEF Balanced
    <2>4. ~SettingUp'
        BY <1>3, <1>6 DEF Balanced
    <2>5. startSem'.queue = <<>>
        BY <1>6 DEF Balanced
    <2>6. \A x : x \in ToSet(startSem'.queue) <=> x \in Jobs /\ place'[x] = "starting"
        BY <1>1, <1>2, <1>6 DEF Balanced
    <2>7. \A x \in Jobs : place'[x] = "start" => x \notin blocked'
        BY <1>2, <1>6 DEF Balanced
    <2> QED BY <2>3, <2>4, <2>5, <2>6, <2>7 DEF Balanced
<1>7. CASE /\ startSem.value = 0 /\ startSem'.value = 0
           /\ startSem'.queue = Append(startSem.queue, p)
           /\ place'[p] = "starting" /\ blocked' = blocked \cup {p}
    <2>1. Waiters' = Waiters
        BY <1>1, <1>2, <1>7 DEF Waiters
    <2>2. \A x : x \in ToSet(startSem'.queue) <=> x \in ToSet(startSem.queue) \/ x = p
        BY <1>1, <1>5, <1>7, AppendFacts
    <2>3. \A x : x \in ToSet(startSem'.queue) <=> x \in Jobs /\ place'[x] = "starting"
        BY <1>2, <1>7, <2>2 DEF Balanced
    <2>4. \A x \in Jobs : place'[x] = "start" => x \notin blocked'
        BY <1>2, <1>7 DEF Balanced
    <2>5. Cardinality(Waiters') = startSem'.value + Owed'
        BY <1>3, <1>7, <2>1 DEF Balanced
    <2>6. SettingUp' => startSem'.value = 0 /\ Waiters' = ToSet(newPids')
        BY <1>1, <1>3, <1>7, <2>1 DEF Balanced
    <2> QED BY <1>7, <2>3, <2>4, <2>5, <2>6 DEF Balanced
<1> QED BY <1>6, <1>7, WaitStartFacts

(* The shell pays one of the posts: the first of the queue begins, or the  *)
(* unit waits for a job that has not come yet.                             *)
LEMMA StartPost ==
    ASSUME Typed, Balanced, Asleep, PostStart
    PROVE  Balanced'
<1>1. /\ place[shellPid] = "post" /\ Len(newPids) \in Nat /\ Len(newPids) > 0 /\ command' = command
      /\ Len(newPids') = Len(newPids) - 1
    BY PostStartFacts
<1>2. PICK next : /\ next = IF Len(newPids) = 1 THEN "wait" ELSE "post"
                  /\ Posted(shellPid, startSem, startSem', {"starting"}, next)
    BY PostStartFacts
<1>3. place'[shellPid] = next
    BY <1>2 DEF Posted
<1>4. Owed = Len(newPids) /\ Owed' = Len(newPids) - 1
    <2>1. Owed = Len(newPids)
        BY <1>1 DEF Owed
    <2>2. CASE Len(newPids) = 1
        <3>1. place'[shellPid] = "wait"
            BY <1>2, <1>3, <2>2
        <3>2. Owed' = 0
            BY <3>1 DEF Owed
        <3> QED BY <1>1, <2>1, <2>2, <3>2
    <2>3. CASE Len(newPids) # 1
        <3>1. place'[shellPid] = "post"
            BY <1>2, <1>3, <2>3
        <3>2. Owed' = Len(newPids')
            BY <3>1 DEF Owed
        <3> QED BY <1>1, <2>1, <3>2
    <2> QED BY <2>2, <2>3
<1>5. ~SettingUp'
    <2>1. Len(newPids) <= Len(command.kinds) /\ Len(command.kinds) \in Int
        BY DEF Typed, Working
    <2>2. Len(newPids') # Len(command'.kinds)
        BY <1>1, <2>1
    <2>3. place'[shellPid] \in {"wait", "post"}
        BY <1>2, <1>3
    <2> QED BY <2>2, <2>3 DEF SettingUp
<1>6. /\ startSem.queue \in Seq(Procs) /\ startSem.value \in Nat
      /\ Waiters \in SUBSET Jobs /\ Cardinality(Waiters) \in Nat /\ Cardinality(Waiters) < Word
      /\ Cardinality(Waiters) = startSem.value + Len(newPids)
    <2>1. Waiters \in SUBSET Jobs
        BY DEF Waiters
    <2>2. Cardinality(Waiters) \in Nat /\ Cardinality(Waiters) < Word
        BY <2>1, WaitersFacts
    <2> QED BY <1>4, <2>1, <2>2, RunsFacts DEF Sem, Balanced
<1>7. CASE /\ startSem.queue = <<>> /\ startSem'.queue = <<>> /\ startSem'.value = (startSem.value + 1) % Word
           /\ \A x \in Procs : x # shellPid => place'[x] = place[x]
           /\ blocked' = blocked
    <2>1. \A x \in Jobs : place'[x] = place[x]
        BY <1>7, PidFacts
    <2>2. Waiters' = Waiters
        BY <2>1 DEF Waiters
    <2>3. startSem'.value = startSem.value + 1
        <3>1. ASSUME NEW v \in Nat, v + 1 < Word PROVE (v + 1) % Word = v + 1
            BY <3>1, PidFacts
        <3>2. startSem.value + 1 < Word
            BY <1>1, <1>6, PidFacts
        <3> QED BY <1>6, <1>7, <3>1, <3>2
    <2>4. Cardinality(Waiters') = startSem'.value + Owed'
        <3>1. ASSUME NEW v \in Nat, NEW n \in Nat PROVE v + n = (v + 1) + (n - 1)
            OBVIOUS
        <3>2. startSem.value + Len(newPids) = (startSem.value + 1) + (Len(newPids) - 1)
            BY <1>1, <1>6, <3>1
        <3>3. Cardinality(Waiters') = startSem.value + Len(newPids)
            BY <1>6, <2>2
        <3> QED BY <1>4, <2>3, <3>2, <3>3
    <2>5. /\ \A x \in Jobs : place'[x] = "start" => x \notin blocked'
          /\ \A x : x \in ToSet(startSem'.queue) <=> x \in Jobs /\ place'[x] = "starting"
        BY <1>7, <2>1 DEF Balanced
    <2> QED BY <1>5, <1>7, <2>4, <2>5 DEF Balanced
<1>8. ASSUME NEW f \in Procs, startSem.queue # <<>>, f = Head(startSem.queue)
      PROVE  /\ f \in Jobs /\ place[f] = "starting" /\ f \in blocked /\ startSem.value = 0
             /\ \A x : x \in ToSet(startSem.queue) <=> x = f \/ x \in ToSet(Tail(startSem.queue))
             /\ f \notin ToSet(Tail(startSem.queue))
    <2>1. /\ f \in ToSet(startSem.queue) /\ IsInjective(startSem.queue)
          /\ \A x : x \in ToSet(startSem.queue) <=> x = f \/ x \in ToSet(Tail(startSem.queue))
          /\ f \notin ToSet(Tail(startSem.queue))
        <3>1. IsInjective(startSem.queue)
            BY DEF Asleep, QueueOf
        <3> QED BY <1>6, <1>8, <3>1, TailFacts
    <2>2. f \in Jobs /\ place[f] = "starting"
        BY <2>1 DEF Balanced
    <2>3. f \in blocked
        BY <1>8, <2>2 DEF Asleep, Sleeps
    <2>4. startSem.value = 0
        BY <1>6, <1>8 DEF Balanced
    <2> QED BY <2>1, <2>2, <2>3, <2>4
<1>9. ASSUME NEW f \in Procs, startSem.queue # <<>>, f = Head(startSem.queue),
             startSem'.queue = Tail(startSem.queue), startSem'.value = startSem.value,
             place'[f] = Woken(place[f]), blocked' = blocked \ {f},
             \A x \in Procs : x # shellPid /\ x # f => place'[x] = place[x]
      PROVE  Balanced'
    <2>1. /\ f \in Jobs /\ place[f] = "starting" /\ startSem.value = 0
          /\ \A x : x \in ToSet(startSem.queue) <=> x = f \/ x \in ToSet(startSem'.queue)
          /\ f \notin ToSet(startSem'.queue)
        BY <1>8, <1>9
    <2>2. place'[f] = "body" /\ \A x \in Jobs : x # f => place'[x] = place[x]
        BY <1>9, <2>1, PidFacts DEF Woken
    <2>3. f \in Waiters /\ \A y : y \in Waiters' <=> y \in Waiters /\ y # f
        BY <2>1, <2>2 DEF Waiters
    <2>4. Cardinality(Waiters') = Cardinality(Waiters) - 1
        BY <1>6, <2>3, OneLess
    <2>5. Cardinality(Waiters') = startSem'.value + Owed'
        BY <1>1, <1>4, <1>6, <1>9, <2>1, <2>4
    <2>6. \A x \in Jobs : place'[x] = "start" => x \notin blocked'
        BY <1>9, <2>2 DEF Balanced
    <2>7. \A x : x \in ToSet(startSem'.queue) <=> x \in Jobs /\ place'[x] = "starting"
        BY <2>1, <2>2 DEF Balanced
    <2>8. ~(startSem'.value > 0)
        BY <1>9, <2>1
    <2> QED BY <1>5, <2>5, <2>6, <2>7, <2>8 DEF Balanced
<1> QED
    <2>1. CASE \E f \in Procs :
                 /\ startSem.queue # <<>> /\ f = Head(startSem.queue)
                 /\ startSem'.queue = Tail(startSem.queue)
                 /\ startSem'.value = startSem.value /\ place'[f] = Woken(place[f])
                 /\ \A x \in Procs : x # shellPid /\ x # f => place'[x] = place[x]
                 /\ blocked' = blocked \ {f}
        BY <1>9, <2>1
    <2>2. ~\E f \in Procs : /\ startSem.queue # <<>> /\ f = Head(startSem.queue)
                            /\ ~(f \in blocked /\ place[f] \in {"starting"})
        BY <1>8
    <2> QED BY <1>2, <1>7, <2>1, <2>2 DEF Posted

LEMMA StartStep ==
    ASSUME Typed, ReadInv, StartInv, [ShellNext]_shellVars
    PROVE  StartInv'
<1> SUFFICES ASSUME trouble' \cap {"early", "woken", "stopped"} = {}
             PROVE  Balanced'
    BY DEF StartInv
<1>1. /\ "early" \notin trouble' /\ "woken" \notin trouble' /\ "stopped" \notin trouble'
      /\ Asleep /\ Balanced
    BY WokenGrows DEF ReadInv, StartInv
<1>2. CASE UNCHANGED shellVars
    BY <1>1, <1>2 DEF shellVars, Balanced, Waiters, Owed, SettingUp
<1>3. ASSUME NEW p, NEW asleep, ReadTaken(p, asleep) PROVE Balanced'
    <2>1. /\ UNCHANGED <<startSem, newPids, command>>
          /\ \A x \in Procs : x # p => place'[x] = place[x]
          /\ p \in Procs /\ place[p] \in {"wait", "body"}
          /\ place'[p] \in {"waiting", "asking", "mode", "read"}
          /\ blocked' = blocked \/ blocked' = blocked \cup {p}
        BY <1>3, ReadTakenPlaces DEF ReadTaken
    <2>2. Owed' = Owed /\ (SettingUp' => SettingUp)
        BY <2>1, PidFacts DEF Owed, SettingUp
    <2>3. \A x \in Jobs : \/ place'[x] = place[x]
                          \/ place[x] \notin {"start", "starting"} /\ place'[x] \notin {"start", "starting"}
        BY <2>1, PidFacts
    <2>4. \A x \in Jobs : place[x] = "start" /\ x \notin blocked => x \notin blocked'
        BY <2>1
    <2> QED BY <1>1, <2>1, <2>2, <2>3, <2>4, StartQuiet
<1>4. ASSUME NEW p, NEW next, ReadGiven(p, next), next # "create", UNCHANGED <<command, newPids>>
      PROVE  Balanced'
    <2>1. /\ startSem' = startSem /\ p \in Procs /\ place[p] \in {"release", "give"}
          /\ next \in {"wait", "exit"}
        BY <1>4 DEF ReadGiven
    <2>2. PostedPlaces(p, readSem, readSem', ReadSleeps, next)
        BY <1>4, ReadGivenPlaces
    <2>3. /\ place'[p] = next /\ blocked' \subseteq blocked
          /\ \A x \in Procs : x # p => place'[x] = place[x] \/ (place[x] \in {"waiting", "asking"}
                                                               /\ place'[x] \in {"mode", "read"})
        BY <2>2 DEF PostedPlaces, ReadSleeps, Woken
    <2>4. Owed' = Owed /\ (SettingUp' => SettingUp)
        BY <1>4, <2>1, <2>3, PidFacts DEF Owed, SettingUp
    <2>5. \A x \in Jobs : \/ place'[x] = place[x]
                          \/ place[x] \notin {"start", "starting"} /\ place'[x] \notin {"start", "starting"}
        BY <2>1, <2>3, PidFacts
    <2> QED BY <1>1, <1>4, <2>1, <2>3, <2>4, <2>5, StartQuiet
<1>5. ASSUME LookAtMode \/ IdleLine \/ LostLine PROVE Balanced'
    <2>1. PICK w \in {"prompt", "watch", "release"} : place' = [place EXCEPT ![shellPid] = w]
        BY <1>5 DEF LookAtMode, IdleLine, LostLine
    <2>2. /\ UNCHANGED <<blocked, startSem, newPids, command>>
          /\ place[shellPid] \in {"mode", "prompt", "watch"}
        BY <1>5 DEF LookAtMode, IdleLine, LostLine, Runs
    <2>3. place'[shellPid] = w /\ \A x \in Jobs : place'[x] = place[x]
        BY <2>1, PidFacts, RunsFacts
    <2>4. Owed' = Owed /\ (SettingUp' => SettingUp)
        BY <2>2, <2>3 DEF Owed, SettingUp
    <2> QED BY <1>1, <2>2, <2>3, <2>4, StartQuiet
<1>6. ASSUME MapStdFds \/ setShellBackground \/ Promote PROVE Balanced'
    <2>1. PICK w \in {"post", "retreat", "promote"} : place' = [place EXCEPT ![shellPid] = w]
        BY <1>6 DEF MapStdFds, setShellBackground, Promote
    <2>2. /\ UNCHANGED <<blocked, startSem, newPids, command>>
          /\ place[shellPid] \in {"map", "retreat", "promote"}
        BY <1>6 DEF MapStdFds, setShellBackground, Promote, Runs
    <2>3. place'[shellPid] = w /\ \A x \in Jobs : place'[x] = place[x]
        BY <2>1, PidFacts, RunsFacts
    <2>4. Owed' = Owed /\ (SettingUp' => SettingUp)
        BY <2>2, <2>3 DEF Owed, SettingUp
    <2> QED BY <1>1, <2>2, <2>3, <2>4, StartQuiet
<1>7. ASSUME CreateFails PROVE FALSE
    BY <1>1, <1>7 DEF CreateFails
<1>8. ASSUME NEW p \in Procs, WakeUpStart(p) \/ WakeUpRead(p) PROVE FALSE
    BY <1>1, <1>8 DEF WakeUpStart, WakeUpRead, Runs, Asleep, Sleeps, ReadSleeps
<1>9. ASSUME NEW w, NEW to, NEW q, Killed(w, to, q), UNCHANGED <<command, newPids, startSem>>
      PROVE  Balanced'
    <2>1. /\ w \in Procs /\ place[w] \notin {"start", "starting"} \cup Setup
          /\ to \in {"release", "exit"} /\ (w # q => place'[w] = to)
          /\ \A x \in Procs : x # w /\ x # q => place'[x] = place[x]
        BY <1>9, PidFacts DEF Killed, Sleeps
    <2>2. q \in Jobs => place'[q] \in {"none", place[q], to} /\
                       (place'[q] # place[q] => place[q] \notin {"start", "starting"})
        <3>1. CASE Ended(q)
            <4>1. place'[q] = "none" /\ place[q] \notin {"start", "starting"}
                BY <1>1, <3>1 DEF Ended
            <4> QED BY <4>1
        <3>2. CASE ~Ended(q)
            <4>1. w # q /\ \A x \in Procs : x # w => place'[x] = place[x]
                BY <1>9, <3>2 DEF Killed
            <4> QED BY <4>1, PidFacts
        <3> QED BY <3>1, <3>2
    <2>3. blocked' \subseteq blocked
        BY <1>9 DEF Killed, Ended
    <2>4. \A x \in Jobs : \/ place'[x] = place[x]
                          \/ place[x] \notin {"start", "starting"} /\ place'[x] \notin {"start", "starting"}
        BY <2>1, <2>2, PidFacts
    <2>5. Owed' = Owed /\ (SettingUp' => SettingUp)
        <3>1. \/ place'[shellPid] = place[shellPid]
              \/ place[shellPid] \notin Setup /\ place'[shellPid] = "release"
            <4>1. CASE w = shellPid
                <5>1. w # q /\ to = "release"
                    BY <1>9, <4>1, PidFacts DEF Killed, Ended
                <5> QED BY <2>1, <4>1, <5>1
            <4>2. CASE w # shellPid /\ q # shellPid
                BY <2>1, <4>2, PidFacts
            <4>3. CASE w # shellPid /\ q = shellPid
                <5>1. ~Ended(q)
                    BY <4>3, PidFacts DEF Ended
                <5> QED BY <1>9, <4>3, <5>1, PidFacts DEF Killed
            <4> QED BY <4>1, <4>2, <4>3
        <3>2. CASE place'[shellPid] = place[shellPid]
            BY <1>9, <3>2 DEF Owed, SettingUp
        <3>3. CASE place[shellPid] \notin Setup /\ place'[shellPid] = "release"
            BY <1>9, <3>3 DEF Owed, SettingUp, Setup
        <3> QED BY <3>1, <3>2, <3>3
    <2> QED BY <1>1, <1>9, <2>3, <2>4, <2>5, StartQuiet
<1>10. ASSUME NEW p, NEW to, JobMoved(p, to), UNCHANGED <<command, newPids, startSem>> PROVE Balanced'
    <2>1. /\ p \in Jobs /\ p \in Procs /\ p # shellPid /\ place' = [place EXCEPT ![p] = to]
          /\ place[p] \in {"read", "body"} /\ to \in {"read", "give", "exit"}
        BY <1>10, PidFacts DEF JobMoved
    <2>2. /\ place'[p] = to /\ place'[shellPid] = place[shellPid]
          /\ \A x \in Jobs : x # p => place'[x] = place[x]
        BY <2>1, PidFacts, RunsFacts
    <2>3. \A x \in Jobs : \/ place'[x] = place[x]
                          \/ place[x] \notin {"start", "starting"} /\ place'[x] \notin {"start", "starting"}
        BY <2>1, <2>2
    <2>4. \A x \in Jobs : place[x] = "start" /\ x \notin blocked => x \notin blocked'
        BY <1>1, <1>10 DEF JobMoved
    <2>5. Owed' = Owed /\ (SettingUp' => SettingUp)
        BY <1>10, <2>2 DEF Owed, SettingUp
    <2> QED BY <1>1, <1>10, <2>3, <2>4, <2>5, StartQuiet
<1>11. CASE ShellNext
    BY <1>1, <1>3, <1>4, <1>5, <1>6, <1>7, <1>8, <1>9, <1>10, <1>11, StepCases,
       StartCommand, StartCreate, StartWait, StartPost
<1> QED BY <1>2, <1>11

---------------------------------------------------------------------------
LEMMA ShellInvInit == ShellInit => ShellInv
<1> SUFFICES ASSUME ShellInit PROVE ShellInv
    OBVIOUS
<1> USE DEF ShellInit
<1>1. /\ place \in [Procs -> Everywhere] /\ place[shellPid] = "wait"
      /\ \A x \in Jobs : place[x] = "none" /\ background[x] = "BACKGROUND"
      /\ background \in [Procs -> {"FOREGROUND", "BACKGROUND"}] /\ background[shellPid] = "FOREGROUND"
      /\ \A x \in Procs : place[x] \in {"wait", "none"}
    BY PidFacts DEF Everywhere, ShellPlaces, JobPlaces
<1>2. startSem \in Sem /\ readSem \in Sem /\ readSem.value = 1 /\ startSem.value = 0
      /\ readSem.queue = <<>> /\ startSem.queue = <<>>
    <2>1. 0 \in 0..(Word - 1) /\ 1 \in 0..(Word - 1) /\ <<>> \in Seq(Procs)
        BY PidFacts
    <2> QED BY <2>1 DEF Sem
<1>3. ToSet(<<>>) = {} /\ IsInjective(<<>>)
    BY DEF ToSet, IsInjective
<1>4. Placed
    BY <1>1 DEF Placed, Everywhere, ShellPlaces, JobPlaces
<1>5. Fresh
    <2>1. nextPid \in 2..(MaxJob + 1)
        BY ShellAssumption
    <2>2. ToSet(readSem.queue) \cup ToSet(startSem.queue) = {}
        BY <1>2, <1>3
    <2>3. \A p \in ToSet(readSem.queue) \cup ToSet(startSem.queue) : p < nextPid
        BY <2>2
    <2> QED BY <1>1, <2>1, <2>3 DEF Fresh
<1>6. Working
    <2>1. /\ command.kinds = <<"plain">> /\ command.back = FALSE
        BY DEF NoCommand
    <2>2. <<"plain">> \in Seq(Kinds) /\ Len(<<"plain">>) = 1
        BY DEF Kinds
    <2>3. newPids \in Seq(Jobs \cup {None}) /\ Len(newPids) = 0 /\ ToSet(newPids) = {}
        BY <1>3
    <2>4. Len(command.kinds) \in {1, 2} /\ Len(newPids) <= Len(command.kinds)
        BY <2>1, <2>2, <2>3
    <2>5. \A p \in ToSet(newPids) : p < nextPid
        BY <2>3
    <2> QED BY <1>1, <2>1, <2>2, <2>3, <2>4, <2>5 DEF Working
<1>7. Typed
    <2>1. NoJob \in [kind : Kinds, source : {"keyboard", "pipe"}, left : Jobs \cup {None}]
        BY DEF NoJob, Kinds
    <2> QED BY <1>1, <1>2, <1>4, <1>5, <1>6, <2>1 DEF Typed
<1>8. ReadInv
    <2>1. QueueOf(readSem, ReadSleeps) /\ QueueOf(startSem, {"starting"})
        BY <1>2, <1>3 DEF QueueOf
    <2>2. \A x \in Procs : place[x] \notin Sleeps
        BY <1>1 DEF Sleeps, ReadSleeps
    <2>3. Holders = {}
        BY <1>1 DEF Holders
    <2> HIDE DEF ShellInit
    <2>4. OneUnit
        BY <1>2, <2>3 DEF OneUnit
    <2> QED BY <2>1, <2>2, <2>4 DEF ReadInv, Asleep
<1>9. ConsoleInv
    BY <1>1 DEF ConsoleInv, InFront, ForeJobs
<1>10. StartInv
    <2>1. Waiters = {} /\ Owed = 0 /\ ~SettingUp
        BY <1>1 DEF Waiters, Owed, SettingUp
    <2>2. Cardinality(Waiters) = startSem.value + Owed
        BY <1>2, <2>1, FS_EmptySet
    <2> QED BY <1>1, <1>2, <1>3, <2>1, <2>2 DEF StartInv, Balanced
<1> QED BY <1>7, <1>8, <1>9, <1>10 DEF ShellInv

(* The shell and its jobs keep the invariant, whatever is typed, killed,   *)
(* blocked or unblocked, and whichever way they interleave.                *)
THEOREM ShellCorrect == ShellSpec => []ShellInv
<1>1. ShellInv /\ [ShellNext]_shellVars => ShellInv'
    BY TypedStep, ReadStep, ConsoleStep, StartStep DEF ShellInv
<1> QED BY ShellInvInit, <1>1, PTL DEF ShellSpec

(* The data of the shell stays well typed: in particular nobody dead is    *)
(* among the blocked, the pids given are free ones, and the values of      *)
(* START_PROC_SEM and SEM_READ never leave their words.                    *)
THEOREM ShellTypeCorrect == ShellSpec => []ShellTypeOK
<1>1. ShellInv => ShellTypeOK
    <2> SUFFICES ASSUME Typed PROVE ShellTypeOK
        BY DEF ShellInv
    <2>1. place \in [Procs -> {"none", "exit", "body", "read", "give", "start"} \cup Sleeps \cup
            {"wait", "mode", "prompt", "watch", "release", "create", "map", "retreat", "promote", "post"}]
        <3> DEFINE all == {"none", "exit", "body", "read", "give", "start"} \cup Sleeps \cup
            {"wait", "mode", "prompt", "watch", "release", "create", "map", "retreat", "promote", "post"}
        <3>1. Everywhere \subseteq all
            BY DEF Everywhere, ShellPlaces, JobPlaces, Sleeps, ReadSleeps
        <3> HIDE DEF all
        <3>2. place \in [Procs -> all]
            BY <3>1, RunsFacts
        <3> QED BY <3>2 DEF all
    <2>2. blocked \subseteq {p \in Procs : Exists(p)}
        BY RunsFacts DEF Exists
    <2>3. {startSem, readSem} \subseteq [value : 0..(Word - 1), queue : Seq(Procs)]
        BY RunsFacts DEF Sem
    <2> QED BY <2>1, <2>2, <2>3 DEF ShellTypeOK, Typed, Fresh, Working
<1> QED BY <1>1, ShellCorrect, PTL

(* No job runs before the shell has mapped its descriptors and given it    *)
(* the console: the posts on START_PROC_SEM that the shell still owes and  *)
(* the units in the semaphore are exactly as many as the jobs that wait.   *)
THEOREM StartsCorrect == ShellSpec => []StartsInPlace
<1>1. ShellInv => StartsInPlace
    <2> SUFFICES ASSUME ShellInv, SettingUp, trouble \cap {"early", "woken", "stopped"} = {},
                        NEW p \in ToSet(newPids)
                 PROVE  place[p] \in {"start", "starting"}
        BY DEF StartsInPlace
    <2>1. Waiters = ToSet(newPids)
        BY DEF ShellInv, StartInv, Balanced
    <2> QED BY <2>1 DEF Waiters
<1> QED BY <1>1, ShellCorrect, PTL

(* There is one process in the foreground, the shell or the one that       *)
(* control-C kills, after any sequence of setbackground and terminate.     *)
THEOREM ConsoleCorrect == ShellSpec => []ConsoleOwned
<1>1. ShellInv => ConsoleOwned
    <2> DEFINE fore == {p \in Procs : Exists(p) /\ background[p] = "FOREGROUND"}
    <2> SUFFICES ASSUME Typed, InFront, place[shellPid] # "promote"
                 PROVE  fore \in {{shellPid}, {forePid}}
        BY DEF ShellInv, ConsoleInv, ConsoleOwned
    <2>1. place[shellPid] # "none"
        BY RunsFacts DEF ShellPlaces
    <2>2. CASE background[shellPid] = "FOREGROUND"
        <3>1. ForeJobs = {}
            BY <2>2 DEF InFront
        <3>2. fore = {shellPid}
            BY <2>1, <2>2, <3>1, PidFacts DEF ForeJobs, Exists
        <3> QED BY <3>2
    <2>3. CASE background[shellPid] # "FOREGROUND"
        <3>1. background[shellPid] = "BACKGROUND"
            BY <2>3, PidFacts, RunsFacts
        <3>2. ForeJobs = {forePid}
            BY <3>1 DEF InFront
        <3>3. fore = ForeJobs
            BY <2>3, PidFacts DEF ForeJobs, Exists
        <3> QED BY <3>2, <3>3
    <2> QED BY <2>2, <2>3
<1> QED BY <1>1, ShellCorrect, PTL

(* Two processes never read the console at a time, unless one was woken    *)
(* while it slept in the queue of SEM_READ.                                *)
THEOREM ReadersCorrect == ShellSpec => []OneConsoleReader
<1>1. ShellInv => OneConsoleReader
    BY DEF ShellInv, ReadInv, OneUnit, OneConsoleReader
<1> QED BY <1>1, ShellCorrect, PTL

---------------------------------------------------------------------------
(* The run has one of the two programs and leaves the other one as it      *)
(* began, so it is a behaviour of both.                                    *)
UserlandSpec == UserInit /\ [][UserNext]_userVars

LEMMA ProgramsRun == UserlandSpec => PhiloSpec /\ ShellSpec
<1>1. UserInit => PhiloInit /\ ShellInit
    BY DEF UserInit
<1>2. [UserNext]_userVars => [PhiloNext]_philoVars /\ [ShellNext]_shellVars
    BY Zenon DEF UserNext, userVars, Phylo, Sh
<1> QED BY <1>1, <1>2, PTL DEF UserlandSpec, PhiloSpec, ShellSpec

(* UserTypeOK, whatever program runs: the data of both have their types,   *)
(* and the manager removes no semaphore a philosopher needs or sleeps in.  *)
THEOREM UserTypeCorrect == UserlandSpec => []UserTypeOK
<1>1. PhiloSpec => [](PhiloTypeOK /\ NoSleeperLeft)
    BY SleepersCorrect DEF PhiloSpec
<1>2. ShellSpec => []ShellTypeOK
    BY ShellTypeCorrect DEF ShellSpec
<1>3. PhiloTypeOK /\ NoSleeperLeft /\ ShellTypeOK => UserTypeOK
    BY DEF UserTypeOK
<1> QED BY <1>1, <1>2, <1>3, ProgramsRun, PTL

(* And what each program promises holds whichever runs: neighbours do not  *)
(* eat at the same time and who is hungry will be told; no job runs before *)
(* it is set up, one process is in the foreground and one reads.           *)
THEOREM UserCorrect ==
    UserlandSpec => [](/\ NeighboursApart /\ HungryIsTold
                       /\ StartsInPlace /\ ConsoleOwned /\ OneConsoleReader)
<1> QED BY NeighboursCorrect, HungryToldCorrect, StartsCorrect, ConsoleCorrect,
           ReadersCorrect, ProgramsRun, PTL DEF PhiloSpec, ShellSpec

==============================================================================
