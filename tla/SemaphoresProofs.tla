-------------------------- MODULE SemaphoresProofs --------------------------
(***************************************************************************)
(* Proofs about Semaphores, for every number of processes and semaphores.  *)
(*                                                                         *)
(* The first part says what an entry into the scheduler may do to the      *)
(* processes that do not run: which of them it may make ready and which it *)
(* may end.  The rest is about the semaphores themselves.                  *)
(***************************************************************************)
EXTENDS Semaphores, SchedulerProofs

(* From s to t no process but those of W was woken and none but those of V *)
(* ended; a pid is given once.                                             *)
Moved(s, t, W, V) ==
    /\ s.pid <= t.pid
    /\ \A q \in Pids : Alive(t, q) => Alive(s, q) \/ q >= s.pid
    /\ \A q \in Pids : Alive(s, q) => Alive(t, q) \/ q \in V
    /\ \A q \in ToSet(t.ready) : q \in ToSet(s.ready) \/ q \in W \/ ~Alive(s, q)

(* No process but the shell came to the foreground.                        *)
KeepsConsole(s, t) ==
    \A q \in Pids : q # 1 => t.pcb[q].background \in {s.pcb[q].background, "BACKGROUND"}

(* Pids are numbers.                                                       *)
LEMMA PidType ==
    ASSUME NEW s, Core(s)
    PROVE  /\ s.pid \in Int /\ s.pid <= s.pid
           /\ \A q \in Pids : q \in Int /\ (Alive(s, q) => q < s.pid)
<1>1. s.pid \in Int
    BY Constants1 DEF Core, KernelState
<1> QED BY <1>1, Constants1 DEF Core, Shape, Alive

(* A call that leaves the ready list alone.                                *)
LEMMA QuietMoved ==
    ASSUME NEW s, Core(s), NEW t, t.pid = s.pid, t.ready = s.ready,
           \A q \in Pids : Alive(t, q) <=> Alive(s, q), NEW W, NEW V
    PROVE  Moved(s, t, W, V)
BY PidType DEF Moved

(* One call after the other.                                               *)
LEMMA MovedChain ==
    ASSUME NEW s, Core(s), NEW t, Core(t), NEW u, Core(u), NEW W, NEW V,
           Moved(s, t, W, V), Moved(t, u, W, V)
    PROVE  Moved(s, u, W, V)
<1>1. /\ s.pid \in Int /\ t.pid \in Int /\ u.pid \in Int /\ \A q \in Pids : q \in Int
      /\ \A q \in Pids : Alive(s, q) => q < s.pid
    BY PidType
<1>2. s.pid <= t.pid /\ t.pid <= u.pid
    BY DEF Moved
<1>3. s.pid <= u.pid
    BY <1>1, <1>2
<1>4. ASSUME NEW q \in Pids, Alive(u, q), ~Alive(s, q) PROVE q >= s.pid
    <2>1. Alive(t, q) \/ q >= t.pid
        BY <1>4 DEF Moved
    <2>2. Alive(t, q) => q >= s.pid
        BY <1>4 DEF Moved
    <2> QED BY <1>1, <1>2, <2>1, <2>2
<1>5. ASSUME NEW q \in Pids, Alive(s, q), q \notin V PROVE Alive(u, q)
    BY <1>5 DEF Moved
<1>6. ASSUME NEW q \in ToSet(u.ready), q \notin W, Alive(s, q) PROVE q \in ToSet(s.ready)
    <2>1. q \in Pids /\ Alive(u, q)
        BY SearchFacts DEF Core, Shape, Alive
    <2>2. q < s.pid /\ ~(q >= t.pid)
        BY <1>1, <1>2, <1>6, <2>1
    <2>3. Alive(t, q)
        BY <2>1, <2>2 DEF Moved
    <2>4. q \in ToSet(t.ready)
        BY <1>6, <2>3 DEF Moved
    <2> QED BY <1>6, <2>4 DEF Moved
<1> QED BY <1>3, <1>4, <1>5, <1>6 DEF Moved

(* The lists and the console after a switch.                               *)
LEMMA SwitchLists ==
    ASSUME NEW s, Ready4Switch(s), ~MemoryCollision(s)
    PROVE  LET t == scheduler(s)
               c == Current(s.ready)
           IN  /\ t.pid = s.pid /\ ToSet(t.ready) \subseteq ToSet(s.ready)
               /\ \A q \in Pids : Alive(t, q) => Alive(s, q)
               /\ KeepsConsole(s, t)
               /\ s.ready # <<>> /\ s.pcb[c].state = "READY" =>
                        ToSet(t.ready) = ToSet(s.ready) /\ t.blocked = s.blocked
               /\ s.ready # <<>> /\ s.pcb[c].state = "BLOCKED" =>
                        /\ ToSet(t.ready) = ToSet(s.ready) \ {c}
                        /\ ToSet(t.blocked) = ToSet(s.blocked) \cup {c}
               /\ Len(s.ready) > 1 /\ s.pcb[c].state = "READY" /\ s.pcb[c].priorityCounter = 0 =>
                        t.cpu = s.ready[2]
<1> DEFINE l == Between(s)
           t == scheduler(s)
           c == Current(s.ready)
           h == Current(l.ready)
<1>1. /\ Core(l) /\ l.pid = s.pid
      /\ s.ready = <<>> => l.pcb = s.pcb /\ l.ready = <<>> /\ l.blocked = s.blocked
      /\ s.ready # <<>> =>
            /\ Left(s, l, c) /\ c \in ToSet(s.ready) /\ c \in Pids
            /\ s.pcb[c].state \in {"READY", "BLOCKED", "TERMINATED"}
      /\ Took(l, t, h)
    BY SwitchSteps
<1>2. /\ s.ready \in Seq(Pids) /\ IsInjective(s.ready)
      /\ \A q \in ToSet(s.ready) : q \in Pids /\ Alive(s, q)
    BY SearchFacts DEF Ready4Switch, Core, KernelState, Shape, Alive
<1>3. h = Head(l.ready)
    BY DEF Current
<1> HIDE DEF l, t, c, h
<1>4. t.pid = s.pid /\ t.ready = l.ready /\ t.blocked = l.blocked
    BY <1>1 DEF Took
<1>5. \A q \in Pids : /\ t.pcb[q].state = l.pcb[q].state
                      /\ t.pcb[q].background = l.pcb[q].background
    <2>1. CASE l.ready = <<>>
        BY <2>1, <1>1 DEF Took
    <2>2. CASE l.ready # <<>>
        BY <2>2, <1>1 DEF Took, OnlyPcb, SameProcess
    <2> QED BY <2>1, <2>2
<1>6. CASE s.ready = <<>>
    <2>1. l.pcb = s.pcb /\ l.ready = s.ready
        BY <1>1, <1>6
    <2>2. \A q \in Pids : Alive(t, q) => Alive(s, q)
        BY <1>5, <2>1 DEF Alive
    <2>3. KeepsConsole(s, t)
        BY <1>5, <2>1 DEF KeepsConsole
    <2>4. ~(Len(s.ready) > 1)
        BY <1>6
    <2> QED BY <1>4, <1>6, <2>1, <2>2, <2>3, <2>4 DEF t, c
<1>7. CASE s.ready # <<>>
    <2>1. /\ Left(s, l, c) /\ c \in ToSet(s.ready) /\ c \in Pids
          /\ s.pcb[c].state \in {"READY", "BLOCKED", "TERMINATED"}
        BY <1>1, <1>7
    <2>2. ToSet(Rotate(s.ready)) = ToSet(s.ready)
        BY <1>2, <1>7, RotateFacts
    <2>3. s.pcb[c].state = "READY" => ToSet(t.ready) = ToSet(s.ready) /\ t.blocked = s.blocked
        BY <1>4, <2>1, <2>2 DEF Left
    <2>4. s.pcb[c].state = "BLOCKED" => /\ ToSet(t.ready) = ToSet(s.ready) \ {c}
                                        /\ ToSet(t.blocked) = ToSet(s.blocked) \cup {c}
        BY <1>4, <2>1 DEF Left
    <2>5. s.pcb[c].state = "TERMINATED" => ToSet(t.ready) = ToSet(s.ready) \ {c}
        BY <1>4, <2>1 DEF Left
    <2>6. ToSet(t.ready) \subseteq ToSet(s.ready)
        BY <2>1, <2>3, <2>4, <2>5
    <2>7. \A q \in Pids : q # c => l.pcb[q] = s.pcb[q]
        BY <2>1 DEF Left, OnlyPcb
    <2>8. Alive(s, c)
        BY <1>2, <2>1
    <2>9. \A q \in Pids : Alive(t, q) => Alive(s, q)
        BY <1>5, <2>7, <2>8 DEF Alive
    <2>10. l.pcb[c].background \in {s.pcb[c].background, "BACKGROUND"}
        BY <2>1 DEF Left, SameProcess, Free
    <2>11. KeepsConsole(s, t)
        BY <1>5, <2>7, <2>10 DEF KeepsConsole
    <2>12. ASSUME Len(s.ready) > 1, s.pcb[c].state = "READY", s.pcb[c].priorityCounter = 0
           PROVE  t.cpu = s.ready[2]
        <3>1. l.ready = Rotate(s.ready)
            BY <2>1, <2>12 DEF Left
        <3>2. Rotate(s.ready) # <<>> /\ Head(Rotate(s.ready)) = s.ready[2]
            BY <1>2, <2>12, RotateHead
        <3>3. t.cpu = h
            BY <1>1, <3>1, <3>2 DEF Took
        <3> QED BY <1>3, <3>1, <3>2, <3>3
    <2> QED BY <1>4, <2>3, <2>4, <2>6, <2>9, <2>11, <2>12 DEF t, c
<1> QED BY <1>6, <1>7

---------------------------------------------------------------------------
(* One lemma for each function of the scheduler.                           *)

(* A timer tick wakes and ends nobody.                                     *)
LEMMA TickMoved ==
    ASSUME NEW s, IInv(s), NEW W, NEW V
    PROVE  Moved(s, scheduler(s), W, V) /\ KeepsConsole(s, scheduler(s))
<1>1. /\ Ready4Switch(s) /\ s \in KernelState /\ s.ready \in Seq(Pids) /\ s.haltRsp # NULL
      /\ Core(s)
    BY IInvSwitch, Constants1 DEF IInv, Core, KernelState, Own
<1>2. CASE MemoryCollision(s)
    <2> DEFINE t == [s EXCEPT !.up = FALSE]
    <2>1. scheduler(s) = t
        BY <1>1, <1>2 DEF scheduler
    <2>2. t.pcb = s.pcb /\ t.ready = s.ready /\ t.pid = s.pid
        BY <1>1 DEF KernelState
    <2> HIDE DEF t
    <2>3. \A q \in Pids : Alive(t, q) <=> Alive(s, q)
        BY <2>2 DEF Alive
    <2>4. Moved(s, t, W, V)
        BY <1>1, <2>2, <2>3, QuietMoved
    <2> QED BY <2>1, <2>2, <2>4 DEF KeepsConsole
<1>3. CASE ~MemoryCollision(s)
    <2> DEFINE t == scheduler(s)
    <2>1. /\ t.pid = s.pid /\ ToSet(t.ready) \subseteq ToSet(s.ready)
          /\ \A q \in Pids : Alive(t, q) => Alive(s, q)
          /\ KeepsConsole(s, t)
        BY <1>1, <1>3, SwitchLists
    <2>2. s.ready # <<>> => s.pcb[Current(s.ready)].state = "READY"
        <3>1. s.ready # <<>> => Current(s.ready) \in ToSet(s.ready) /\ Current(s.ready) # 0
            BY <1>1, ListFacts, Constants1 DEF Current
        <3> QED BY <3>1 DEF IInv, Agree, AgreeBut
    <2>3. \A q \in Pids : Alive(s, q) => Alive(t, q)
        BY <1>1, <1>3, <2>2, SwitchLive
    <2>4. s.pid <= t.pid
        BY <1>1, <2>1, PidType
    <2> HIDE DEF t
    <2> QED BY <2>1, <2>3, <2>4 DEF Moved, t
<1> QED BY <1>2, <1>3

(* Waking a process wakes that one.                                        *)
LEMMA WakeMoved ==
    ASSUME NEW s, IInv(s), NEW W, NEW V, NEW p \in Pids, p \in W
    PROVE  Moved(s, unblockProcess(s, p), W, V) /\ KeepsConsole(s, unblockProcess(s, p))
<1> DEFINE t == unblockProcess(s, p)
           none == 0
<1>1. Core(s) /\ AgreeBut(s, none) /\ none \notin ToSet(s.blocked) /\ p \in Int
    BY SearchFacts, Constants1 DEF IInv, Core, Agree
<1> HIDE DEF none
<1>2. /\ t.pid = s.pid /\ ToSet(t.ready) \subseteq ToSet(s.ready) \cup {p}
      /\ \A q \in Pids : t.pcb[q].background = s.pcb[q].background
    BY <1>1, UnblockFacts, ZenonT(60)
<1>3. SameQuanta(s, t)
    BY <1>1, UnblockQuanta
<1> HIDE DEF t
<1>4. \A q \in Pids : Alive(t, q) <=> Alive(s, q)
    BY <1>3 DEF SameQuanta
<1>5. s.pid <= t.pid
    BY <1>1, <1>2, PidType
<1> QED BY <1>2, <1>4, <1>5 DEF Moved, KeepsConsole, t

(* What yield does when the process on the CPU calls it: the next process  *)
(* of the ready list, if there is another one, gets the CPU.               *)
LEMMA YieldLists ==
    ASSUME NEW s, IInv(s), NEW p \in Pids, s.cpu = p
    PROVE  LET t == yield(s)
           IN  /\ t.pid = s.pid /\ ToSet(t.ready) = ToSet(s.ready) /\ t.blocked = s.blocked
               /\ \A q \in Pids : Alive(t, q) <=> Alive(s, q)
               /\ KeepsConsole(s, t)
               /\ Len(s.ready) > 1 => t.cpu = s.ready[2]
<1> DEFINE c == [s.pcb[p] EXCEPT !.priorityCounter = 0]
           u == [s EXCEPT !.pcb[p].priorityCounter = 0]
           t == scheduler(u)
<1>1. /\ s \in KernelState /\ Current(s.ready) = p /\ s.pcb[p] \in PCB
      /\ ~MemoryCollision(s) /\ s.ready # <<>> /\ s.pcb[p].state = "READY"
    BY RunningFacts
<1>2. yield(s) = t
    BY <1>1 DEF yield
<1>3. /\ c \in PCB /\ SameProcess(s.pcb[p], c) /\ c.rsp = s.pcb[p].rsp
      /\ c.priorityCounter = 0
    BY <1>1, Constants1, SMTT(40) DEF PCB, SameProcess
<1>4. u = [s EXCEPT !.pcb[p] = c]
    OBVIOUS
<1> HIDE DEF c, u
<1>5. /\ u \in KernelState /\ SameLists(s, u) /\ u.pcb[p] = c
      /\ \A q \in Pids : q # p => u.pcb[q] = s.pcb[q]
    BY <1>1, <1>3, <1>4, PcbUpdate
<1>6. \A q \in Pids : /\ u.pcb[q].state = s.pcb[q].state /\ u.pcb[q].rsp = s.pcb[q].rsp
                      /\ u.pcb[q].background = s.pcb[q].background
    BY <1>3, <1>5 DEF SameProcess
<1>7. Core(u) /\ Agree(u)
    BY <1>5, <1>6, SameNodes DEF IInv, Agree
<1>8. /\ OnCpu(u) /\ ~MemoryCollision(u) /\ u.ready = s.ready /\ u.blocked = s.blocked
      /\ u.pid = s.pid
    BY <1>1, <1>5 DEF IInv, OnCpu, MemoryCollision, SameLists
<1>9. Ready4Switch(u)
    BY <1>7, <1>8, IInvSwitch DEF IInv
<1>10. u.ready # <<>> /\ Current(u.ready) = p /\ u.pcb[p].state = "READY"
       /\ u.pcb[p].priorityCounter = 0
    BY <1>1, <1>3, <1>5, <1>6, <1>8
<1>11. /\ t.pid = u.pid /\ \A q \in Pids : Alive(t, q) => Alive(u, q)
       /\ KeepsConsole(u, t)
       /\ ToSet(t.ready) = ToSet(u.ready) /\ t.blocked = u.blocked
       /\ Len(u.ready) > 1 => t.cpu = u.ready[2]
    BY <1>8, <1>9, <1>10, SwitchLists
<1>12. \A q \in Pids : Alive(u, q) => Alive(t, q)
    BY <1>8, <1>9, <1>10, SwitchLive
<1> HIDE DEF t
<1>13. \A q \in Pids : Alive(t, q) <=> Alive(s, q)
    BY <1>6, <1>11, <1>12 DEF Alive
<1>14. KeepsConsole(s, t)
    BY <1>6, <1>11 DEF KeepsConsole
<1> QED BY <1>2, <1>8, <1>11, <1>13, <1>14

(* What blockProcess does when the process on the CPU blocks itself.       *)
LEMMA BlockSelfLists ==
    ASSUME NEW s, IInv(s), NEW p \in Pids, s.cpu = p
    PROVE  LET t == blockProcess(s, p)
           IN  /\ t.pid = s.pid /\ ToSet(t.ready) = ToSet(s.ready) \ {p}
               /\ ToSet(t.blocked) = ToSet(s.blocked) \cup {p}
               /\ \A q \in Pids : Alive(t, q) <=> Alive(s, q)
               /\ KeepsConsole(s, t)
<1> DEFINE u == [s EXCEPT !.pcb[p].state = "BLOCKED"]
           t == scheduler(u)
<1>1. /\ s \in KernelState /\ Current(s.ready) = p /\ s.ready # <<>> /\ Core(s)
      /\ s.pcb[p].state = "READY" /\ p \in ToSet(s.ready) /\ AgreeBut(s, p)
    BY RunningFacts DEF IInv
<1>2. blockProcess(s, p) = t
    BY <1>1 DEF blockProcess
<1>3. Ready4Switch(u) /\ ~MemoryCollision(u) /\ SameLists(s, u)
    BY MarkFacts
<1>4. SameQuanta(s, u) /\ u.pcb[p].state = "BLOCKED"
    <2>1. Alive(s, p) /\ "BLOCKED" \in States /\ "BLOCKED" # "FREE"
        BY <1>1 DEF Alive, States
    <2> QED BY <1>1, <2>1, MarkQuanta
<1>5. \A q \in Pids : u.pcb[q].background = s.pcb[q].background
    <2>1. p \in ToSet(s.ready) \cup ToSet(s.blocked) /\ "BLOCKED" \in States
        BY <1>1 DEF States
    <2> QED BY <1>1, <2>1, MarkAny
<1> HIDE DEF u
<1>6. /\ u.ready # <<>> /\ Current(u.ready) = p
      /\ u.ready = s.ready /\ u.blocked = s.blocked /\ u.pid = s.pid
    BY <1>1, <1>3 DEF SameLists
<1>7. /\ t.pid = u.pid /\ \A q \in Pids : Alive(t, q) => Alive(u, q)
      /\ KeepsConsole(u, t)
      /\ ToSet(t.ready) = ToSet(u.ready) \ {p}
      /\ ToSet(t.blocked) = ToSet(u.blocked) \cup {p}
    BY <1>3, <1>4, <1>6, SwitchLists
<1>8. \A q \in Pids : Alive(u, q) => Alive(t, q)
    BY <1>3, <1>4, <1>6, SwitchLive
<1> HIDE DEF t
<1>9. \A q \in Pids : Alive(t, q) <=> Alive(s, q)
    BY <1>4, <1>7, <1>8 DEF SameQuanta
<1>10. KeepsConsole(s, t)
    BY <1>5, <1>7 DEF KeepsConsole
<1> QED BY <1>2, <1>6, <1>7, <1>9, <1>10

(* Blocking a process, oneself or another.                                 *)
LEMMA BlockMoved ==
    ASSUME NEW s, IInv(s), NEW p \in Pids, s.cpu = p, NEW q \in Pids, NEW W, NEW V
    PROVE  Moved(s, blockProcess(s, q), W, V) /\ KeepsConsole(s, blockProcess(s, q))
<1>1. /\ s \in KernelState /\ Current(s.ready) = p /\ AgreeBut(s, q) /\ Core(s)
    BY RunningFacts DEF IInv
<1>2. CASE q = p
    <2> DEFINE t == blockProcess(s, p)
    <2>1. /\ t.pid = s.pid /\ ToSet(t.ready) = ToSet(s.ready) \ {p}
          /\ \A x \in Pids : Alive(t, x) <=> Alive(s, x)
          /\ KeepsConsole(s, t)
        BY BlockSelfLists
    <2>2. s.pid <= t.pid
        BY <1>1, <2>1, PidType
    <2> HIDE DEF t
    <2> QED BY <1>2, <2>1, <2>2 DEF Moved, t
<1>3. CASE q # p /\ q \in ToSet(s.ready)
    <2> DEFINE t == [s EXCEPT !.pcb[q].state = "BLOCKED"]
               u == removeBlocked(t, q)
    <2>1. blockProcess(s, q) = u
        BY <1>1, <1>3, SearchFacts DEF blockProcess
    <2>2. /\ Core(t) /\ SameLists(s, t)
          /\ \A x \in Pids : t.pcb[x].background = s.pcb[x].background
        <3>1. q \in ToSet(s.ready) \cup ToSet(s.blocked) /\ "BLOCKED" \in States
            BY <1>3 DEF States
        <3> QED BY <1>1, <3>1, MarkAny
    <2>3. SameQuanta(s, t)
        <3>1. Alive(s, q) /\ "BLOCKED" \in States /\ "BLOCKED" # "FREE"
            BY <1>1, <1>3 DEF Alive, States, Core, Shape
        <3> QED BY <1>1, <3>1, MarkQuanta
    <2> HIDE DEF t
    <2>4. t.ready = s.ready /\ t.pid = s.pid /\ q \in ToSet(t.ready)
        BY <1>3, <2>2 DEF SameLists
    <2>5. /\ OnlyPcb(t, u, q) /\ SameProcess(t.pcb[q], u.pcb[q])
          /\ ToSet(u.ready) = ToSet(t.ready) \ {q} /\ u.pid = t.pid
        BY <2>2, <2>4, RemoveBlockedPcb
    <2> HIDE DEF u
    <2>6. \A x \in Pids : Alive(u, x) <=> Alive(t, x)
        BY <2>5 DEF OnlyPcb, SameProcess, Alive
    <2>7. \A x \in Pids : Alive(u, x) <=> Alive(s, x)
        BY <2>3, <2>6 DEF SameQuanta
    <2>8. KeepsConsole(s, u)
        BY <2>2, <2>5 DEF KeepsConsole, OnlyPcb, SameProcess
    <2>9. s.pid <= u.pid
        BY <1>1, <2>4, <2>5, PidType
    <2> QED BY <2>1, <2>4, <2>5, <2>7, <2>8, <2>9 DEF Moved
<1>4. CASE q # p /\ q \notin ToSet(s.ready)
    <2>1. blockProcess(s, q) = s
        BY <1>1, <1>4, SearchFacts DEF blockProcess
    <2> QED BY <2>1, <1>1, QuietMoved DEF KeepsConsole
<1> QED BY <1>2, <1>3, <1>4

(* A process other than the shell has the console.                         *)
Foreground(s) == \E x \in Pids : x # 1 /\ s.pcb[x].background = "FOREGROUND"

(* When process q ends, the console goes back to the shell.                *)
HandsBack(s, q) == q # 1 /\ s.pcb[q].background = "FOREGROUND"

(* Ending a process wakes the shell, if that process had the console.      *)
LEMMA TerminateMoved ==
    ASSUME NEW s, IInv(s), NEW p \in Pids, s.cpu = p, NEW q \in Pids, NEW W, NEW V,
           q = 1 \/ q \in V, HandsBack(s, q) => 1 \in W
    PROVE  /\ Moved(s, terminateProcess(s, q), W, V)
           /\ KeepsConsole(s, terminateProcess(s, q))
<1>1. /\ s \in KernelState /\ Current(s.ready) = p /\ Core(s)
      /\ s.pcb[p].state = "READY" /\ p \in ToSet(s.ready) /\ AgreeBut(s, p)
    BY RunningFacts DEF IInv
<1>2. CASE terminateProcess(s, q) = s
    BY <1>1, <1>2, QuietMoved DEF KeepsConsole
<1>3. CASE q # 1 /\ q = p
    <2> DEFINE t == [s EXCEPT !.pcb[p].state = "TERMINATED"]
               u == HandBack(t, p)
               v == scheduler(u)
    <2>1. /\ terminateProcess(s, p) = v
          /\ Core(t) /\ Ready4Switch(u) /\ ~MemoryCollision(u)
          /\ u.ready # <<>> /\ Current(u.ready) = p /\ u.pid = s.pid
          /\ \A x \in Pids : x # 1 => u.pcb[x] = t.pcb[x]
          /\ s.pcb[p].background # "FOREGROUND" => u = t /\ u.ready = s.ready
        BY <1>3, EndSelfFacts
    <2>2. ToSet(u.ready) \subseteq ToSet(s.ready) \cup {1}
        BY <1>3, EndSelfFacts, Zenon
    <2>3. /\ SameQuanta(s, t)
          /\ \A x \in Pids : t.pcb[x].background = s.pcb[x].background
        <3>1. /\ Alive(s, p) /\ "TERMINATED" \in States /\ "TERMINATED" # "FREE"
              /\ p \in ToSet(s.ready) \cup ToSet(s.blocked)
            BY <1>1 DEF Alive, States
        <3> QED BY <1>1, <3>1, MarkQuanta, MarkAny
    <2> HIDE DEF t
    <2>4. SameQuanta(s, u)
        BY <2>1, <2>3, HandBackQuanta, QuantaChain
    <2> HIDE DEF u
    <2>5. \A x \in ToSet(u.ready) : x \in ToSet(s.ready) \/ x \in W
        <3>1. CASE s.pcb[p].background # "FOREGROUND"
            BY <2>1, <3>1
        <3>2. CASE s.pcb[p].background = "FOREGROUND"
            <4>1. HandsBack(s, q)
                BY <1>3, <3>2 DEF HandsBack
            <4> QED BY <2>2, <4>1
        <3> QED BY <3>1, <3>2
    <2>6. /\ v.pid = u.pid /\ ToSet(v.ready) \subseteq ToSet(u.ready)
          /\ \A x \in Pids : Alive(v, x) => Alive(u, x)
          /\ KeepsConsole(u, v)
        BY <2>1, SwitchLists
    <2>7. \A x \in Pids : Alive(u, x) /\ ~Alive(v, x) => x = p
        BY <2>1, SwitchLive
    <2> HIDE DEF v
    <2>8. KeepsConsole(s, v)
        BY <2>1, <2>3, <2>6 DEF KeepsConsole
    <2>9. s.pid <= v.pid
        BY <1>1, <2>1, <2>6, PidType
    <2>10. Moved(s, v, W, V)
        <3>1. \A x \in Pids : Alive(v, x) => Alive(s, x)
            BY <2>4, <2>6 DEF SameQuanta
        <3>2. \A x \in Pids : Alive(s, x) => Alive(v, x) \/ x \in V
            BY <1>3, <2>4, <2>7 DEF SameQuanta
        <3> QED BY <2>5, <2>6, <2>9, <3>1, <3>2 DEF Moved
    <2> QED BY <1>3, <2>1, <2>8, <2>10
<1>4. CASE q # 1 /\ q # p /\ q \in ToSet(s.ready) \cup ToSet(s.blocked)
    <2> DEFINE u == HandBack(s, q)
               v == terminateProcess(s, q)
               none == 0
    <2>1. /\ v.pcb[q] = Free /\ v.pid = s.pid
          /\ \A x \in Pids : x # q => v.pcb[x] = u.pcb[x]
        BY <1>4, EndOtherFacts
    <2>2. /\ \A x \in ToSet(v.ready) : x \in ToSet(s.ready) \/ x = 1
          /\ s.pcb[q].background # "FOREGROUND" => ToSet(v.ready) \subseteq ToSet(s.ready)
        BY <1>4, EndOtherFacts
    <2>3. SameQuanta(s, u)
        BY <1>1, HandBackQuanta
    <2>4. AgreeBut(s, none) /\ none \notin ToSet(s.blocked)
        BY <1>1, SearchFacts, Constants1 DEF IInv, Agree
    <2> HIDE DEF none
    <2>5. \A x \in Pids : x # 1 => u.pcb[x] = s.pcb[x]
        BY <1>1, <2>4, HandBackFacts
    <2> HIDE DEF u, v
    <2>6. \A x \in ToSet(v.ready) : x \in ToSet(s.ready) \/ x \in W
        <3>1. CASE s.pcb[q].background # "FOREGROUND"
            BY <2>2, <3>1
        <3>2. CASE s.pcb[q].background = "FOREGROUND"
            <4>1. HandsBack(s, q)
                BY <1>4, <3>2 DEF HandsBack
            <4> QED BY <2>2, <4>1
        <3> QED BY <3>1, <3>2
    <2>7. ~Alive(v, q) /\ v.pcb[q].background = "BACKGROUND"
        BY <2>1 DEF Alive, Free
    <2>8. \A x \in Pids : x # q => (Alive(v, x) <=> Alive(s, x))
        BY <2>1, <2>3 DEF Alive, SameQuanta
    <2>9. KeepsConsole(s, v)
        BY <2>1, <2>5, <2>7 DEF KeepsConsole
    <2>10. s.pid <= v.pid
        BY <1>1, <2>1, PidType
    <2>11. Moved(s, v, W, V)
        BY <1>4, <2>6, <2>7, <2>8, <2>10 DEF Moved
    <2> QED BY <2>9, <2>11 DEF v
<1>5. CASE q # 1 /\ q # p /\ q \notin ToSet(s.ready) \cup ToSet(s.blocked)
    <2>1. terminateProcess(s, q) = s
        BY <1>1, <1>5, SearchFacts DEF terminateProcess
    <2> QED BY <2>1, <1>2
<1>6. q = 1 => terminateProcess(s, q) = s
    BY DEF terminateProcess
<1> QED BY <1>2, <1>3, <1>4, <1>5, <1>6

(* A creation adds one process, in the background, and wakes nobody.       *)
LEMMA CreateMoved ==
    ASSUME NEW s, Core(s), Agree(s), s.pid <= MaxPid, NEW o \in Outcomes, NEW W, NEW V
    PROVE  Moved(s, processCreate(s, o), W, V) /\ KeepsConsole(s, processCreate(s, o))
<1> DEFINE t == processCreate(s, o)
           n == s.pid
<1>1. /\ t.pid \in {n, n + 1} /\ n \in Pids /\ s.pcb[n].state = "FREE"
      /\ \A q \in Pids : q # n => t.pcb[q] = s.pcb[q]
      /\ t.pcb[n] = s.pcb[n] \/ t.pcb[n].background = "BACKGROUND"
      /\ ToSet(t.ready) \subseteq ToSet(s.ready) \cup {n}
    BY CreateFacts
<1>2. n \in Int /\ n >= n
    BY PidType
<1> HIDE DEF t
<1>3. n <= t.pid
    BY <1>1, <1>2
<1>4. \A q \in Pids : Alive(t, q) => Alive(s, q) \/ q >= n
    BY <1>1, <1>2 DEF Alive
<1>5. \A q \in Pids : Alive(s, q) => Alive(t, q)
    BY <1>1 DEF Alive
<1>6. ~Alive(s, n)
    BY <1>1 DEF Alive
<1>7. KeepsConsole(s, t)
    BY <1>1 DEF KeepsConsole
<1> QED BY <1>1, <1>3, <1>4, <1>5, <1>6, <1>7 DEF Moved, t

(* Changing a priority or the console flag moves nobody.                   *)
LEMMA FlagsMoved ==
    ASSUME NEW s, Core(s), NEW p \in Int, NEW n \in 0..(Word - 1), NEW b \in Backgrounds,
           NEW W, NEW V
    PROVE  /\ Moved(s, changePriority(s, p, n), W, V)
           /\ KeepsConsole(s, changePriority(s, p, n))
           /\ Moved(s, setBackground(s, p, b), W, V)
           /\ p = 1 => KeepsConsole(s, setBackground(s, p, b))
<1> DEFINE t == changePriority(s, p, n)
           u == setBackground(s, p, b)
<1>1. /\ SameLists(s, t)
      /\ \A q \in Pids : t.pcb[q].background = s.pcb[q].background
    BY ChangePriorityFacts
<1>2. \A q \in Pids : Alive(t, q) <=> Alive(s, q)
    BY PriorityTimed
<1>3. SameLists(s, u) /\ \A q \in Pids : q # p => u.pcb[q] = s.pcb[q]
    BY SetBackgroundFacts
<1>4. \A q \in Pids : Alive(u, q) <=> Alive(s, q)
    BY SetBackgroundQuanta DEF SameQuanta
<1> HIDE DEF t, u
<1>5. t.pid = s.pid /\ t.ready = s.ready /\ u.pid = s.pid /\ u.ready = s.ready
    BY <1>1, <1>3 DEF SameLists
<1>6. Moved(s, t, W, V) /\ Moved(s, u, W, V)
    BY <1>2, <1>4, <1>5, QuietMoved
<1>7. KeepsConsole(s, t) /\ (p = 1 => KeepsConsole(s, u))
    BY <1>1, <1>3 DEF KeepsConsole
<1> QED BY <1>6, <1>7 DEF t, u

(* main, run again, wakes and ends nobody.                                 *)
LEMMA RestartMoved ==
    ASSUME NEW s, IInv(s), NEW p \in Pids, s.cpu = p, s.pid + 1 <= MaxPid,
           NEW h \in Outcomes, NEW o \in Outcomes, NEW W, NEW V
    PROVE  Moved(s, main(s, h, o), W, V)
<1> DEFINE t == processCreate(s, h)
           u == processCreate(t, o)
           shell == IF o = "ok" THEN t.pid ELSE -1
           v == changePriority(u, shell, HIGH)
           w == setBackground(v, shell, "FOREGROUND")
           m == main(s, h, o)
<1>1. s.pid \in Int /\ s.pid <= MaxPid /\ Core(s) /\ Agree(s)
    BY RunningFacts, Constants1 DEF KernelState, IInv
<1>2. m = [w EXCEPT !.cpu = Boot, !.idt0 = TRUE]
    BY DEF main
<1>3. /\ Core(t) /\ Agree(t) /\ t.pid \in {s.pid, s.pid + 1}
    BY <1>1, CreateFacts
<1>4. Moved(s, t, W, V)
    BY <1>1, CreateMoved
<1>5. t.pid \in Int /\ t.pid <= MaxPid
    BY <1>1, <1>3
<1> HIDE DEF t, m
<1>6. Core(u)
    BY <1>3, <1>5, CreateFacts
<1>7. Moved(t, u, W, V)
    BY <1>3, <1>5, CreateMoved
<1>8. shell \in Int
    BY <1>5
<1> HIDE DEF u, shell
<1>9. HIGH \in 0..(Word - 1) /\ "FOREGROUND" \in Backgrounds
    BY Constants1 DEF Backgrounds
<1>10. Core(v) /\ Moved(u, v, W, V)
    BY <1>6, <1>8, <1>9, ChangePriorityFacts, FlagsMoved
<1> HIDE DEF v
<1>11. Core(w) /\ Moved(v, w, W, V)
    BY <1>8, <1>9, <1>10, SetBackgroundFacts, FlagsMoved
<1> HIDE DEF w
<1>12. Moved(s, w, W, V)
    <2>1. Moved(s, u, W, V)
        BY <1>1, <1>3, <1>4, <1>6, <1>7, MovedChain
    <2>2. Moved(s, v, W, V)
        BY <1>1, <1>6, <1>10, <2>1, MovedChain
    <2> QED BY <1>1, <1>10, <1>11, <2>2, MovedChain
<1>13. m.pcb = w.pcb /\ m.ready = w.ready /\ m.pid = w.pid
    BY <1>2, <1>11 DEF Core, KernelState
<1>14. \A q \in Pids : Alive(m, q) <=> Alive(w, q)
    BY <1>13 DEF Alive
<1> QED BY <1>12, <1>13, <1>14 DEF Moved, m

(* An exception ends the process on the CPU, or runs main again.           *)
LEMMA ExceptionMoved ==
    ASSUME NEW s, IInv(s), NEW p \in Pids, s.cpu = p, p = 1 => s.pid + 1 <= MaxPid,
           NEW vector, NEW h \in Outcomes, NEW o \in Outcomes, NEW W, NEW V,
           p \in V, HandsBack(s, p) => 1 \in W
    PROVE  /\ Moved(s, exceptionDispatcher(s, vector, h, o), W, V)
           /\ p # 1 => KeepsConsole(s, exceptionDispatcher(s, vector, h, o))
<1>1. s \in KernelState /\ Current(s.ready) = p /\ Core(s)
    BY RunningFacts DEF IInv
<1>2. CASE vector = "divideByZero" /\ ~s.idt0
    <2> DEFINE t == [s EXCEPT !.up = FALSE]
    <2>1. exceptionDispatcher(s, vector, h, o) = t
        BY <1>2 DEF exceptionDispatcher
    <2>2. t.pcb = s.pcb /\ t.ready = s.ready /\ t.pid = s.pid
        BY <1>1 DEF KernelState
    <2> HIDE DEF t
    <2>3. \A q \in Pids : Alive(t, q) <=> Alive(s, q)
        BY <2>2 DEF Alive
    <2>4. Moved(s, t, W, V) /\ KeepsConsole(s, t)
        BY <1>1, <2>2, <2>3, QuietMoved DEF KeepsConsole
    <2> QED BY <2>1, <2>4
<1>3. CASE ~(vector = "divideByZero" /\ ~s.idt0) /\ p # 1
    <2>1. exceptionDispatcher(s, vector, h, o) = terminateProcess(s, p)
        BY <1>1, <1>3 DEF exceptionDispatcher
    <2> QED BY <2>1, TerminateMoved
<1>4. CASE ~(vector = "divideByZero" /\ ~s.idt0) /\ p = 1
    <2>1. exceptionDispatcher(s, vector, h, o) = main(s, h, o)
        BY <1>1, <1>4 DEF exceptionDispatcher
    <2> QED BY <2>1, <1>4, RestartMoved
<1> QED BY <1>2, <1>3, <1>4

(* Yielding wakes and ends nobody.                                         *)
LEMMA YieldMoved ==
    ASSUME NEW s, IInv(s), NEW p \in Pids, s.cpu = p, NEW W, NEW V
    PROVE  Moved(s, yield(s), W, V) /\ KeepsConsole(s, yield(s))
<1> DEFINE t == yield(s)
<1>1. /\ t.pid = s.pid /\ ToSet(t.ready) = ToSet(s.ready)
      /\ \A q \in Pids : Alive(t, q) <=> Alive(s, q)
      /\ KeepsConsole(s, t)
    BY YieldLists
<1>2. s.pid <= s.pid
    BY PidType DEF IInv
<1> HIDE DEF t
<1> QED BY <1>1, <1>2 DEF Moved, t

(* Only the shell is ever sent to the foreground.                          *)
ShellConsole == Consoles \subseteq {1} /\ 1 \notin Faulty

(* No process that may not be given the console, but the shell, came to    *)
(* the foreground.                                                         *)
KeepsFlags(s, t) ==
    \A q \in Pids \ (Consoles \cup {1}) :
        t.pcb[q].background \in {s.pcb[q].background, "BACKGROUND"}

(* KeepsFlags follows when nobody came to the foreground.                  *)
LEMMA KeepsBoth ==
    ASSUME NEW s, NEW t, KeepsConsole(s, t)
    PROVE  KeepsFlags(s, t)
BY DEF KeepsConsole, KeepsFlags

(* Every entry into the scheduler: who may be woken, and who may end.      *)
LEMMA NextMovedBy ==
    ASSUME IInv(k), [Next]_k, NEW W, NEW V, Readers \subseteq W, Third \subseteq W,
           Victims \ {1} \subseteq V, k.cpu \in V,
           \A q \in (Victims \cup {k.cpu}) \cap Pids : HandsBack(k, q) => 1 \in W
    PROVE  Moved(k, k', W, V) /\ (1 \notin Faulty => KeepsFlags(k, k'))
<1>1. CASE Tick
    BY <1>1, TickMoved, KeepsBoth DEF Tick
<1>2. CASE \E p \in Readers : KeyboardIrq(p)
    BY <1>2, WakeMoved, KeepsBoth, Constants1 DEF KeyboardIrq
<1>3. CASE SysYield
    BY <1>3, YieldMoved, KeepsBoth DEF SysYield, Running
<1>4. CASE SysExit
    BY <1>4, TerminateMoved, KeepsBoth DEF SysExit, Running
<1>5. CASE \E q \in Victims : SysKill(q)
    BY <1>5, TerminateMoved, KeepsBoth, Constants1 DEF SysKill, Running
<1>6. CASE \E q \in Pids : SysBlock(q)
    BY <1>6, BlockMoved, KeepsBoth DEF SysBlock, Running
<1>7. CASE \E q \in Third : SysUnblock(q)
    BY <1>7, WakeMoved, KeepsBoth, Constants1 DEF SysUnblock
<1>8. CASE \E q \in Pids, n \in Priorities : SysChangePriority(q, n)
    <2>1. PICK q \in Pids, n \in Priorities : k' = changePriority(k, q, n)
        BY <1>8 DEF SysChangePriority
    <2>2. /\ q \in Int /\ n \in 0..(Word - 1) /\ Core(k)
          /\ "BACKGROUND" \in Backgrounds
        BY Constants1 DEF IInv, Backgrounds
    <2> QED BY <2>1, <2>2, FlagsMoved, KeepsBoth
<1>9. CASE \E q \in Consoles, b \in Backgrounds : SysSetBackground(q, b)
    <2>1. PICK q \in Consoles, b \in Backgrounds : k' = setBackground(k, q, b)
        BY <1>9 DEF SysSetBackground
    <2>2. q \in Int /\ HIGH \in 0..(Word - 1) /\ Core(k)
        BY Constants1 DEF IInv
    <2>3. \A x \in Pids : x # q => k'.pcb[x] = k.pcb[x]
        BY <2>1, <2>2, SetBackgroundFacts
    <2>4. KeepsFlags(k, k')
        BY <2>3 DEF KeepsFlags
    <2> QED BY <2>1, <2>2, <2>4, FlagsMoved
<1>10. CASE \E outcome \in Outcomes : SysCreateProcess(outcome)
    BY <1>10, CreateMoved, KeepsBoth DEF SysCreateProcess, Running, IInv
<1>11. CASE \E vector \in Vectors, h \in Outcomes, o \in Outcomes : Exception(vector, h, o)
    <2>1. PICK vector \in Vectors, h \in Outcomes, o \in Outcomes, p \in Faulty :
            /\ k.cpu = p /\ (p = 1 => k.pid + 1 <= MaxPid)
            /\ k' = exceptionDispatcher(k, vector, h, o)
        BY <1>11 DEF Exception, Running
    <2>2. p \in Pids /\ p \in V /\ (1 \notin Faulty => p # 1)
        BY <2>1, Constants1
    <2> QED BY <2>1, <2>2, ExceptionMoved, KeepsBoth
<1>12. CASE UNCHANGED k
    BY <1>12, QuietMoved DEF KeepsFlags, IInv
<1> QED
    BY <1>1, <1>2, <1>3, <1>4, <1>5, <1>6, <1>7, <1>8, <1>9, <1>10, <1>11, <1>12 DEF Next

(* The same, with only the question whether a process other than the shell *)
(* has the console.                                                        *)
LEMMA NextMoved ==
    ASSUME IInv(k), [Next]_k, NEW W, NEW V, Readers \subseteq W, Third \subseteq W,
           Victims \subseteq V, k.cpu \in V, Foreground(k) => 1 \in W
    PROVE  Moved(k, k', W, V) /\ (ShellConsole => KeepsConsole(k, k'))
<1>1. \A q \in (Victims \cup {k.cpu}) \cap Pids : HandsBack(k, q) => 1 \in W
    BY DEF HandsBack, Foreground
<1>2. Moved(k, k', W, V) /\ (1 \notin Faulty => KeepsFlags(k, k'))
    BY <1>1, NextMovedBy
<1>3. ASSUME ShellConsole PROVE KeepsConsole(k, k')
    <2>1. 1 \notin Faulty /\ Pids \ (Consoles \cup {1}) = Pids \ {1}
        BY <1>3 DEF ShellConsole
    <2> QED BY <1>2, <2>1 DEF KeepsFlags, KeepsConsole
<1> QED BY <1>2, <1>3

---------------------------------------------------------------------------
(* From s to t no process but those of B was blocked.                      *)
Stays(s, t, B) ==
    \A q \in ToSet(s.ready) : q \in B \/ ~Alive(t, q) \/ q \in ToSet(t.ready)

(* A live process is in the list its state says.                           *)
LEMMA StateLists ==
    ASSUME NEW s, IInv(s)
    PROVE  /\ s.ready \in Seq(Pids) /\ ToSet(s.ready) \subseteq Pids /\ ToSet(s.blocked) \subseteq Pids
           /\ \A q \in Pids : /\ q \in ToSet(s.ready) <=> s.pcb[q].state = "READY"
                              /\ q \in ToSet(s.blocked) <=> s.pcb[q].state = "BLOCKED"
                              /\ Alive(s, q) <=> q \in ToSet(s.ready) \/ q \in ToSet(s.blocked)
                              /\ ~(q \in ToSet(s.ready) /\ q \in ToSet(s.blocked))
<1>1. /\ s \in KernelState /\ s.ready \in Seq(Pids)
      /\ ToSet(s.ready) \subseteq Pids /\ ToSet(s.blocked) \subseteq Pids
      /\ 0 \notin Pids
    BY SearchFacts, Constants1 DEF IInv, Core, KernelState
<1>2. \A q \in Pids : Alive(s, q) <=> q \in ToSet(s.ready) \/ q \in ToSet(s.blocked)
    BY DEF IInv, Core, Shape, Alive
<1>3. \A q \in Pids : q \in ToSet(s.ready) => s.pcb[q].state = "READY"
    BY <1>1 DEF IInv, Agree, AgreeBut
<1>4. \A q \in Pids : q \in ToSet(s.blocked) => s.pcb[q].state = "BLOCKED"
    BY <1>1 DEF IInv, Agree, AgreeBut
<1> QED BY <1>1, <1>2, <1>3, <1>4 DEF Alive

(* A call that keeps the states of the processes that are ready.           *)
LEMMA StatesStay ==
    ASSUME NEW s, IInv(s), NEW t, IInv(t), NEW B,
           \A q \in Pids \ B : s.pcb[q].state = "READY" => t.pcb[q].state \in {"READY", "FREE"}
    PROVE  Stays(s, t, B)
BY StateLists DEF Stays, Alive

(* A timer tick blocks nobody.                                             *)
LEMMA TickStays ==
    ASSUME NEW s, IInv(s), NEW B
    PROVE  Stays(s, scheduler(s), B)
<1>1. /\ Ready4Switch(s) /\ s \in KernelState /\ s.haltRsp # NULL
    BY IInvSwitch, Constants1 DEF IInv, Core, KernelState, Own
<1>2. CASE MemoryCollision(s)
    <2> DEFINE t == [s EXCEPT !.up = FALSE]
    <2>1. scheduler(s) = t
        BY <1>1, <1>2 DEF scheduler
    <2>2. t.ready = s.ready
        BY <1>1 DEF KernelState
    <2> QED BY <2>1, <2>2 DEF Stays
<1>3. CASE ~MemoryCollision(s) /\ s.ready # <<>>
    <2>1. Current(s.ready) \in ToSet(s.ready) /\ Current(s.ready) \in Pids
        BY <1>3, StateLists, ListFacts DEF Current
    <2>2. s.pcb[Current(s.ready)].state = "READY"
        BY <2>1, StateLists
    <2>3. ToSet(scheduler(s).ready) = ToSet(s.ready)
        BY <1>1, <1>3, <2>2, SwitchLists
    <2> QED BY <2>3 DEF Stays
<1>4. CASE s.ready = <<>>
    <2>1. ToSet(s.ready) = {}
        BY <1>4 DEF ToSet
    <2> QED BY <2>1 DEF Stays
<1> QED BY <1>2, <1>3, <1>4

(* Ending a process blocks nobody.                                         *)
LEMMA TerminateStays ==
    ASSUME NEW s, IInv(s), NEW p \in Pids, s.cpu = p, NEW q \in Pids, NEW B, p \in B
    PROVE  Stays(s, terminateProcess(s, q), B)
<1>1. /\ s \in KernelState /\ Current(s.ready) = p /\ Core(s)
      /\ p \in ToSet(s.ready) /\ AgreeBut(s, p) /\ p \notin ToSet(s.blocked)
    BY RunningFacts DEF IInv
<1>2. CASE terminateProcess(s, q) = s
    BY <1>2 DEF Stays
<1>3. CASE q # 1 /\ q = p
    <2> DEFINE t == [s EXCEPT !.pcb[p].state = "TERMINATED"]
               u == HandBack(t, p)
               v == scheduler(u)
    <2>0. p # 1
        BY <1>3
    <2>1. /\ terminateProcess(s, p) = v
          /\ Core(t) /\ Ready4Switch(u) /\ ~MemoryCollision(u)
          /\ u.ready # <<>> /\ Current(u.ready) = p
        BY <2>0, EndSelfFacts
    <2>2. SameLists(s, t) /\ AgreeBut(t, p)
        <3>1. p \in ToSet(s.ready) \cup ToSet(s.blocked) /\ "TERMINATED" \in States
              /\ "TERMINATED" # "FREE"
            BY <1>1 DEF States
        <3> QED BY <1>1, <3>1, MarkAny
    <2>3. t.ready = s.ready /\ p \notin ToSet(t.blocked)
        BY <1>1, <2>2 DEF SameLists
    <2> HIDE DEF t
    <2>4. ToSet(s.ready) \subseteq ToSet(u.ready)
        BY <2>1, <2>2, <2>3, HandBackFacts
    <2> HIDE DEF u
    <2>5. \A x \in ToSet(u.ready) : x # p => x \in ToSet(v.ready)
        BY <2>1, SwitchLive
    <2> HIDE DEF v
    <2> QED BY <1>3, <2>1, <2>4, <2>5 DEF Stays
<1>4. CASE q # 1 /\ q # p /\ q \in ToSet(s.ready) \cup ToSet(s.blocked)
    <2> DEFINE u == HandBack(s, q)
               v == terminateProcess(s, q)
               none == 0
    <2>1. /\ IInv(v) /\ v.pcb[q] = Free /\ Core(u)
          /\ \A x \in Pids : x # q => v.pcb[x] = u.pcb[x]
        BY <1>4, EndOtherFacts
    <2>2. AgreeBut(s, none) /\ none \notin ToSet(s.blocked) /\ none \notin Pids
        BY <1>1, SearchFacts, Constants1 DEF IInv, Agree
    <2> HIDE DEF none
    <2>3. ToSet(s.ready) \subseteq ToSet(u.ready) /\ AgreeBut(u, none)
        BY <1>1, <2>2, HandBackFacts
    <2>4. \A x \in Pids : x \in ToSet(s.ready) => u.pcb[x].state = "READY"
        BY <2>2, <2>3 DEF AgreeBut
    <2> HIDE DEF u, v
    <2>5. \A x \in Pids : x \in ToSet(s.ready) => v.pcb[x].state \in {"READY", "FREE"}
        BY <2>1, <2>4 DEF Free
    <2>6. \A x \in Pids \ B : s.pcb[x].state = "READY" => v.pcb[x].state \in {"READY", "FREE"}
        BY <2>5, StateLists
    <2> QED BY <2>1, <2>6, StatesStay DEF v
<1>5. CASE q # 1 /\ q # p /\ q \notin ToSet(s.ready) \cup ToSet(s.blocked)
    <2>1. terminateProcess(s, q) = s
        BY <1>1, <1>5, SearchFacts DEF terminateProcess
    <2> QED BY <2>1, <1>2
<1>6. q = 1 => terminateProcess(s, q) = s
    BY DEF terminateProcess
<1> QED BY <1>2, <1>3, <1>4, <1>5, <1>6

(* Every entry into the scheduler: who may be blocked.                     *)
LEMMA NextStays ==
    ASSUME IInv(k), [Next]_k, 1 \notin Faulty, NEW B, k.cpu \in B, Third \subseteq B
    PROVE  Stays(k, k', B)
<1>0. IInv(k') /\ Core(k)
    BY NextIInv DEF IInv
<1>1. CASE Tick
    BY <1>1, TickStays DEF Tick
<1>2. CASE \E p \in Readers \cup Third : k' = unblockProcess(k, p)
    <2>1. PICK p \in Readers \cup Third : k' = unblockProcess(k, p)
        BY <1>2
    <2> DEFINE none == 0
    <2>2. p \in Int /\ AgreeBut(k, none) /\ none \notin ToSet(k.blocked)
        BY SearchFacts, Constants1 DEF IInv, Core, Agree
    <2> HIDE DEF none
    <2>3. ToSet(k.ready) \subseteq ToSet(k'.ready)
        BY <1>0, <2>1, <2>2, UnblockFacts
    <2> QED BY <2>3 DEF Stays
<1>3. CASE SysYield
    <2>1. ToSet(k'.ready) = ToSet(k.ready)
        BY <1>3, YieldLists DEF SysYield, Running
    <2> QED BY <2>1 DEF Stays
<1>4. CASE \E p, q \in Pids : k.cpu = p /\ k' = terminateProcess(k, q)
    BY <1>4, TerminateStays
<1>5. CASE \E q \in Pids : SysBlock(q)
    <2>1. PICK q \in Pids, p \in Pids : k.cpu = p /\ (q = p \/ q \in Third) /\ k' = blockProcess(k, q)
        BY <1>5 DEF SysBlock, Running
    <2>2. /\ k \in KernelState /\ Current(k.ready) = p /\ AgreeBut(k, q)
        BY <2>1, RunningFacts
    <2>3. CASE q = p
        <3>1. ToSet(k'.ready) = ToSet(k.ready) \ {p}
            BY <2>1, <2>3, BlockSelfLists
        <3> QED BY <2>1, <3>1 DEF Stays
    <2>4. CASE q # p /\ q \in ToSet(k.ready)
        <3> DEFINE t == [k EXCEPT !.pcb[q].state = "BLOCKED"]
        <3>1. k' = removeBlocked(t, q)
            BY <2>1, <2>2, <2>4, SearchFacts DEF blockProcess
        <3>2. Core(t) /\ SameLists(k, t)
            <4>1. q \in ToSet(k.ready) \cup ToSet(k.blocked) /\ "BLOCKED" \in States
                BY <2>4 DEF States
            <4> QED BY <1>0, <2>2, <4>1, MarkAny
        <3>3. t.ready = k.ready
            BY <3>2 DEF SameLists
        <3> HIDE DEF t
        <3>4. ToSet(k'.ready) = ToSet(k.ready) \ {q}
            BY <2>4, <3>1, <3>2, <3>3, RemoveBlockedPcb
        <3>5. q \in B
            BY <2>1, <2>4
        <3> QED BY <3>4, <3>5 DEF Stays
    <2>5. CASE q # p /\ q \notin ToSet(k.ready)
        <3>1. k' = k
            BY <2>1, <2>2, <2>5, SearchFacts DEF blockProcess
        <3> QED BY <3>1 DEF Stays
    <2> QED BY <2>3, <2>4, <2>5
<1>6. CASE SameLists(k, k')
    BY <1>6 DEF Stays, SameLists
<1>7. CASE \E q \in Pids, n \in Priorities : SysChangePriority(q, n)
    <2>1. PICK q \in Pids, n \in Priorities : k' = changePriority(k, q, n)
        BY <1>7 DEF SysChangePriority
    <2>2. q \in Int /\ n \in 0..(Word - 1)
        BY Constants1
    <2> QED BY <1>0, <1>6, <2>1, <2>2, ChangePriorityFacts
<1>8. CASE \E q \in Consoles, b \in Backgrounds : SysSetBackground(q, b)
    <2>1. PICK q \in Consoles, b \in Backgrounds : k' = setBackground(k, q, b)
        BY <1>8 DEF SysSetBackground
    <2>2. q \in Int
        BY Constants1
    <2> QED BY <1>0, <1>6, <2>1, <2>2, SetBackgroundFacts
<1>9. CASE \E outcome \in Outcomes : SysCreateProcess(outcome)
    <2>1. PICK o \in Outcomes : k.pid <= MaxPid /\ k' = processCreate(k, o)
        BY <1>9 DEF SysCreateProcess
    <2>2. /\ k.pcb[k.pid].state = "FREE"
          /\ \A q \in Pids : q # k.pid => k'.pcb[q] = k.pcb[q]
        BY <1>0, <2>1, CreateFacts DEF IInv
    <2>3. \A q \in Pids \ B : k.pcb[q].state = "READY" => k'.pcb[q].state \in {"READY", "FREE"}
        BY <2>2
    <2> QED BY <1>0, <2>3, StatesStay
<1>10. CASE \E vector \in Vectors, h \in Outcomes, o \in Outcomes : Exception(vector, h, o)
    <2>1. PICK vector \in Vectors, h \in Outcomes, o \in Outcomes, p \in Faulty :
            k.cpu = p /\ k' = exceptionDispatcher(k, vector, h, o)
        BY <1>10 DEF Exception, Running
    <2>2. p \in Pids /\ p # 1 /\ k \in KernelState
        BY <2>1, Constants1 DEF IInv, Core
    <2>3. Current(k.ready) = p
        BY <2>1, <2>2, RunningFacts
    <2>4. CASE vector = "divideByZero" /\ ~k.idt0
        <3>1. k' = [k EXCEPT !.up = FALSE]
            BY <2>1, <2>4 DEF exceptionDispatcher
        <3>2. k'.ready = k.ready
            BY <2>2, <3>1 DEF KernelState
        <3> QED BY <3>2 DEF Stays
    <2>5. CASE ~(vector = "divideByZero" /\ ~k.idt0)
        <3>1. k' = terminateProcess(k, p)
            BY <2>1, <2>2, <2>3, <2>5 DEF exceptionDispatcher
        <3> QED BY <1>4, <2>1, <2>2, <3>1
    <2> QED BY <2>4, <2>5
<1>11. CASE UNCHANGED k
    BY <1>11 DEF Stays
<1> QED
    <2>1. (\E p \in Readers : KeyboardIrq(p)) => \E p \in Readers \cup Third : k' = unblockProcess(k, p)
        BY DEF KeyboardIrq
    <2>2. (\E q \in Third : SysUnblock(q)) => \E p \in Readers \cup Third : k' = unblockProcess(k, p)
        BY DEF SysUnblock
    <2>3. SysExit => \E p, q \in Pids : k.cpu = p /\ k' = terminateProcess(k, q)
        BY DEF SysExit, Running
    <2>4. (\E q \in Victims : SysKill(q)) => \E p, q \in Pids : k.cpu = p /\ k' = terminateProcess(k, q)
        BY Constants1 DEF SysKill, Running
    <2> QED BY <1>1, <1>2, <1>3, <1>4, <1>5, <1>7, <1>8, <1>9, <1>10, <1>11,
               <2>1, <2>2, <2>3, <2>4 DEF Next

---------------------------------------------------------------------------
(* The queues of a semaphore.                                              *)

(* Popping the first process of a queue.                                   *)
LEMMA PopFacts ==
    ASSUME NEW S, NEW s \in Seq(S), IsInjective(s), s # <<>>
    PROVE  /\ Tail(s) \in Seq(S) /\ IsInjective(Tail(s))
           /\ \A q : q \in ToSet(Tail(s)) <=> q \in ToSet(s) /\ q # Head(s)
<1> DEFINE t == Tail(s)
<1>1. /\ Len(s) \in Nat /\ Len(s) > 0 /\ DOMAIN s = 1..Len(s) /\ Head(s) = s[1]
      /\ t \in Seq(S) /\ Len(t) = Len(s) - 1 /\ DOMAIN t = 1..(Len(s) - 1)
      /\ \A i \in 1..(Len(s) - 1) : t[i] = s[i + 1]
    OBVIOUS
<1> HIDE DEF t
<1>2. \A i, j \in 1..Len(s) : s[i] = s[j] => i = j
    BY <1>1 DEF IsInjective
<1>3. \A i \in 1..(Len(s) - 1) : i \in 1..Len(s) /\ i + 1 \in 1..Len(s) /\ i + 1 # 1
    BY <1>1
<1>4. IsInjective(t)
    <2>1. ASSUME NEW i \in 1..(Len(s) - 1), NEW j \in 1..(Len(s) - 1), t[i] = t[j] PROVE i = j
        <3>1. i + 1 = j + 1
            BY <1>1, <1>2, <1>3, <2>1
        <3> QED BY <3>1
    <2> QED BY <1>1, <2>1 DEF IsInjective
<1>5. ASSUME NEW q, q \in ToSet(t) PROVE q \in ToSet(s) /\ q # Head(s)
    <2>1. PICK i \in 1..(Len(s) - 1) : t[i] = q
        BY <1>1, <1>5 DEF ToSet
    <2>2. s[i + 1] = q /\ 1 \in 1..Len(s)
        BY <1>1, <2>1
    <2> QED BY <1>1, <1>2, <1>3, <2>2 DEF ToSet
<1>6. ASSUME NEW q, q \in ToSet(s), q # Head(s) PROVE q \in ToSet(t)
    <2>1. PICK i \in 1..Len(s) : s[i] = q
        BY <1>1, <1>6 DEF ToSet
    <2>2. i # 1 /\ i - 1 \in 1..(Len(s) - 1) /\ (i - 1) + 1 = i
        BY <1>1, <1>6, <2>1
    <2>3. t[i - 1] = q
        BY <1>1, <2>1, <2>2
    <2> QED BY <1>1, <2>2, <2>3 DEF ToSet
<1> QED BY <1>1, <1>4, <1>5, <1>6 DEF t

(* A woken process is the second of the ready list.                        *)
LEMMA AddNextSecond ==
    ASSUME NEW S, NEW s \in Seq(S), s # <<>>, NEW p \in S
    PROVE  Len(AddNext(s, p)) > 1 /\ AddNext(s, p)[2] = p
BY DEF AddNext, InsertAt

(* Queueing a process at the end of a queue it is not in, or not at all.   *)
LEMMA EnqueueFacts ==
    ASSUME NEW s \in Seq(Pids), IsInjective(s), NEW p \in Pids, NEW b \in BOOLEAN,
           NEW a \in BOOLEAN, p \notin ToSet(s) \/ b
    PROVE  LET r == addToProcessQueue(s, p, b, a)
           IN  /\ r \in Seq(Pids) /\ IsInjective(r)
               /\ \A q \in ToSet(s) : q \in ToSet(r)
               /\ \A q \in ToSet(r) : q \in ToSet(s) \/ q = p
               /\ a => p \in ToSet(r)
<1>1. Contains(s, p) <=> p \in ToSet(s)
    BY ListFacts
<1>2. CASE (b /\ Contains(s, p)) \/ ~a
    <2>1. addToProcessQueue(s, p, b, a) = s
        BY <1>2 DEF addToProcessQueue
    <2> QED BY <1>1, <1>2, <2>1
<1>3. CASE ~((b /\ Contains(s, p)) \/ ~a)
    <2>1. addToProcessQueue(s, p, b, a) = AddLast(s, p)
        BY <1>3 DEF addToProcessQueue, AddLast
    <2>2. p \notin ToSet(s)
        BY <1>1, <1>3
    <2>3. /\ AddLast(s, p) \in Seq(Pids) /\ IsInjective(AddLast(s, p))
          /\ ToSet(AddLast(s, p)) = ToSet(s) \cup {p}
        BY <2>2, AddLastFacts
    <2> HIDE DEF AddLast
    <2> QED BY <2>1, <2>3
<1> QED BY <1>2, <1>3

(* Taking a process out of a queue.                                        *)
LEMMA DequeueFacts ==
    ASSUME NEW s \in Seq(Pids), IsInjective(s), NEW p
    PROVE  LET r == removeFromQueue(s, p)
           IN  /\ r \in Seq(Pids) /\ IsInjective(r)
               /\ \A q : q \in ToSet(r) <=> q \in ToSet(s) /\ q # p
<1>1. Contains(s, p) <=> p \in ToSet(s)
    BY ListFacts
<1>2. CASE Contains(s, p)
    <2>1. removeFromQueue(s, p) = Unlink(s, p)
        BY <1>2 DEF removeFromQueue
    <2>2. /\ Unlink(s, p) \in Seq(Pids) /\ IsInjective(Unlink(s, p))
          /\ ToSet(Unlink(s, p)) = ToSet(s) \ {p}
        BY <1>1, <1>2, UnlinkFacts
    <2> QED BY <2>1, <2>2
<1>3. CASE ~Contains(s, p)
    BY <1>1, <1>3 DEF removeFromQueue
<1> QED BY <1>2, <1>3

(* The empty queue.                                                        *)
LEMMA EmptyQueue ==
    <<>> \in Seq(Pids) /\ IsInjective(<<>>) /\ \A q : q \notin ToSet(<<>>)
BY DEF IsInjective, ToSet

---------------------------------------------------------------------------
(* h was woken, and is the next process to run.                            *)
Woken(s, u, h) ==
    /\ u.cpu = s.cpu /\ u.pid = s.pid /\ IInv(u) /\ Len(u.ready) > 1 /\ u.ready[2] = h
    /\ \A q \in Pids : u.pcb[q].background = s.pcb[q].background
    /\ \A q \in Pids : Alive(u, q) <=> Alive(s, q)
    /\ \A q \in ToSet(s.blocked) : q \in ToSet(u.blocked) \/ q = h
    /\ \A q \in ToSet(u.ready) : q \in ToSet(s.ready) \/ q = h

(* Waking a process that is blocked puts it behind the current one.        *)
LEMMA WokenLists ==
    ASSUME NEW s, IInv(s), s.ready # <<>>, NEW h \in Pids, h \in ToSet(s.blocked)
    PROVE  Woken(s, unblockProcess(s, h), h)
<1> DEFINE u == unblockProcess(s, h)
           none == 0
<1>1. /\ Core(s) /\ s \in KernelState /\ s.ready \in Seq(Pids) /\ h \in Int
      /\ ToSet(s.ready) \cap ToSet(s.blocked) = {}
    BY Constants1 DEF IInv, Core, KernelState, Shape
<1>2. AgreeBut(s, none) /\ none \notin ToSet(s.blocked)
    BY <1>1, SearchFacts, Constants1 DEF IInv, Agree
<1>3. u.ready = AddNext(s.ready, h)
    BY <1>1, SearchFacts DEF unblockProcess, KernelState
<1> HIDE DEF none
<1>4. /\ u.cpu = s.cpu /\ u.pid = s.pid
      /\ \A q \in Pids : u.pcb[q].background = s.pcb[q].background
      /\ ToSet(u.ready) \cup ToSet(u.blocked) = ToSet(s.ready) \cup ToSet(s.blocked)
      /\ ToSet(u.ready) \subseteq ToSet(s.ready) \cup {h}
    BY <1>1, <1>2, UnblockFacts, ZenonT(60)
<1>5. IInv(u)
    BY WakeFacts
<1>6. \A q \in Pids : Alive(u, q) <=> Alive(s, q)
    BY <1>1, UnblockQuanta DEF SameQuanta
<1> HIDE DEF u
<1>7. Len(u.ready) > 1 /\ u.ready[2] = h
    BY <1>1, <1>3, AddNextSecond
<1>8. \A q \in ToSet(s.blocked) : q \in ToSet(u.blocked) \/ q = h
    BY <1>1, <1>4
<1>9. \A q \in ToSet(u.ready) : q \in ToSet(s.ready) \/ q = h
    BY <1>4
<1> QED BY <1>4, <1>5, <1>6, <1>7, <1>8, <1>9 DEF Woken, u

(* What semPost does to the kernel: the process woken, if it was blocked,  *)
(* has the CPU when semPost is over, and nobody else was woken.            *)
LEMMA PostLists ==
    ASSUME NEW s, IInv(s), NEW p \in Pids, s.cpu = p, NEW queue \in Seq(Pids)
    PROVE  LET t == yield(wakeup(s, queue))
               h == Head(queue)
           IN  /\ IInv(t) /\ t.pid = s.pid /\ KeepsConsole(s, t)
               /\ \A q \in Pids : Alive(t, q) <=> Alive(s, q)
               /\ \A q \in ToSet(t.ready) :
                        q \in ToSet(s.ready) \/ (queue # <<>> /\ q = h /\ q \in ToSet(s.blocked))
               /\ \A q \in ToSet(s.blocked) : q \in ToSet(t.blocked) \/ (queue # <<>> /\ q = h)
               /\ queue # <<>> /\ h \in ToSet(s.blocked) => t.cpu = h
<1> DEFINE u == wakeup(s, queue)
           t == yield(u)
           h == Head(queue)
<1>1. /\ s \in KernelState /\ s.ready # <<>> /\ s.ready \in Seq(Pids) /\ Core(s)
      /\ ToSet(s.ready) \cap ToSet(s.blocked) = {}
    BY RunningFacts DEF KernelState, IInv, Core, Shape
<1>2. CASE queue = <<>>
    <2>1. u = s
        BY <1>2 DEF wakeup
    <2>2. IInv(t)
        BY <2>1, YieldFacts
    <2>3. /\ t.pid = s.pid /\ ToSet(t.ready) = ToSet(s.ready) /\ t.blocked = s.blocked
          /\ \A q \in Pids : Alive(t, q) <=> Alive(s, q)
          /\ KeepsConsole(s, t)
        BY <2>1, YieldLists
    <2> HIDE DEF t
    <2> QED BY <1>2, <2>2, <2>3 DEF t
<1>3. CASE queue # <<>> /\ h \notin ToSet(s.blocked)
    <2>1. u = s
        BY <1>1, <1>3, SearchFacts DEF wakeup, unblockProcess
    <2>2. IInv(t)
        BY <2>1, YieldFacts
    <2>3. /\ t.pid = s.pid /\ ToSet(t.ready) = ToSet(s.ready) /\ t.blocked = s.blocked
          /\ \A q \in Pids : Alive(t, q) <=> Alive(s, q)
          /\ KeepsConsole(s, t)
        BY <2>1, YieldLists
    <2> HIDE DEF t
    <2> QED BY <1>3, <2>2, <2>3 DEF t
<1>4. CASE queue # <<>> /\ h \in ToSet(s.blocked)
    <2>1. h \in Pids
        BY <1>4
    <2>2. u = unblockProcess(s, h)
        BY <1>4 DEF wakeup
    <2> HIDE DEF u, h
    <2>3. Woken(s, u, h)
        BY <1>1, <1>4, <2>1, <2>2, WokenLists
    <2>4. u.cpu = p
        BY <2>3 DEF Woken
    <2>5. IInv(t)
        BY <2>3, <2>4, YieldFacts DEF Woken
    <2>6. /\ t.pid = u.pid /\ ToSet(t.ready) = ToSet(u.ready) /\ t.blocked = u.blocked
          /\ \A q \in Pids : Alive(t, q) <=> Alive(u, q)
          /\ KeepsConsole(u, t) /\ t.cpu = h
        BY <2>3, <2>4, YieldLists DEF Woken
    <2> HIDE DEF t
    <2>7. KeepsConsole(s, t)
        BY <2>3, <2>6 DEF Woken, KeepsConsole
    <2> QED BY <1>4, <2>3, <2>5, <2>6, <2>7 DEF Woken, t, u, h
<1> QED BY <1>2, <1>3, <1>4

---------------------------------------------------------------------------
(* The semaphores.  The state every step keeps, whatever the constants.    *)
SemState ==
    /\ IInv(k)
    /\ sems \in [SemIds -> semaphore]
    /\ frame \in [Pids -> SemIds \cup {User, Dangling}]
    /\ \A id \in SemIds : /\ ~sems[id].lock
                          /\ sems[id].exists \/ sems[id] = NoSemaphore
                          /\ IsInjective(sems[id].activeQueue)
    /\ \A p \in Pids : frame[p] \in SemIds => sems[frame[p]].exists

(* Only semaphore id changes, and to what.                                 *)
Became(id, e, v, a, b) ==
    /\ sems' \in [SemIds -> semaphore]
    /\ \A j \in SemIds : j # id => sems'[j] = sems[j]
    /\ sems'[id].exists = e /\ sems'[id].value = v /\ sems'[id].lock = FALSE
    /\ sems'[id].activeQueue = a /\ sems'[id].blockedQueue = b

(* The caller p of a system call runs user code.                           *)
Caller(p) == k.cpu = p /\ frame[p] = User

(* Semaphore ids are not the marks User and Dangling.                      *)
LEMMA SemConstants ==
    /\ User \notin SemIds /\ Dangling \notin SemIds /\ User # Dangling
    /\ MaxValue \in Nat /\ Word \in Nat /\ MaxValue < Word - 1 /\ 0 \in 0..(Word - 1)
    /\ \A v \in Values : v \in 0..(Word - 1)
    /\ Sleepers \subseteq Pids /\ Allocations \subseteq BOOLEAN
BY SemaphoresAssumption, SchedulerAssumption DEF User, Dangling, HIGH

(* A semaphore in terms of its fields.                                     *)
LEMMA SemFields ==
    ASSUME sems \in [SemIds -> semaphore], NEW id \in SemIds
    PROVE  /\ sems[id] \in semaphore /\ sems[id].exists \in BOOLEAN
           /\ sems[id].value \in 0..(Word - 1) /\ sems[id].value \in Int
           /\ sems[id].value >= 0
           /\ sems[id].activeQueue \in Seq(Pids) /\ sems[id].blockedQueue \in Seq(Pids)
BY SemConstants DEF semaphore

(* Replacing one semaphore.                                                *)
LEMMA SemUpdate ==
    ASSUME sems \in [SemIds -> semaphore], NEW id \in SemIds, NEW c \in semaphore,
           ~c.lock, sems' = [sems EXCEPT ![id] = c]
    PROVE  Became(id, c.exists, c.value, c.activeQueue, c.blockedQueue) /\ sems'[id] = c
BY DEF Became, semaphore

(* semOpen of an id nobody has opened.                                     *)
LEMMA OpenNewFacts ==
    ASSUME SemState, NEW p \in Pids, NEW id \in SemIds, NEW v \in Values,
           NEW a \in Allocations, semOpenNew(p, id, v, a)
    PROVE  /\ Caller(p) /\ sems[id] = NoSemaphore /\ k' = k /\ frame' = frame
           /\ Became(id, TRUE, v, addToProcessQueue(<<>>, p, TRUE, a), <<>>)
           /\ IsInjective(addToProcessQueue(<<>>, p, TRUE, a))
<1> DEFINE q == addToProcessQueue(<<>>, p, TRUE, a)
           c == [exists |-> TRUE, value |-> v, lock |-> FALSE, blockedQueue |-> <<>>,
                 activeQueue |-> q]
<1>1. /\ Caller(p) /\ k' = k /\ frame' = frame /\ sems[id] = NoSemaphore
      /\ sems' = [sems EXCEPT ![id] = release(c)]
    BY DEF semOpenNew, InUser, Running, searchSemaphore, Caller, SemState
<1>2. q \in Seq(Pids) /\ IsInjective(q)
    <2>1. a \in BOOLEAN /\ TRUE \in BOOLEAN
        BY SemConstants
    <2> QED BY <2>1, EmptyQueue, EnqueueFacts
<1> HIDE DEF q
<1> DEFINE d == release(c)
<1>3. /\ d \in semaphore /\ ~d.lock /\ d.exists = TRUE /\ d.value = v /\ d.activeQueue = q
      /\ d.blockedQueue = <<>>
    <2>1. c \in semaphore
        BY <1>2, SemConstants DEF semaphore
    <2> QED BY <1>2, <2>1, SemConstants DEF semaphore, release
<1> HIDE DEF c, d
<1>4. sems' = [sems EXCEPT ![id] = d]
    BY <1>1 DEF d
<1>5. Became(id, d.exists, d.value, d.activeQueue, d.blockedQueue)
    BY <1>3, <1>4, SemUpdate DEF SemState
<1> QED BY <1>1, <1>2, <1>3, <1>5 DEF q

(* semOpen of an open semaphore.                                           *)
LEMMA OpenExistingFacts ==
    ASSUME SemState, NEW p \in Pids, NEW id \in SemIds, NEW a \in Allocations,
           semOpenExisting(p, id, a)
    PROVE  LET q == addToProcessQueue(sems[id].activeQueue, p, TRUE, a)
           IN  /\ Caller(p) /\ sems[id].exists = TRUE /\ k' = k /\ frame' = frame
               /\ Became(id, TRUE, sems[id].value, q, sems[id].blockedQueue)
               /\ IsInjective(q) /\ \A x \in ToSet(sems[id].activeQueue) : x \in ToSet(q)
<1> DEFINE q == addToProcessQueue(sems[id].activeQueue, p, TRUE, a)
           c == [sems[id] EXCEPT !.activeQueue = q]
<1>1. /\ sems[id] \in semaphore /\ sems[id].activeQueue \in Seq(Pids)
      /\ IsInjective(sems[id].activeQueue) /\ ~sems[id].lock
    BY SemFields DEF SemState
<1>2. /\ Caller(p) /\ sems[id].exists = TRUE /\ k' = k /\ frame' = frame
      /\ sems' = [sems EXCEPT ![id] = c]
    BY <1>1 DEF semOpenExisting, InUser, Running, searchSemaphore, Caller, SemState, semaphore
<1>3. /\ q \in Seq(Pids) /\ IsInjective(q)
      /\ \A x \in ToSet(sems[id].activeQueue) : x \in ToSet(q)
    <2>1. a \in BOOLEAN /\ TRUE \in BOOLEAN
        BY SemConstants
    <2> QED BY <1>1, <2>1, EnqueueFacts
<1> HIDE DEF q
<1>4. c \in semaphore /\ ~c.lock /\ c.exists = sems[id].exists /\ c.value = sems[id].value
      /\ c.activeQueue = q /\ c.blockedQueue = sems[id].blockedQueue
    BY <1>1, <1>3 DEF semaphore
<1> HIDE DEF c
<1>5. Became(id, c.exists, c.value, c.activeQueue, c.blockedQueue)
    BY <1>2, <1>4, SemUpdate DEF SemState
<1> QED BY <1>2, <1>3, <1>4, <1>5 DEF q

(* A small number fits a size_t.                                           *)
LEMMA ModSmall ==
    ASSUME NEW n \in Int, n >= 0, n < Word
    PROVE  n % Word = n /\ n \in 0..(Word - 1)
BY SchedulerAssumption DEF HIGH

(* With the lock free, taking and releasing it leaves no trace: changing   *)
(* the value, the blocked queue, or both.                                  *)
LEMMA ValueFacts ==
    ASSUME NEW c \in semaphore, ~c.lock, NEW v \in 0..(Word - 1)
    PROVE  LET d == release(SetValue(acquire(c), v))
           IN  /\ d \in semaphore /\ ~d.lock /\ d.exists = c.exists /\ d.value = v
               /\ d.activeQueue = c.activeQueue /\ d.blockedQueue = c.blockedQueue
BY DEF release, acquire, SetValue, SetBlockedQueue, semaphore

(* The sleeper is queued after the lock was released.                      *)
LEMMA QueueFacts ==
    ASSUME NEW c \in semaphore, ~c.lock, NEW q \in Seq(Pids)
    PROVE  LET d == SetBlockedQueue(release(acquire(c)), q)
           IN  /\ d \in semaphore /\ ~d.lock /\ d.exists = c.exists /\ d.value = c.value
               /\ d.activeQueue = c.activeQueue /\ d.blockedQueue = q
BY DEF release, acquire, SetValue, SetBlockedQueue, semaphore

(* The first sleeper is popped while the lock is held.                     *)
LEMMA BothFacts ==
    ASSUME NEW c \in semaphore, ~c.lock, NEW v \in 0..(Word - 1), NEW q \in Seq(Pids)
    PROVE  LET d == release(SetBlockedQueue(SetValue(acquire(c), v), q))
           IN  /\ d \in semaphore /\ ~d.lock /\ d.exists = c.exists /\ d.value = v
               /\ d.activeQueue = c.activeQueue /\ d.blockedQueue = q
BY DEF release, acquire, SetValue, SetBlockedQueue, semaphore

(* semWait: the unit is taken at once, or the caller sleeps.               *)
LEMMA WaitFacts ==
    ASSUME SemState, NEW p \in Pids, NEW id \in SemIds, NEW a \in Allocations,
           semWait(p, id, a)
    PROVE  LET c == sems[id]
               q == addToProcessQueue(c.blockedQueue, p, FALSE, a)
           IN  /\ Caller(p) /\ c.exists = TRUE
               /\ OpenBeforeWait => p \in ToSet(c.activeQueue)
               /\ \/ /\ c.value > 0 /\ k' = k /\ frame' = frame
                     /\ Became(id, TRUE, c.value - 1, c.activeQueue, c.blockedQueue)
                  \/ /\ c.value = 0 /\ k' = blockProcess(k, p)
                     /\ frame' = [frame EXCEPT ![p] = id]
                     /\ Became(id, TRUE, 0, c.activeQueue, q)
<1> DEFINE c == sems[id]
           q == addToProcessQueue(c.blockedQueue, p, FALSE, a)
           d == release(SetValue(acquire(c), c.value - 1))
           e == SetBlockedQueue(release(acquire(c)), q)
<1>1. /\ c \in semaphore /\ c.activeQueue \in Seq(Pids) /\ c.blockedQueue \in Seq(Pids)
      /\ c.value \in 0..(Word - 1) /\ c.value >= 0 /\ c.value \in Int /\ ~c.lock
    BY SemFields DEF SemState
<1>2. /\ Caller(p) /\ c.exists = TRUE
    BY <1>1 DEF semWait, InUser, Running, searchSemaphore, Caller, semaphore
<1>3. OpenBeforeWait => p \in ToSet(c.activeQueue)
    BY <1>1, ListFacts DEF semWait
<1>4. q \in Seq(Pids)
    BY <1>1 DEF addToProcessQueue
<1>5. CASE c.value > 0
    <2>1. sems' = [sems EXCEPT ![id] = d] /\ k' = k /\ frame' = frame
        BY <1>1, <1>5 DEF semWait, OrSpin
    <2>2. c.value - 1 \in 0..(Word - 1)
        BY <1>1, <1>5, SemConstants
    <2>3. /\ d \in semaphore /\ ~d.lock /\ d.exists = c.exists /\ d.value = c.value - 1
          /\ d.activeQueue = c.activeQueue /\ d.blockedQueue = c.blockedQueue
        BY <1>1, <2>2, ValueFacts
    <2> HIDE DEF d, c
    <2>4. Became(id, d.exists, d.value, d.activeQueue, d.blockedQueue)
        BY <2>1, <2>3, SemUpdate DEF SemState
    <2> QED BY <1>2, <1>3, <1>5, <2>1, <2>3, <2>4 DEF c
<1>6. CASE ~(c.value > 0)
    <2>1. sems' = [sems EXCEPT ![id] = e] /\ k' = blockProcess(k, p)
          /\ frame' = [frame EXCEPT ![p] = id]
        BY <1>1, <1>6 DEF semWait, OrSpin
    <2>2. c.value = 0
        BY <1>1, <1>6
    <2> HIDE DEF q
    <2>3. /\ e \in semaphore /\ ~e.lock /\ e.exists = c.exists /\ e.value = c.value
          /\ e.activeQueue = c.activeQueue /\ e.blockedQueue = q
        BY <1>1, <1>4, QueueFacts
    <2> HIDE DEF e, c
    <2>4. Became(id, e.exists, e.value, e.activeQueue, e.blockedQueue)
        BY <2>1, <2>3, SemUpdate DEF SemState
    <2> QED BY <1>2, <1>3, <2>1, <2>2, <2>3, <2>4 DEF c, q
<1> QED BY <1>5, <1>6

(* A sleeper that runs again takes its unit.                               *)
LEMMA SemWakeFacts ==
    ASSUME SemState, NEW p \in Pids, SemWake(p)
    PROVE  LET id == frame[p]
               c == sems[id]
           IN  /\ k.cpu = p /\ id \in SemIds /\ k' = k /\ frame' = [frame EXCEPT ![p] = User]
               /\ Became(id, TRUE, (c.value - 1) % Word, c.activeQueue, c.blockedQueue)
<1> DEFINE id == frame[p]
           c == sems[id]
           v == (c.value - 1) % Word
           d == release(SetValue(acquire(c), v))
<1>1. k.cpu = p /\ id \in SemIds /\ frame' = [frame EXCEPT ![p] = User]
    BY DEF SemWake, Running
<1>2. c \in semaphore /\ ~c.lock /\ c.value \in Int /\ c.exists = TRUE
    BY <1>1, SemFields DEF SemState
<1>3. sems' = [sems EXCEPT ![id] = d] /\ k' = k
    BY <1>2 DEF SemWake, OrSpin
<1> HIDE DEF id, c
<1>4. /\ d \in semaphore /\ ~d.lock /\ d.exists = c.exists /\ d.value = v
      /\ d.activeQueue = c.activeQueue /\ d.blockedQueue = c.blockedQueue
    <2>1. v \in 0..(Word - 1)
        BY <1>2, ModFact
    <2> HIDE DEF v
    <2> QED BY <1>2, <2>1, ValueFacts
<1> HIDE DEF d, v
<1>5. Became(id, d.exists, d.value, d.activeQueue, d.blockedQueue)
    BY <1>1, <1>3, <1>4, SemUpdate DEF SemState
<1> QED BY <1>1, <1>2, <1>3, <1>4, <1>5 DEF c, v, id

(* semPost.                                                                *)
LEMMA PostFacts ==
    ASSUME SemState, NEW p \in Pids, NEW id \in SemIds, semPost(p, id)
    PROVE  LET c == sems[id]
           IN  /\ Caller(p) /\ c.exists = TRUE /\ frame' = frame
               /\ k' = yield(wakeup(k, c.blockedQueue))
               /\ Became(id, TRUE, c.value + 1, c.activeQueue, popBlockedQueue(c.blockedQueue))
<1> DEFINE c == sems[id]
           v == c.value + 1
           b == popBlockedQueue(c.blockedQueue)
           d == release(SetBlockedQueue(SetValue(acquire(c), v % Word), b))
<1>1. /\ c \in semaphore /\ c.value \in Int /\ c.value >= 0 /\ ~c.lock
      /\ c.blockedQueue \in Seq(Pids)
    BY SemFields DEF SemState
<1>2. Caller(p) /\ c.exists = TRUE /\ frame' = frame /\ c.value < MaxValue
    BY <1>1 DEF semPost, InUser, Running, searchSemaphore, Caller, semaphore
<1>3. sems' = [sems EXCEPT ![id] = d] /\ k' = yield(wakeup(k, c.blockedQueue))
    BY <1>1 DEF semPost, OrSpin
<1>4. v % Word = v /\ v \in 0..(Word - 1) /\ b \in Seq(Pids)
    <2> HIDE DEF c
    <2>1. v \in Int /\ v >= 0 /\ v < Word
        BY <1>1, <1>2, SemConstants
    <2>2. b \in Seq(Pids)
        BY <1>1 DEF popBlockedQueue
    <2> HIDE DEF v
    <2> QED BY <2>1, <2>2, ModSmall
<1> HIDE DEF v, b
<1>5. /\ d \in semaphore /\ ~d.lock /\ d.exists = c.exists /\ d.value = v
      /\ d.activeQueue = c.activeQueue /\ d.blockedQueue = b
    BY <1>1, <1>4, BothFacts
<1> HIDE DEF d, c
<1>6. Became(id, d.exists, d.value, d.activeQueue, d.blockedQueue)
    BY <1>3, <1>5, SemUpdate DEF SemState
<1> QED BY <1>2, <1>3, <1>4, <1>5, <1>6 DEF c, v, b

(* semClose: the semaphore lives on, or the last one out frees it.         *)
LEMMA CloseFacts ==
    ASSUME SemState, NEW p \in Pids, NEW id \in SemIds, semClose(p, id)
    PROVE  LET c == sems[id]
               q == removeFromQueue(c.activeQueue, p)
           IN  /\ Caller(p) /\ c.exists = TRUE /\ k' = k
               /\ IsInjective(q) /\ \A x : x \in ToSet(q) <=> x \in ToSet(c.activeQueue) /\ x # p
               /\ \/ /\ q # <<>> /\ frame' = frame
                     /\ Became(id, TRUE, c.value, q, c.blockedQueue)
                  \/ /\ q = <<>>
                     /\ frame' = [x \in Pids |-> IF frame[x] = id THEN Dangling ELSE frame[x]]
                     /\ Became(id, FALSE, 0, <<>>, <<>>) /\ sems'[id] = NoSemaphore
<1> DEFINE c == sems[id]
           q == removeFromQueue(c.activeQueue, p)
           d == [c EXCEPT !.activeQueue = q]
<1>1. /\ c \in semaphore /\ c.activeQueue \in Seq(Pids) /\ IsInjective(c.activeQueue) /\ ~c.lock
    BY SemFields DEF SemState
<1>2. Caller(p) /\ c.exists = TRUE /\ k' = k
    BY <1>1 DEF semClose, InUser, Running, searchSemaphore, Caller, semaphore
<1>3. /\ q \in Seq(Pids) /\ IsInjective(q)
      /\ \A x : x \in ToSet(q) <=> x \in ToSet(c.activeQueue) /\ x # p
    BY <1>1, DequeueFacts
<1>4. /\ sems' = [sems EXCEPT ![id] = IF q = <<>> THEN NoSemaphore ELSE d]
      /\ frame' = [x \in Pids |-> IF q = <<>> /\ x \in Asleep(id) THEN Dangling ELSE frame[x]]
    BY DEF semClose
<1> HIDE DEF q
<1>5. CASE q # <<>>
    <2>1. frame' = frame
        BY <1>4, <1>5 DEF SemState
    <2>2. sems' = [sems EXCEPT ![id] = d]
        BY <1>4, <1>5
    <2>3. /\ d \in semaphore /\ ~d.lock /\ d.exists = c.exists /\ d.value = c.value
          /\ d.activeQueue = q /\ d.blockedQueue = c.blockedQueue
        BY <1>1, <1>3 DEF semaphore
    <2> HIDE DEF d, c
    <2>4. Became(id, d.exists, d.value, d.activeQueue, d.blockedQueue)
        BY <2>2, <2>3, SemUpdate DEF SemState
    <2> QED BY <1>2, <1>3, <1>5, <2>1, <2>3, <2>4 DEF c, q
<1>6. CASE q = <<>>
    <2>1. frame' = [x \in Pids |-> IF frame[x] = id THEN Dangling ELSE frame[x]]
        BY <1>4, <1>6 DEF Asleep
    <2> DEFINE n == NoSemaphore
    <2>2. sems' = [sems EXCEPT ![id] = n]
        BY <1>4, <1>6
    <2>3. /\ n \in semaphore /\ ~n.lock /\ n.exists = FALSE /\ n.value = 0
          /\ n.activeQueue = <<>> /\ n.blockedQueue = <<>>
        BY SemConstants DEF semaphore, NoSemaphore
    <2> HIDE DEF n, c
    <2>4. Became(id, n.exists, n.value, n.activeQueue, n.blockedQueue) /\ sems'[id] = n
        BY <2>2, <2>3, SemUpdate DEF SemState
    <2> QED BY <1>2, <1>3, <1>6, <2>1, <2>3, <2>4 DEF c, q, n
<1> QED BY <1>5, <1>6

(* Ending a process drops its frame; the frames of the others stay.        *)
LEMMA DropFacts ==
    ASSUME frame \in [Pids -> SemIds \cup {User, Dangling}], DropFrames
    PROVE  /\ frame' \in [Pids -> SemIds \cup {User, Dangling}]
           /\ \A p \in Pids : /\ Alive(k', p) => frame'[p] = frame[p]
                              /\ ~Alive(k', p) => frame'[p] = User
<1>1. frame' = [p \in Pids |-> IF Alive(k', p) THEN frame[p] ELSE User]
    BY DEF DropFrames, Live, Alive
<1> QED BY <1>1

(* What every step keeps, given what it does to k, one semaphore and the   *)
(* frames.                                                                 *)
LEMMA KeepsSemState ==
    ASSUME SemState, IInv(k'), NEW id \in SemIds, NEW e, NEW v, NEW a, NEW b,
           Became(id, e, v, a, b), e = TRUE \/ sems'[id] = NoSemaphore, IsInjective(a),
           frame' \in [Pids -> SemIds \cup {User, Dangling}],
           \A p \in Pids : frame'[p] \in SemIds =>
                \/ frame'[p] = frame[p] /\ (frame[p] # id \/ e = TRUE)
                \/ frame'[p] = id /\ e = TRUE
    PROVE  SemState'
<1>1. \A j \in SemIds : /\ ~sems'[j].lock
                        /\ sems'[j].exists \/ sems'[j] = NoSemaphore
                        /\ IsInjective(sems'[j].activeQueue)
    BY DEF Became, SemState
<1>2. \A p \in Pids : frame'[p] \in SemIds => sems'[frame'[p]].exists
    BY DEF Became, SemState
<1> QED BY <1>1, <1>2 DEF SemState, Became

(* SemState is inductive.                                                  *)
LEMMA SemStateNext ==
    ASSUME SemState, [SemNext]_semVars
    PROVE  SemState'
<1>1. frame \in [Pids -> SemIds \cup {User, Dangling}] /\ IInv(k)
    BY DEF SemState
<1>2. CASE SchedulerStep
    <2>1. IInv(k')
        BY <1>1, <1>2, NextIInv DEF SchedulerStep
    <2>2. /\ sems' = sems /\ frame' \in [Pids -> SemIds \cup {User, Dangling}]
          /\ \A p \in Pids : frame'[p] = frame[p] \/ frame'[p] = User
        BY <1>1, <1>2, DropFacts DEF SchedulerStep
    <2> QED BY <2>1, <2>2, SemConstants DEF SemState
<1>3. ASSUME NEW p \in Pids, NEW id \in SemIds, NEW value \in Values, NEW a \in Allocations,
             semOpenNew(p, id, value, a)
      PROVE  SemState'
    <2>1. /\ k' = k /\ frame' = frame
          /\ Became(id, TRUE, value, addToProcessQueue(<<>>, p, TRUE, a), <<>>)
          /\ IsInjective(addToProcessQueue(<<>>, p, TRUE, a))
        BY <1>3, OpenNewFacts
    <2> QED BY <1>1, <2>1, KeepsSemState
<1>4. ASSUME NEW p \in Pids, NEW id \in SemIds, NEW a \in Allocations,
             semOpenExisting(p, id, a)
      PROVE  SemState'
    <2> DEFINE q == addToProcessQueue(sems[id].activeQueue, p, TRUE, a)
    <2>1. /\ k' = k /\ frame' = frame /\ IsInjective(q)
          /\ Became(id, TRUE, sems[id].value, q, sems[id].blockedQueue)
        BY <1>4, OpenExistingFacts
    <2> HIDE DEF q
    <2> QED BY <1>1, <2>1, KeepsSemState
<1>5. ASSUME NEW p \in Sleepers, NEW id \in SemIds, NEW a \in Allocations, semWait(p, id, a)
      PROVE  SemState'
    <2> DEFINE c == sems[id]
               q == addToProcessQueue(c.blockedQueue, p, FALSE, a)
    <2>1. p \in Pids /\ IsInjective(c.activeQueue)
        BY SemConstants DEF SemState
    <2>2. /\ Caller(p)
          /\ \/ /\ k' = k /\ frame' = frame
                /\ Became(id, TRUE, c.value - 1, c.activeQueue, c.blockedQueue)
             \/ /\ k' = blockProcess(k, p) /\ frame' = [frame EXCEPT ![p] = id]
                /\ Became(id, TRUE, 0, c.activeQueue, q)
        BY <1>5, <2>1, WaitFacts
    <2> HIDE DEF c, q
    <2>3. CASE k' = k /\ frame' = frame
                /\ Became(id, TRUE, c.value - 1, c.activeQueue, c.blockedQueue)
        BY <1>1, <2>1, <2>3, KeepsSemState
    <2>4. CASE k' = blockProcess(k, p) /\ frame' = [frame EXCEPT ![p] = id]
                /\ Became(id, TRUE, 0, c.activeQueue, q)
        <3>1. IInv(k')
            BY <1>1, <2>1, <2>2, <2>4, BlockFacts DEF Caller
        <3>2. /\ frame' \in [Pids -> SemIds \cup {User, Dangling}]
              /\ \A x \in Pids : frame'[x] = frame[x] \/ frame'[x] = id
            BY <1>1, <2>1, <2>4
        <3> QED BY <2>1, <2>4, <3>1, <3>2, KeepsSemState
    <2> QED BY <2>2, <2>3, <2>4
<1>6. ASSUME NEW p \in Pids, SemWake(p) PROVE SemState'
    <2> DEFINE id == frame[p]
               c == sems[id]
               v == (c.value - 1) % Word
    <2>1. /\ k.cpu = p /\ id \in SemIds /\ k' = k /\ frame' = [frame EXCEPT ![p] = User]
          /\ Became(id, TRUE, v, c.activeQueue, c.blockedQueue)
        BY <1>6, SemWakeFacts
    <2>2. IsInjective(c.activeQueue)
        BY <2>1 DEF SemState
    <2> HIDE DEF c, id, v
    <2>3. /\ frame' \in [Pids -> SemIds \cup {User, Dangling}]
          /\ \A x \in Pids : frame'[x] = frame[x] \/ frame'[x] = User
        BY <1>1, <2>1
    <2> QED BY <1>1, <2>1, <2>2, <2>3, SemConstants, KeepsSemState
<1>7. ASSUME NEW p \in Pids, NEW id \in SemIds, semPost(p, id) PROVE SemState'
    <2> DEFINE c == sems[id]
               q == popBlockedQueue(c.blockedQueue)
    <2>1. /\ Caller(p) /\ frame' = frame /\ k' = yield(wakeup(k, c.blockedQueue))
          /\ Became(id, TRUE, c.value + 1, c.activeQueue, q)
        BY <1>7, PostFacts
    <2>2. IsInjective(c.activeQueue) /\ c.blockedQueue \in Seq(Pids)
        BY SemFields DEF SemState
    <2> HIDE DEF c, q
    <2>3. IInv(k')
        BY <1>1, <2>1, <2>2, PostLists DEF Caller
    <2> QED BY <1>1, <2>1, <2>2, <2>3, KeepsSemState
<1>8. ASSUME NEW p \in Pids, NEW id \in SemIds, semClose(p, id) PROVE SemState'
    <2> DEFINE c == sems[id]
               q == removeFromQueue(c.activeQueue, p)
    <2>1. /\ k' = k /\ IsInjective(q)
          /\ \/ /\ frame' = frame
                /\ Became(id, TRUE, c.value, q, c.blockedQueue)
             \/ /\ frame' = [x \in Pids |-> IF frame[x] = id THEN Dangling ELSE frame[x]]
                /\ Became(id, FALSE, 0, <<>>, <<>>) /\ sems'[id] = NoSemaphore
        BY <1>8, CloseFacts
    <2> HIDE DEF c, q
    <2>2. CASE frame' = frame /\ Became(id, TRUE, c.value, q, c.blockedQueue)
        BY <1>1, <2>1, <2>2, KeepsSemState
    <2>3. CASE /\ frame' = [x \in Pids |-> IF frame[x] = id THEN Dangling ELSE frame[x]]
               /\ Became(id, FALSE, 0, <<>>, <<>>) /\ sems'[id] = NoSemaphore
        <3>1. frame' \in [Pids -> SemIds \cup {User, Dangling}]
            BY <1>1, <2>3
        <3>2. \A x \in Pids : frame'[x] \in SemIds => frame'[x] = frame[x] /\ frame[x] # id
            BY <2>3, SemConstants
        <3> DEFINE e == FALSE
                   z == 0
                   n == <<>>
        <3>3. Became(id, e, z, n, n) /\ IsInjective(n)
            BY <2>3, EmptyQueue
        <3> HIDE DEF e, z, n
        <3>4. IInv(k')
            BY <1>1, <2>1
        <3>5. /\ e = TRUE \/ sems'[id] = NoSemaphore
              /\ \A x \in Pids : frame'[x] \in SemIds =>
                    \/ frame'[x] = frame[x] /\ (frame[x] # id \/ e = TRUE)
                    \/ frame'[x] = id /\ e = TRUE
            BY <2>3, <3>2
        <3> QED BY <3>1, <3>3, <3>4, <3>5, KeepsSemState, Zenon
    <2> QED BY <2>1, <2>2, <2>3
<1>9. CASE UNCHANGED semVars
    BY <1>9 DEF semVars, SemState
<1> QED BY <1>2, <1>3, <1>4, <1>5, <1>6, <1>7, <1>8, <1>9 DEF SemNext

(* No semaphore and no frame before main has run.                          *)
LEMMA SemStateInit ==
    SemInit => SemState
<1> SUFFICES ASSUME SemInit PROVE SemState
    OBVIOUS
<1>1. IInv(k)
    BY BootFacts DEF SemInit, Init
<1>2. NoSemaphore \in semaphore /\ ~NoSemaphore.lock /\ NoSemaphore.activeQueue = <<>>
    BY SemConstants DEF NoSemaphore, semaphore
<1>3. sems = [id \in SemIds |-> NoSemaphore] /\ frame = [p \in Pids |-> User]
    BY DEF SemInit
<1> QED BY <1>1, <1>2, <1>3, EmptyQueue, SemConstants DEF SemState

(* Type correctness of the semaphores: every queue holds pids, and every   *)
(* value, the unguarded decrement of semWait included, fits a uint64_t.    *)
THEOREM SemTypeCorrect ==
    SemSpec => []SemTypeOK
<1>1. SemState => SemTypeOK
    BY DEF SemState, SemTypeOK, TypeOK, IInv, Core
<1>2. SemState /\ [SemNext]_semVars => SemState'
    BY SemStateNext
<1> QED BY <1>1, <1>2, SemStateInit, PTL DEF SemSpec

(* No spinlock is held when the CPU changes hands (acquire and release in  *)
(* semWait and semPost), so no acquire ever spins.                         *)
THEOREM LocksCorrect ==
    SemSpec => []LocksFree
<1>1. SemState => LocksFree
    BY DEF SemState, LocksFree
<1>2. SemState /\ [SemNext]_semVars => SemState'
    BY SemStateNext
<1> QED BY <1>1, <1>2, SemStateInit, PTL DEF SemSpec

---------------------------------------------------------------------------
(* A process asleep in a semaphore has it open, so it is not freed.        *)
KeptOpen ==
    \A p \in Pids : /\ frame[p] # Dangling
                    /\ frame[p] \in SemIds => p \in ToSet(sems[frame[p]].activeQueue)

(* KeptOpen survives a step that leaves the frames alone, or drops some,   *)
(* and takes no process with a frame out of an active queue.               *)
LEMMA KeepsOpen ==
    ASSUME KeptOpen, NEW id \in SemIds, NEW e, NEW v, NEW a, NEW b, Became(id, e, v, a, b),
           \A p \in Pids : frame'[p] = frame[p] \/ frame'[p] = User,
           \A p \in Pids : frame'[p] = id => p \in ToSet(a)
    PROVE  KeptOpen'
BY SemConstants DEF KeptOpen, Became

(* KeptOpen is inductive when semWait is called on open semaphores.        *)
LEMMA KeptOpenNext ==
    ASSUME OpenBeforeWait, SemState, KeptOpen, [SemNext]_semVars
    PROVE  KeptOpen'
<1>1. frame \in [Pids -> SemIds \cup {User, Dangling}]
    BY DEF SemState
<1>2. CASE SchedulerStep
    <2>1. sems' = sems /\ \A p \in Pids : frame'[p] = frame[p] \/ frame'[p] = User
        BY <1>1, <1>2, DropFacts DEF SchedulerStep
    <2> QED BY <2>1, SemConstants DEF KeptOpen
<1>3. ASSUME NEW p \in Pids, NEW id \in SemIds, NEW value \in Values, NEW a \in Allocations,
             semOpenNew(p, id, value, a)
      PROVE  KeptOpen'
    <2> DEFINE q == addToProcessQueue(<<>>, p, TRUE, a)
               n == <<>>
    <2>1. frame' = frame /\ Became(id, TRUE, value, q, n) /\ sems[id] = NoSemaphore
        BY <1>3, OpenNewFacts
    <2>2. \A x \in Pids : frame[x] # id
        BY <2>1 DEF SemState, NoSemaphore
    <2> HIDE DEF q, n
    <2> QED BY <2>1, <2>2, KeepsOpen
<1>4. ASSUME NEW p \in Pids, NEW id \in SemIds, NEW a \in Allocations,
             semOpenExisting(p, id, a)
      PROVE  KeptOpen'
    <2> DEFINE q == addToProcessQueue(sems[id].activeQueue, p, TRUE, a)
    <2>1. /\ frame' = frame /\ Became(id, TRUE, sems[id].value, q, sems[id].blockedQueue)
          /\ \A x \in ToSet(sems[id].activeQueue) : x \in ToSet(q)
        BY <1>4, OpenExistingFacts
    <2> HIDE DEF q
    <2>2. \A x \in Pids : frame'[x] = id => x \in ToSet(q)
        BY <2>1 DEF KeptOpen
    <2> QED BY <2>1, <2>2, KeepsOpen
<1>5. ASSUME NEW p \in Sleepers, NEW id \in SemIds, NEW a \in Allocations, semWait(p, id, a)
      PROVE  KeptOpen'
    <2> DEFINE c == sems[id]
               q == addToProcessQueue(c.blockedQueue, p, FALSE, a)
    <2>1. p \in Pids
        BY SemConstants
    <2>2. /\ p \in ToSet(c.activeQueue)
          /\ \/ /\ frame' = frame
                /\ Became(id, TRUE, c.value - 1, c.activeQueue, c.blockedQueue)
             \/ /\ frame' = [frame EXCEPT ![p] = id]
                /\ Became(id, TRUE, 0, c.activeQueue, q)
        BY <1>5, <2>1, WaitFacts
    <2>3. sems'[id].activeQueue = c.activeQueue /\ \A j \in SemIds : j # id => sems'[j] = sems[j]
        BY <2>2 DEF Became
    <2>4. \A x \in Pids : frame'[x] = frame[x] \/ (x = p /\ frame'[x] = id)
        BY <1>1, <2>2
    <2> HIDE DEF q
    <2> QED BY <2>2, <2>3, <2>4, SemConstants DEF KeptOpen
<1>6. ASSUME NEW p \in Pids, SemWake(p) PROVE KeptOpen'
    <2> DEFINE id == frame[p]
               c == sems[id]
               v == (c.value - 1) % Word
    <2>1. /\ id \in SemIds /\ frame' = [frame EXCEPT ![p] = User]
          /\ Became(id, TRUE, v, c.activeQueue, c.blockedQueue)
        BY <1>6, SemWakeFacts
    <2> HIDE DEF id, v
    <2>2. \A x \in Pids : frame'[x] = frame[x] \/ frame'[x] = User
        BY <1>1, <2>1
    <2>3. \A x \in Pids : frame'[x] = id => x \in ToSet(c.activeQueue)
        BY <2>1, <2>2, SemConstants DEF KeptOpen
    <2> HIDE DEF c
    <2> QED BY <2>1, <2>2, <2>3, KeepsOpen
<1>7. ASSUME NEW p \in Pids, NEW id \in SemIds, semPost(p, id) PROVE KeptOpen'
    <2> DEFINE c == sems[id]
               q == popBlockedQueue(c.blockedQueue)
    <2>1. frame' = frame /\ Became(id, TRUE, c.value + 1, c.activeQueue, q)
        BY <1>7, PostFacts
    <2>2. \A x \in Pids : frame'[x] = id => x \in ToSet(c.activeQueue)
        BY <2>1 DEF KeptOpen
    <2> HIDE DEF c, q
    <2> QED BY <2>1, <2>2, KeepsOpen
<1>8. ASSUME NEW p \in Pids, NEW id \in SemIds, semClose(p, id) PROVE KeptOpen'
    <2> DEFINE c == sems[id]
               q == removeFromQueue(c.activeQueue, p)
    <2>1. /\ Caller(p) /\ \A x : x \in ToSet(q) <=> x \in ToSet(c.activeQueue) /\ x # p
          /\ \/ /\ frame' = frame
                /\ Became(id, TRUE, c.value, q, c.blockedQueue)
             \/ /\ q = <<>>
                /\ frame' = [x \in Pids |-> IF frame[x] = id THEN Dangling ELSE frame[x]]
                /\ Became(id, FALSE, 0, <<>>, <<>>)
        BY <1>8, CloseFacts
    <2>2. \A x \in Pids : frame[x] = id => x \in ToSet(q)
        BY <2>1, SemConstants DEF KeptOpen, Caller
    <2>3. q = <<>> => \A x \in Pids : frame[x] # id
        BY <2>2, EmptyQueue
    <2> HIDE DEF q
    <2>4. CASE frame' = frame /\ Became(id, TRUE, c.value, q, c.blockedQueue)
        BY <2>2, <2>4, KeepsOpen
    <2>5. CASE /\ q = <<>>
               /\ frame' = [x \in Pids |-> IF frame[x] = id THEN Dangling ELSE frame[x]]
               /\ Became(id, FALSE, 0, <<>>, <<>>)
        <3>1. \A x \in Pids : frame'[x] = frame[x] /\ frame[x] # id
            BY <2>3, <2>5
        <3>2. \A j \in SemIds : j # id => sems'[j] = sems[j]
            BY <2>5 DEF Became
        <3> QED BY <3>1, <3>2 DEF KeptOpen
    <2> QED BY <2>1, <2>4, <2>5
<1>9. CASE UNCHANGED semVars
    BY <1>9 DEF semVars, KeptOpen
<1> QED BY <1>2, <1>3, <1>4, <1>5, <1>6, <1>7, <1>8, <1>9 DEF SemNext

(* No semaphore is freed under a process that sleeps in it (semClose frees *)
(* when its activeQueue is empty), as long as a process waits only on      *)
(* semaphores it has opened.                                               *)
THEOREM NoDanglingCorrect ==
    ASSUME OpenBeforeWait
    PROVE  SemSpec => []NoDangling
<1>1. SemInit => SemState /\ KeptOpen
    <2>1. SemInit => KeptOpen
        BY SemConstants DEF SemInit, KeptOpen
    <2> QED BY <2>1, SemStateInit
<1>2. SemState /\ KeptOpen /\ [SemNext]_semVars => SemState' /\ KeptOpen'
    BY SemStateNext, KeptOpenNext
<1>3. KeptOpen => NoDangling
    BY DEF KeptOpen, NoDangling
<1> QED BY <1>1, <1>2, <1>3, PTL DEF SemSpec

---------------------------------------------------------------------------
(* The processes that use semaphores are woken by semPost only: nobody     *)
(* else unblocks them, no keyboard interrupt does, and if the shell is one *)
(* of them, no foreground process hands the console back to it.            *)
WokenByPost ==
    /\ Sleepers \cap (Third \cup Readers) = {}
    /\ 1 \in Sleepers => ShellConsole

(* The inductive invariant behind the hand-off.  A process asleep in a     *)
(* semaphore is not ready, except the one that was just woken, which is on *)
(* the CPU; a blocked queue may hold processes that were killed, whose     *)
(* pids are not given again, but a live one is asleep in that semaphore.   *)
HandedOver ==
    /\ \A p \in Pids : frame[p] # User => p \in Sleepers /\ Alive(k, p)
    /\ \A p \in Pids : frame[p] # User /\ p \in ToSet(k.ready) =>
            frame[p] \in SemIds /\ k.cpu = p /\ sems[frame[p]].value > 0
    /\ \A id \in SemIds :
            /\ IsInjective(sems[id].blockedQueue)
            /\ \A q \in ToSet(sems[id].blockedQueue) :
                    q < k.pid /\ (Alive(k, q) => frame[q] = id /\ q \in ToSet(k.blocked))
    /\ 1 \in Sleepers => ~Foreground(k)

(* Nobody that sleeps is ready.                                            *)
AllAsleep == \A q \in Pids : frame[q] # User => q \notin ToSet(k.ready)

(* While user code runs, nobody that sleeps is ready.                      *)
LEMMA CallerAlone ==
    ASSUME HandedOver, NEW p \in Pids, Caller(p)
    PROVE  AllAsleep
BY DEF HandedOver, Caller, AllAsleep

(* A step that leaves the kernel alone.                                    *)
LEMMA QuietHanded ==
    ASSUME HandedOver, k' = k, AllAsleep',
           \A p \in Pids : frame'[p] # User => frame[p] # User,
           \A id \in SemIds :
                /\ IsInjective(sems'[id].blockedQueue)
                /\ \A q \in ToSet(sems'[id].blockedQueue) :
                        /\ q \in ToSet(sems[id].blockedQueue)
                        /\ Alive(k, q) => frame'[q] = frame[q]
    PROVE  HandedOver'
<1>1. \A p \in Pids : frame'[p] # User => p \in Sleepers /\ Alive(k', p)
    BY DEF HandedOver
<1>2. \A p \in Pids : ~(frame'[p] # User /\ p \in ToSet(k'.ready))
    BY DEF AllAsleep
<1>3. \A id \in SemIds :
            /\ IsInjective(sems'[id].blockedQueue)
            /\ \A q \in ToSet(sems'[id].blockedQueue) :
                    q < k'.pid /\ (Alive(k', q) => frame'[q] = id /\ q \in ToSet(k'.blocked))
    BY DEF HandedOver
<1>4. 1 \in Sleepers => ~Foreground(k')
    BY DEF HandedOver
<1> QED BY <1>1, <1>2, <1>3, <1>4 DEF HandedOver

(* The console stays the shell's.                                          *)
LEMMA KeepsForeground ==
    ASSUME NEW s, NEW t, KeepsConsole(s, t), ~Foreground(s)
    PROVE  ~Foreground(t)
BY DEF KeepsConsole, Foreground

(* Entries into the scheduler wake no process that sleeps in a semaphore.  *)
LEMMA SchedulerHanded ==
    ASSUME WokenByPost, SemState, HandedOver, SchedulerStep
    PROVE  HandedOver' /\ AllAsleep'
<1> DEFINE W == Readers \cup Third \cup {x \in {1} : Foreground(k)}
           V == Victims \cup {k.cpu}
<1>1. /\ IInv(k) /\ IInv(k') /\ Next /\ Interruptible /\ sems' = sems
      /\ frame \in [Pids -> SemIds \cup {User, Dangling}]
    BY NextIInv DEF SchedulerStep, SemState
<1>2. /\ Moved(k, k', W, V) /\ (ShellConsole => KeepsConsole(k, k'))
    <2>1. /\ Readers \subseteq W /\ Third \subseteq W /\ Victims \subseteq V /\ k.cpu \in V
          /\ Foreground(k) => 1 \in W
        OBVIOUS
    <2> HIDE DEF W, V
    <2> QED BY <1>1, <2>1, NextMoved
<1>3. \A p \in Sleepers : p \notin W
    BY DEF WokenByPost, HandedOver
<1> HIDE DEF W
<1>4. \A p \in Pids : /\ Alive(k', p) => frame'[p] = frame[p]
                      /\ ~Alive(k', p) => frame'[p] = User
    BY <1>1, DropFacts DEF SchedulerStep
<1>5. AllAsleep
    BY <1>1, SemConstants DEF Interruptible, HandedOver, AllAsleep
<1>6. AllAsleep'
    <2> SUFFICES ASSUME NEW q \in Pids, frame'[q] # User, q \in ToSet(k'.ready)
                 PROVE  FALSE
        BY DEF AllAsleep
    <2>1. frame[q] # User
        BY <1>4
    <2>2. q \notin ToSet(k.ready) /\ q \notin W /\ Alive(k, q)
        BY <1>3, <1>5, <2>1 DEF AllAsleep, HandedOver
    <2> QED BY <1>2, <2>2 DEF Moved
<1>7. \A p \in Pids : frame'[p] # User => p \in Sleepers /\ Alive(k', p)
    BY <1>4 DEF HandedOver
<1>8. ASSUME NEW id \in SemIds, NEW q \in ToSet(sems'[id].blockedQueue)
      PROVE  q < k'.pid /\ (Alive(k', q) => frame'[q] = id /\ q \in ToSet(k'.blocked))
    <2>1. /\ q \in ToSet(sems[id].blockedQueue) /\ sems[id].blockedQueue \in Seq(Pids)
        BY <1>1, <1>8, SemFields DEF SemState
    <2>2. q \in Pids
        BY <2>1, ListFacts
    <2>3. q < k.pid /\ (Alive(k, q) => frame[q] = id)
        BY <2>1 DEF HandedOver
    <2>4. k.pid \in Int /\ k'.pid \in Int /\ q \in Int /\ k.pid <= k'.pid
        BY <1>1, <1>2, <2>2, PidType DEF Moved, IInv
    <2>5. Alive(k', q) => frame'[q] = id
        <3>1. Alive(k', q) => Alive(k, q)
            BY <1>2, <2>2, <2>3, <2>4 DEF Moved
        <3> QED BY <1>4, <2>2, <2>3, <3>1
    <2>6. Alive(k', q) => q \in ToSet(k'.blocked)
        <3>1. Alive(k', q) => q \in ToSet(k'.ready) \cup ToSet(k'.blocked)
            BY <1>1, <2>2 DEF IInv, Core, Shape, Alive
        <3> QED BY <1>6, <2>2, <2>5, <3>1, SemConstants DEF AllAsleep
    <2> QED BY <2>3, <2>4, <2>5, <2>6
<1>9. \A id \in SemIds : IsInjective(sems'[id].blockedQueue)
    BY <1>1 DEF HandedOver
<1>10. 1 \in Sleepers => ~Foreground(k')
    BY <1>2, KeepsForeground DEF WokenByPost, HandedOver
<1>11. HandedOver'
    BY <1>6, <1>7, <1>8, <1>9, <1>10 DEF HandedOver, AllAsleep
<1> QED BY <1>6, <1>11

(* Opening a semaphore.                                                    *)
LEMMA OpenHanded ==
    ASSUME SemState, HandedOver, NEW p \in Pids, Caller(p), k' = k, frame' = frame,
           NEW id \in SemIds, NEW e, NEW v, NEW a, NEW b, Became(id, e, v, a, b),
           b = <<>> \/ b = sems[id].blockedQueue
    PROVE  HandedOver' /\ AllAsleep'
<1>1. AllAsleep'
    BY CallerAlone DEF AllAsleep
<1>2. ASSUME NEW j \in SemIds
      PROVE  /\ IsInjective(sems'[j].blockedQueue)
             /\ \A q \in ToSet(sems'[j].blockedQueue) : q \in ToSet(sems[j].blockedQueue)
    <2>1. sems'[j].blockedQueue = <<>> \/ sems'[j].blockedQueue = sems[j].blockedQueue
        BY DEF Became
    <2> QED BY <2>1, EmptyQueue DEF HandedOver
<1>3. HandedOver'
    BY <1>1, <1>2, QuietHanded
<1> QED BY <1>1, <1>3

(* Going to sleep.                                                         *)
LEMMA SleepHanded ==
    ASSUME SemState, HandedOver, NEW p \in Sleepers, Caller(p), NEW id \in SemIds,
           NEW a \in Allocations, k' = blockProcess(k, p), frame' = [frame EXCEPT ![p] = id],
           Became(id, TRUE, 0, sems[id].activeQueue,
                  addToProcessQueue(sems[id].blockedQueue, p, FALSE, a))
    PROVE  /\ HandedOver' /\ AllAsleep'
           /\ p \notin ToSet(sems[id].blockedQueue)
           /\ \A x \in Pids : Alive(k', x) <=> Alive(k, x)
<1> DEFINE s == sems[id].blockedQueue
           r == addToProcessQueue(s, p, FALSE, a)
<1>1. /\ p \in Pids /\ IInv(k) /\ k.cpu = p /\ frame[p] = User /\ s \in Seq(Pids)
      /\ frame \in [Pids -> SemIds \cup {User, Dangling}]
    BY SemConstants, SemFields DEF SemState, Caller
<1>2. /\ k'.pid = k.pid /\ ToSet(k'.ready) = ToSet(k.ready) \ {p}
      /\ ToSet(k'.blocked) = ToSet(k.blocked) \cup {p}
      /\ \A x \in Pids : Alive(k', x) <=> Alive(k, x)
      /\ KeepsConsole(k, k')
    BY <1>1, BlockSelfLists
<1>3. p \in ToSet(k.ready) /\ Alive(k, p) /\ p < k.pid
    <2>1. p \in ToSet(k.ready) /\ k.pcb[p].state = "READY"
        BY <1>1, RunningFacts
    <2>2. Alive(k, p)
        BY <2>1 DEF Alive
    <2> QED BY <1>1, <2>1, <2>2, PidType DEF IInv
<1>4. frame'[p] = id /\ \A x \in Pids : x # p => frame'[x] = frame[x]
    BY <1>1
<1>5. AllAsleep
    BY <1>1, CallerAlone
<1>6. AllAsleep'
    BY <1>2, <1>4, <1>5 DEF AllAsleep
<1>7. \A x \in Pids : frame'[x] # User => x \in Sleepers /\ Alive(k', x)
    BY <1>2, <1>3, <1>4 DEF HandedOver
<1>8. \A j \in SemIds : p \notin ToSet(sems[j].blockedQueue)
    BY <1>1, <1>3, SemConstants DEF HandedOver
<1>9. IsInjective(r) /\ \A x \in ToSet(r) : x \in ToSet(s) \/ x = p
    <2>1. FALSE \in BOOLEAN /\ a \in BOOLEAN /\ IsInjective(s)
        BY SemConstants DEF HandedOver
    <2> HIDE DEF s
    <2> QED BY <1>1, <1>8, <2>1, EnqueueFacts DEF s
<1>10. \A j \in SemIds : \/ j = id /\ sems'[j].blockedQueue = r
                         \/ j # id /\ sems'[j].blockedQueue = sems[j].blockedQueue
    BY DEF Became
<1> HIDE DEF r
<1>11. ASSUME NEW j \in SemIds
       PROVE  /\ IsInjective(sems'[j].blockedQueue)
              /\ \A q \in ToSet(sems'[j].blockedQueue) :
                    q < k'.pid /\ (Alive(k', q) => frame'[q] = j /\ q \in ToSet(k'.blocked))
    <2>1. IsInjective(sems'[j].blockedQueue)
        BY <1>9, <1>10 DEF HandedOver
    <2>2. ASSUME NEW q \in ToSet(sems'[j].blockedQueue), q # p
          PROVE  q < k'.pid /\ (Alive(k', q) => frame'[q] = j /\ q \in ToSet(k'.blocked))
        <3>1. q \in ToSet(sems[j].blockedQueue) /\ sems[j].blockedQueue \in Seq(Pids)
            BY <1>9, <1>10, <2>2, SemFields DEF SemState
        <3>2. q \in Pids
            BY <3>1, ListFacts
        <3>3. q < k.pid /\ (Alive(k, q) => frame[q] = j /\ q \in ToSet(k.blocked))
            BY <3>1 DEF HandedOver
        <3> QED BY <1>2, <1>4, <2>2, <3>2, <3>3
    <2>3. p \in ToSet(sems'[j].blockedQueue) => j = id
        BY <1>8, <1>10
    <2>4. p < k'.pid /\ frame'[p] = id /\ p \in ToSet(k'.blocked)
        BY <1>2, <1>3, <1>4
    <2> QED BY <2>1, <2>2, <2>3, <2>4
<1>12. 1 \in Sleepers => ~Foreground(k')
    BY <1>2, KeepsForeground DEF HandedOver
<1>13. HandedOver'
    BY <1>6, <1>7, <1>11, <1>12 DEF HandedOver, AllAsleep
<1> QED BY <1>2, <1>6, <1>8, <1>13

(* The woken sleeper takes the unit it was woken for.                      *)
LEMMA WakeHanded ==
    ASSUME SemState, HandedOver, NEW p \in Pids, SemWake(p)
    PROVE  /\ HandedOver' /\ AllAsleep'
           /\ sems[frame[p]].value > 0
           /\ (sems[frame[p]].value - 1) % Word = sems[frame[p]].value - 1
<1> DEFINE id == frame[p]
           c == sems[id]
           v == (c.value - 1) % Word
<1>1. /\ k.cpu = p /\ id \in SemIds /\ k' = k /\ frame' = [frame EXCEPT ![p] = User]
      /\ Became(id, TRUE, v, c.activeQueue, c.blockedQueue)
    BY SemWakeFacts
<1>2. IInv(k) /\ frame \in [Pids -> SemIds \cup {User, Dangling}]
    BY DEF SemState
<1>3. p \in ToSet(k.ready) /\ p \notin ToSet(k.blocked) /\ k.pcb[p].state = "READY"
    BY <1>1, <1>2, RunningFacts
<1>4. c.value > 0
    BY <1>1, <1>3, SemConstants DEF HandedOver
<1>5. v = c.value - 1
    <2>1. c.value \in Int /\ c.value <= Word - 1 /\ Word \in Int
        BY <1>1, SemFields, SemConstants DEF SemState
    <2> HIDE DEF c
    <2>2. c.value - 1 \in Int /\ c.value - 1 >= 0 /\ c.value - 1 < Word
        BY <1>4, <2>1
    <2> QED BY <2>2, ModSmall
<1>6. frame'[p] = User /\ \A x \in Pids : x # p => frame'[x] = frame[x]
    BY <1>1, <1>2
<1>7. AllAsleep'
    BY <1>1, <1>6 DEF AllAsleep, HandedOver
<1>8. \A j \in SemIds : p \notin ToSet(sems[j].blockedQueue)
    BY <1>3 DEF HandedOver, Alive
<1>9. \A j \in SemIds : sems'[j].blockedQueue = sems[j].blockedQueue
    BY <1>1 DEF Became
<1>10. ASSUME NEW j \in SemIds, NEW q \in ToSet(sems[j].blockedQueue)
       PROVE  frame'[q] = frame[q]
    <2>1. q \in Pids
        <3>1. sems[j].blockedQueue \in Seq(Pids)
            BY SemFields DEF SemState
        <3> QED BY <3>1, ListFacts
    <2> QED BY <1>6, <1>8, <2>1
<1>11. HandedOver'
    <2>1. \A j \in SemIds :
                /\ IsInjective(sems'[j].blockedQueue)
                /\ \A q \in ToSet(sems'[j].blockedQueue) :
                        /\ q \in ToSet(sems[j].blockedQueue)
                        /\ Alive(k, q) => frame'[q] = frame[q]
        BY <1>9, <1>10 DEF HandedOver
    <2>2. \A x \in Pids : frame'[x] # User => frame[x] # User
        BY <1>6
    <2> QED BY <1>1, <1>7, <2>1, <2>2, QuietHanded
<1> QED BY <1>4, <1>5, <1>7, <1>11

(* A post hands the CPU to the sleeper it wakes.                           *)
LEMMA PostHanded ==
    ASSUME SemState, HandedOver, NEW p \in Pids, NEW id \in SemIds, semPost(p, id)
    PROVE  LET s == sems[id].blockedQueue
               h == Head(s)
           IN  /\ HandedOver'
               /\ \A x \in Pids : Alive(k', x) <=> Alive(k, x)
               /\ s # <<>> => h \in Pids /\ (Alive(k, h) => k'.cpu = h /\ frame[h] = id)
               /\ s = <<>> \/ ~Alive(k, h) => AllAsleep'
<1> DEFINE c == sems[id]
           s == c.blockedQueue
           h == Head(s)
           r == popBlockedQueue(s)
<1>1. /\ Caller(p) /\ frame' = frame /\ k' = yield(wakeup(k, s))
      /\ Became(id, TRUE, c.value + 1, c.activeQueue, r)
    BY PostFacts
<1>2. /\ IInv(k) /\ s \in Seq(Pids) /\ IsInjective(s) /\ k.cpu = p
      /\ c.value \in Int /\ c.value >= 0
    BY <1>1, SemFields DEF SemState, HandedOver, Caller
<1>3. \A j \in SemIds : \/ j = id /\ sems'[j].blockedQueue = r /\ sems'[j].value = c.value + 1
                        \/ j # id /\ sems'[j] = sems[j]
    BY <1>1 DEF Became
<1>4. /\ r \in Seq(Pids) /\ IsInjective(r)
      /\ \A q \in ToSet(r) : q \in ToSet(s) /\ (s # <<>> => q # h)
    <2>1. CASE s = <<>>
        BY <1>2, <2>1 DEF popBlockedQueue
    <2>2. CASE s # <<>>
        <3>1. r = Tail(s)
            BY <2>2 DEF popBlockedQueue
        <3> HIDE DEF s, r
        <3> QED BY <1>2, <2>2, <3>1, PopFacts DEF h
    <2> QED BY <2>1, <2>2
<1> HIDE DEF s, r
<1>5. /\ IInv(k') /\ k'.pid = k.pid /\ KeepsConsole(k, k')
      /\ \A q \in Pids : Alive(k', q) <=> Alive(k, q)
      /\ \A q \in ToSet(k'.ready) :
            q \in ToSet(k.ready) \/ (s # <<>> /\ q = h /\ q \in ToSet(k.blocked))
      /\ \A q \in ToSet(k.blocked) : q \in ToSet(k'.blocked) \/ (s # <<>> /\ q = h)
      /\ s # <<>> /\ h \in ToSet(k.blocked) => k'.cpu = h
    BY <1>1, <1>2, PostLists
<1>6. s # <<>> => h \in ToSet(s) /\ h \in Pids
    BY <1>2, ListFacts
<1>7. /\ s # <<>> /\ Alive(k, h) => frame[h] = id /\ h \in ToSet(k.blocked)
      /\ s # <<>> /\ h \in ToSet(k.blocked) => Alive(k, h)
    <2>1. s # <<>> /\ Alive(k, h) => frame[h] = id /\ h \in ToSet(k.blocked)
        BY <1>6 DEF HandedOver, s, c
    <2>2. \A q \in Pids : q \in ToSet(k.blocked) => Alive(k, q)
        BY <1>2 DEF IInv, Core, Shape, Alive
    <2> HIDE DEF h
    <2> QED BY <1>6, <2>1, <2>2
<1> HIDE DEF h, c
<1>8. AllAsleep
    BY <1>1, CallerAlone
<1>9. s = <<>> \/ ~Alive(k, h) => AllAsleep'
    BY <1>1, <1>5, <1>7, <1>8 DEF AllAsleep
<1>10. ASSUME NEW q \in Pids, frame'[q] # User, q \in ToSet(k'.ready)
       PROVE  frame'[q] \in SemIds /\ k'.cpu = q /\ sems'[frame'[q]].value > 0
    <2>1. q \notin ToSet(k.ready)
        BY <1>1, <1>8, <1>10 DEF AllAsleep
    <2>2. s # <<>> /\ q = h /\ h \in ToSet(k.blocked)
        BY <1>5, <1>10, <2>1
    <2>3. frame'[q] = id /\ k'.cpu = q
        BY <1>1, <1>5, <1>7, <2>2
    <2>4. sems'[id].value > 0
        BY <1>2, <1>3 DEF c
    <2> QED BY <2>3, <2>4
<1>11. ASSUME NEW j \in SemIds
       PROVE  /\ IsInjective(sems'[j].blockedQueue)
              /\ \A q \in ToSet(sems'[j].blockedQueue) :
                    q < k'.pid /\ (Alive(k', q) => frame'[q] = j /\ q \in ToSet(k'.blocked))
    <2>1. IsInjective(sems'[j].blockedQueue)
        BY <1>3, <1>4 DEF HandedOver
    <2>2. ASSUME NEW q \in ToSet(sems'[j].blockedQueue)
          PROVE  q < k'.pid /\ (Alive(k', q) => frame'[q] = j /\ q \in ToSet(k'.blocked))
        <3>1. /\ q \in ToSet(sems[j].blockedQueue) /\ sems[j].blockedQueue \in Seq(Pids)
              /\ j = id /\ s # <<>> => q # h
            BY <1>3, <1>4, <2>2, SemFields DEF SemState, s, c
        <3>2. q \in Pids
            BY <3>1, ListFacts
        <3>3. q < k.pid /\ (Alive(k, q) => frame[q] = j /\ q \in ToSet(k.blocked))
            BY <3>1 DEF HandedOver
        <3>4. Alive(k, q) => ~(s # <<>> /\ q = h)
            BY <1>7, <3>1, <3>3
        <3> QED BY <1>1, <1>5, <3>2, <3>3, <3>4
    <2> QED BY <2>1, <2>2
<1>12. \A x \in Pids : frame'[x] # User => x \in Sleepers /\ Alive(k', x)
    BY <1>1, <1>5 DEF HandedOver
<1>13. 1 \in Sleepers => ~Foreground(k')
    BY <1>5, KeepsForeground DEF HandedOver
<1>14. HandedOver'
    BY <1>10, <1>11, <1>12, <1>13 DEF HandedOver
<1> QED BY <1>5, <1>6, <1>7, <1>9, <1>14 DEF h, s, c

(* Closing a semaphore; when it is freed, nobody is left in its queue.     *)
LEMMA CloseHanded ==
    ASSUME SemState, HandedOver, NEW p \in Pids, NEW id \in SemIds, semClose(p, id)
    PROVE  HandedOver' /\ AllAsleep'
<1> DEFINE c == sems[id]
           q == removeFromQueue(c.activeQueue, p)
           n == <<>>
           z == 0
           e == FALSE
<1>1. /\ Caller(p) /\ k' = k
      /\ \/ frame' = frame /\ Became(id, TRUE, c.value, q, c.blockedQueue)
         \/ /\ frame' = [x \in Pids |-> IF frame[x] = id THEN Dangling ELSE frame[x]]
            /\ Became(id, e, z, n, n)
    BY CloseFacts
<1>2. n = <<>> /\ c.blockedQueue = sems[id].blockedQueue
    OBVIOUS
<1> HIDE DEF c, q, n, z, e
<1>3. CASE frame' = frame /\ Became(id, TRUE, c.value, q, c.blockedQueue)
    BY <1>1, <1>2, <1>3, OpenHanded
<1>4. CASE /\ frame' = [x \in Pids |-> IF frame[x] = id THEN Dangling ELSE frame[x]]
           /\ Became(id, e, z, n, n)
    <2>1. \A x \in Pids : frame'[x] = IF frame[x] = id THEN Dangling ELSE frame[x]
        BY <1>4
    <2>2. \A x \in Pids : frame'[x] # User => frame[x] # User
        BY <2>1, SemConstants
    <2>3. AllAsleep'
        BY <1>1, <2>2, CallerAlone DEF AllAsleep
    <2>4. ASSUME NEW j \in SemIds
          PROVE  /\ IsInjective(sems'[j].blockedQueue)
                 /\ \A x \in ToSet(sems'[j].blockedQueue) :
                        /\ x \in ToSet(sems[j].blockedQueue)
                        /\ Alive(k, x) => frame'[x] = frame[x]
        <3>1. CASE j = id
            BY <1>2, <1>4, <3>1, EmptyQueue DEF Became
        <3>2. CASE j # id
            <4>1. sems'[j] = sems[j] /\ sems[j].blockedQueue \in Seq(Pids)
                BY <1>4, <3>2, SemFields DEF Became, SemState
            <4>2. \A x \in ToSet(sems[j].blockedQueue) : x \in Pids
                BY <4>1, ListFacts
            <4>3. \A x \in ToSet(sems[j].blockedQueue) : Alive(k, x) => frame'[x] = frame[x]
                BY <2>1, <3>2, <4>2 DEF HandedOver
            <4> QED BY <4>1, <4>3 DEF HandedOver
        <3> QED BY <3>1, <3>2
    <2>5. HandedOver'
        BY <1>1, <2>2, <2>3, <2>4, QuietHanded
    <2> QED BY <2>3, <2>5
<1> QED BY <1>1, <1>3, <1>4

(* The invariant behind the hand-off is inductive.                         *)
LEMMA HandedNext ==
    ASSUME WokenByPost, SemState, HandedOver, [SemNext]_semVars
    PROVE  HandedOver'
<1>2. CASE SchedulerStep
    BY <1>2, SchedulerHanded
<1>3. ASSUME NEW p \in Pids, NEW id \in SemIds, NEW value \in Values, NEW a \in Allocations,
             semOpenNew(p, id, value, a)
      PROVE  HandedOver'
    <2> DEFINE q == addToProcessQueue(<<>>, p, TRUE, a)
               n == <<>>
    <2>1. Caller(p) /\ k' = k /\ frame' = frame /\ Became(id, TRUE, value, q, n)
        BY <1>3, OpenNewFacts
    <2>2. n = <<>>
        OBVIOUS
    <2> HIDE DEF q, n
    <2> QED BY <2>1, <2>2, OpenHanded
<1>4. ASSUME NEW p \in Pids, NEW id \in SemIds, NEW a \in Allocations,
             semOpenExisting(p, id, a)
      PROVE  HandedOver'
    <2> DEFINE q == addToProcessQueue(sems[id].activeQueue, p, TRUE, a)
    <2>1. /\ Caller(p) /\ k' = k /\ frame' = frame
          /\ Became(id, TRUE, sems[id].value, q, sems[id].blockedQueue)
        BY <1>4, OpenExistingFacts
    <2> HIDE DEF q
    <2> QED BY <2>1, OpenHanded
<1>5. ASSUME NEW p \in Sleepers, NEW id \in SemIds, NEW a \in Allocations, semWait(p, id, a)
      PROVE  HandedOver'
    <2> DEFINE c == sems[id]
    <2>1. p \in Pids
        BY SemConstants
    <2>2. /\ Caller(p)
          /\ \/ /\ k' = k /\ frame' = frame
                /\ Became(id, TRUE, c.value - 1, c.activeQueue, c.blockedQueue)
             \/ /\ k' = blockProcess(k, p) /\ frame' = [frame EXCEPT ![p] = id]
                /\ Became(id, TRUE, 0, c.activeQueue,
                          addToProcessQueue(c.blockedQueue, p, FALSE, a))
        BY <1>5, <2>1, WaitFacts
    <2>3. CASE /\ k' = k /\ frame' = frame
               /\ Became(id, TRUE, c.value - 1, c.activeQueue, c.blockedQueue)
        BY <2>1, <2>2, <2>3, OpenHanded
    <2>4. CASE /\ k' = blockProcess(k, p) /\ frame' = [frame EXCEPT ![p] = id]
               /\ Became(id, TRUE, 0, c.activeQueue,
                         addToProcessQueue(c.blockedQueue, p, FALSE, a))
        BY <2>2, <2>4, SleepHanded
    <2> QED BY <2>2, <2>3, <2>4
<1>6. ASSUME NEW p \in Pids, SemWake(p) PROVE HandedOver'
    BY <1>6, WakeHanded
<1>7. ASSUME NEW p \in Pids, NEW id \in SemIds, semPost(p, id) PROVE HandedOver'
    BY <1>7, PostHanded
<1>8. ASSUME NEW p \in Pids, NEW id \in SemIds, semClose(p, id) PROVE HandedOver'
    BY <1>8, CloseHanded
<1>9. CASE UNCHANGED semVars
    BY <1>9 DEF semVars, HandedOver
<1> QED BY <1>2, <1>3, <1>4, <1>5, <1>6, <1>7, <1>8, <1>9 DEF SemNext

(* After main has run the first time the shell has the console.            *)
LEMMA BootConsole ==
    ~Foreground(main(Loaded, "ok", "ok"))
<1> DEFINE t == processCreate(Loaded, "ok")
           u == processCreate(t, "ok")
           v == changePriority(u, 1, HIGH)
           w == setBackground(v, 1, "FOREGROUND")
           m == main(Loaded, "ok", "ok")
<1>1. Core(u) /\ t.pid = 1 /\ Agree(u) /\ \A q \in Pids : q # 1 => u.pcb[q] = Free
    BY BootProcess
<1>2. m = [w EXCEPT !.cpu = Boot, !.idt0 = TRUE]
    BY <1>1 DEF main
<1>3. ~Foreground(u)
    BY <1>1 DEF Foreground, Free
<1> HIDE DEF t, u
<1>4. /\ 1 \in Int /\ HIGH \in 0..(Word - 1) /\ "FOREGROUND" \in Backgrounds /\ AgreeBut(u, 0)
    BY <1>1, Constants1 DEF Backgrounds, Agree
<1>5. Core(v)
    BY <1>1, <1>4, ChangePriorityFacts
<1>6. ~Foreground(v)
    BY <1>1, <1>3, <1>4, FlagsMoved, KeepsForeground
<1> HIDE DEF v
<1>7. ~Foreground(w)
    BY <1>4, <1>5, <1>6, FlagsMoved, KeepsForeground
<1>8. Core(w)
    BY <1>4, <1>5, SetBackgroundFacts DEF Core
<1> HIDE DEF w, m
<1>9. m.pcb = w.pcb
    BY <1>2, <1>8 DEF Core, KernelState
<1> QED BY <1>7, <1>9 DEF Foreground, m

(* Nobody sleeps in a semaphore when the machine starts.                   *)
LEMMA HandedInit ==
    SemInit => HandedOver
<1> SUFFICES ASSUME SemInit PROVE HandedOver
    OBVIOUS
<1>1. /\ sems = [id \in SemIds |-> NoSemaphore] /\ frame = [p \in Pids |-> User]
      /\ k = main(Loaded, "ok", "ok")
    BY DEF SemInit, Init
<1>2. ~Foreground(k)
    BY <1>1, BootConsole
<1>3. \A id \in SemIds : sems[id].blockedQueue = <<>>
    BY <1>1 DEF NoSemaphore
<1>4. \A p \in Pids : frame[p] = User
    BY <1>1
<1> QED BY <1>2, <1>3, <1>4, EmptyQueue DEF HandedOver

(* The unit of a semPost reaches the process it woke (the decrement after  *)
(* sleep in semWait is unconditional): a sleeper that is ready again has   *)
(* the CPU, and the value it is about to decrement is above zero.  Victims *)
(* may be killed at any time and queue nodes may fail to be allocated; the *)
(* processes that wait are woken by semPost only.                          *)
THEOREM HandOffCorrect ==
    ASSUME WokenByPost
    PROVE  SemSpec => []HandOff
<1>1. SemInit => SemState /\ HandedOver
    BY SemStateInit, HandedInit
<1>2. SemState /\ HandedOver /\ [SemNext]_semVars => SemState' /\ HandedOver'
    BY SemStateNext, HandedNext
<1>3. SemState /\ HandedOver => HandOff
    <2> SUFFICES ASSUME SemState, HandedOver, NEW p \in Pids, frame[p] \in SemIds,
                        Contains(k.ready, p)
                 PROVE  k.cpu = p /\ sems[frame[p]].value > 0
        BY DEF HandOff
    <2>1. k.ready \in Seq(Pids)
        BY DEF SemState, IInv, Core, KernelState
    <2>2. p \in ToSet(k.ready)
        BY <2>1, ListFacts
    <2> QED BY <2>2, SemConstants DEF HandedOver
<1> QED BY <1>1, <1>2, <1>3, PTL DEF SemSpec

---------------------------------------------------------------------------
(* Every process that waits does get a queue node, and is not killed.      *)
SleepersKept == Allocations \subseteq {TRUE} /\ Victims \cap Sleepers = {}

(* The inductive invariant behind NoLostWakeup: a process asleep in a      *)
(* semaphore is in its blocked queue until it is on the CPU again, nobody  *)
(* in a blocked queue has ended, and while there is somebody nothing is    *)
(* available.                                                              *)
Queued ==
    /\ \A p \in Pids : frame[p] \in SemIds =>
            p \in ToSet(sems[frame[p]].blockedQueue) \/ p = k.cpu
    /\ \A id \in SemIds : \A q \in ToSet(sems[id].blockedQueue) : Alive(k, q)
    /\ \A id \in SemIds : sems[id].blockedQueue # <<>> => Available(id) = 0

(* What a step does to the counting semaphore id: the others stay.         *)
Same(id) ==
    /\ sems'[id].exists = sems[id].exists /\ Available(id)' = Available(id)
    /\ sems'[id].blockedQueue = sems[id].blockedQueue

Counts(id, e, v, b) ==
    /\ \A j \in SemIds : j # id => Same(j)
    /\ sems'[id].exists = e /\ Available(id)' = v /\ sems'[id].blockedQueue = b

(* While user code runs nothing is promised to a process just woken.       *)
LEMMA CountedNow ==
    ASSUME IInv(k), AllAsleep
    PROVE  \A id \in SemIds : Available(id) = sems[id].value
<1>1. k.cpu \in Pids => k.cpu \in ToSet(k.ready)
    BY RunningFacts
<1> QED BY <1>1, SemConstants DEF AllAsleep, Available

(* The same of the state a step leads to.                                  *)
LEMMA CountedNext ==
    ASSUME IInv(k'), AllAsleep'
    PROVE  \A id \in SemIds : Available(id)' = sems'[id].value
<1> DEFINE s == k'
<1>1. IInv(s)
    OBVIOUS
<1> HIDE DEF s
<1>2. s.cpu \in Pids => s.cpu \in ToSet(s.ready)
    BY <1>1, RunningFacts
<1> QED BY <1>2, SemConstants DEF AllAsleep, Available, s

(* The entries into the scheduler.                                         *)
LEMMA SchedulerQueued ==
    ASSUME WokenByPost, SleepersKept, SemState, HandedOver, Queued, SchedulerStep
    PROVE  Queued' /\ \A id \in SemIds : Same(id)
<1> DEFINE W == Readers \cup Third \cup {x \in {1} : Foreground(k)}
           V == Victims \cup {k.cpu}
<1>1. /\ IInv(k) /\ IInv(k') /\ Next /\ Interruptible /\ sems' = sems
      /\ frame \in [Pids -> SemIds \cup {User, Dangling}]
    BY NextIInv DEF SchedulerStep, SemState
<1>2. Moved(k, k', W, V)
    <2>1. /\ Readers \subseteq W /\ Third \subseteq W /\ Victims \subseteq V /\ k.cpu \in V
          /\ Foreground(k) => 1 \in W
        OBVIOUS
    <2> HIDE DEF W, V
    <2> QED BY <1>1, <2>1, NextMoved
<1> HIDE DEF W
<1>3. AllAsleep
    BY <1>1, SemConstants DEF Interruptible, HandedOver, AllAsleep
<1>4. AllAsleep'
    BY SchedulerHanded
<1>5. \A p \in Pids : /\ Alive(k', p) => frame'[p] = frame[p]
                      /\ ~Alive(k', p) => frame'[p] = User
    BY <1>1, DropFacts DEF SchedulerStep
<1>6. ASSUME NEW p \in Pids, frame[p] # User PROVE Alive(k', p)
    <2>1. p \in Sleepers /\ Alive(k, p) /\ p # k.cpu
        BY <1>1, <1>6 DEF HandedOver, Interruptible
    <2>2. p \notin V
        BY <2>1 DEF SleepersKept
    <2> HIDE DEF V
    <2> QED BY <1>2, <2>1, <2>2 DEF Moved
<1>7. \A id \in SemIds : Available(id)' = Available(id)
    BY <1>1, <1>3, <1>4, CountedNow, CountedNext
<1>8. \A p \in Pids : frame'[p] \in SemIds => p \in ToSet(sems[frame'[p]].blockedQueue)
    BY <1>1, <1>5, SemConstants DEF Queued, Interruptible
<1>9. ASSUME NEW id \in SemIds, NEW q \in ToSet(sems[id].blockedQueue) PROVE Alive(k', q)
    <2>1. sems[id].blockedQueue \in Seq(Pids)
        BY SemFields DEF SemState
    <2>2. q \in Pids /\ Alive(k, q)
        BY <2>1, ListFacts DEF Queued
    <2>3. frame[q] = id
        BY <2>2 DEF HandedOver
    <2> QED BY <1>6, <2>2, <2>3, SemConstants
<1>10. Queued'
    BY <1>1, <1>7, <1>8, <1>9 DEF Queued
<1> QED BY <1>1, <1>7, <1>10 DEF Same

(* Calls that neither sleep nor wake.                                      *)
LEMMA CallQueued ==
    ASSUME SemState, HandedOver, Queued, NEW p \in Pids, Caller(p), k' = k, frame' = frame,
           NEW id \in SemIds, NEW e, NEW v, NEW a, NEW b, Became(id, e, v, a, b),
           b = sems[id].blockedQueue, b # <<>> => v = sems[id].value
    PROVE  Queued' /\ Counts(id, e, v, b) /\ Available(id) = sems[id].value
<1>1. IInv(k) /\ IInv(k')
    BY DEF SemState
<1>2. AllAsleep /\ AllAsleep'
    BY CallerAlone DEF AllAsleep
<1>3. \A j \in SemIds : Available(j) = sems[j].value /\ Available(j)' = sems'[j].value
    BY <1>1, <1>2, CountedNow, CountedNext
<1>4. \A j \in SemIds : sems'[j].blockedQueue = sems[j].blockedQueue
    BY DEF Became
<1>5. \A j \in SemIds : j # id => Same(j)
    BY <1>3 DEF Became, Same
<1>6. Counts(id, e, v, b)
    BY <1>3, <1>5 DEF Counts, Became
<1>7. \A j \in SemIds : sems'[j].blockedQueue # <<>> => Available(j)' = 0
    BY <1>3, <1>4 DEF Became, Queued
<1>8. Queued'
    BY <1>4, <1>7 DEF Queued
<1> QED BY <1>3, <1>6, <1>8

(* Going to sleep: the process is last in the queue.                       *)
LEMMA SleepQueued ==
    ASSUME SleepersKept, SemState, SemState', HandedOver, Queued, NEW p \in Sleepers,
           NEW id \in SemIds, NEW a \in Allocations, Caller(p), sems[id].value = 0,
           k' = blockProcess(k, p), frame' = [frame EXCEPT ![p] = id],
           Became(id, TRUE, 0, sems[id].activeQueue,
                  addToProcessQueue(sems[id].blockedQueue, p, FALSE, a))
    PROVE  /\ Queued' /\ Counts(id, TRUE, 0, Append(sems[id].blockedQueue, p))
           /\ Available(id) = 0
<1> DEFINE s == sems[id].blockedQueue
           r == Append(s, p)
           z == 0
<1>1. /\ p \in Pids /\ IInv(k) /\ IInv(k') /\ s \in Seq(Pids)
      /\ frame \in [Pids -> SemIds \cup {User, Dangling}]
    BY SemConstants, SemFields DEF SemState
<1>2. AllAsleep
    BY <1>1, CallerAlone
<1>3. AllAsleep' /\ \A x \in Pids : Alive(k', x) <=> Alive(k, x)
    BY SleepHanded
<1>4. \A j \in SemIds : Available(j) = sems[j].value /\ Available(j)' = sems'[j].value
    BY <1>1, <1>2, <1>3, CountedNow, CountedNext
<1>5. addToProcessQueue(s, p, FALSE, a) = r
    BY DEF SleepersKept, addToProcessQueue
<1> HIDE DEF r
<1>6. Became(id, TRUE, z, sems[id].activeQueue, r)
    BY <1>5
<1>7. \A x : x \in ToSet(r) <=> x \in ToSet(s) \/ x = p
    <2>1. AddLast(s, p) = r
        BY DEF AddLast, r
    <2>2. p \notin ToSet(s) /\ IsInjective(s)
        BY SleepHanded DEF HandedOver
    <2>3. ToSet(AddLast(s, p)) = ToSet(s) \cup {p}
        BY <1>1, <2>2, AddLastFacts
    <2> QED BY <2>1, <2>3
<1> HIDE DEF z
<1>8. \A j \in SemIds : j # id => Same(j)
    BY <1>4, <1>6 DEF Became, Same
<1>9. Counts(id, TRUE, z, r)
    BY <1>4, <1>6, <1>8 DEF Counts, Became
<1>10. \A x \in Pids : frame'[x] = IF x = p THEN id ELSE frame[x]
    BY <1>1
<1>11. \A j \in SemIds : \/ j = id /\ sems'[j].blockedQueue = r /\ sems'[j].value = 0
                         \/ j # id /\ sems'[j] = sems[j]
    BY <1>6 DEF Became, z
<1>12. ASSUME NEW x \in Pids, frame'[x] \in SemIds
       PROVE  x \in ToSet(sems'[frame'[x]].blockedQueue)
    <2>1. CASE x = p
        BY <1>7, <1>10, <1>11, <2>1
    <2>2. CASE x # p
        <3>1. x \in ToSet(sems[frame[x]].blockedQueue)
            BY <1>10, <1>12, <2>2 DEF Queued, Caller
        <3> QED BY <1>7, <1>10, <1>11, <1>12, <2>2, <3>1
    <2> QED BY <2>1, <2>2
<1>13. ASSUME NEW j \in SemIds, NEW q \in ToSet(sems'[j].blockedQueue) PROVE Alive(k', q)
    <2>1. q = p \/ (q \in ToSet(sems[j].blockedQueue) /\ sems[j].blockedQueue \in Seq(Pids))
        BY <1>7, <1>11, SemFields DEF SemState
    <2>2. CASE q = p
        <3>1. k.pcb[p].state = "READY"
            BY <1>1, RunningFacts DEF Caller
        <3> QED BY <1>1, <1>3, <2>2, <3>1 DEF Alive
    <2>3. CASE q \in ToSet(sems[j].blockedQueue) /\ sems[j].blockedQueue \in Seq(Pids)
        <3>1. q \in Pids /\ Alive(k, q)
            BY <2>3, ListFacts DEF Queued
        <3> QED BY <1>3, <3>1
    <2> QED BY <2>1, <2>2, <2>3
<1>14. \A j \in SemIds : sems'[j].blockedQueue # <<>> => Available(j)' = 0
    BY <1>4, <1>11 DEF Queued
<1>15. Queued'
    BY <1>12, <1>13, <1>14 DEF Queued
<1> QED BY <1>4, <1>9, <1>15 DEF z, r

(* The process just woken takes the unit that was promised to it.          *)
LEMMA WakeQueued ==
    ASSUME SemState, SemState', HandedOver, Queued, NEW p \in Pids, SemWake(p)
    PROVE  Queued' /\ \A id \in SemIds : Same(id)
<1> DEFINE id == frame[p]
           c == sems[id]
           v == (c.value - 1) % Word
<1>1. /\ k.cpu = p /\ id \in SemIds /\ k' = k /\ frame' = [frame EXCEPT ![p] = User]
      /\ Became(id, TRUE, v, c.activeQueue, c.blockedQueue)
    BY SemWakeFacts
<1>2. v = c.value - 1 /\ AllAsleep'
    BY WakeHanded
<1>3. IInv(k') /\ frame \in [Pids -> SemIds \cup {User, Dangling}] /\ c.exists = TRUE
    BY <1>1, SemFields DEF SemState
<1>4. \A j \in SemIds : Available(j)' = sems'[j].value
    BY <1>2, <1>3, CountedNext
<1>5. Available(id) = c.value - 1 /\ \A j \in SemIds : j # id => Available(j) = sems[j].value
    BY <1>1 DEF Available
<1> HIDE DEF c, v
<1>6. \A j \in SemIds : Same(j)
    BY <1>1, <1>2, <1>3, <1>4, <1>5, ZenonT(60) DEF Same, Became, c
<1>7. \A x \in Pids : frame'[x] = IF x = p THEN User ELSE frame[x]
    BY <1>1, <1>3
<1> HIDE DEF id
<1>8. Queued'
    BY <1>1, <1>6, <1>7, SemConstants DEF Queued, Same
<1> QED BY <1>6, <1>8

(* A post makes a unit available, or promises it to the first that waits.  *)
LEMMA PostQueued ==
    ASSUME SemState, SemState', HandedOver, Queued, NEW p \in Pids, NEW id \in SemIds,
           semPost(p, id)
    PROVE  LET s == sems[id].blockedQueue
           IN  /\ Queued' /\ sems[id].exists = TRUE
               /\ \/ s = <<>> /\ Counts(id, TRUE, Available(id) + 1, s)
                  \/ s # <<>> /\ Counts(id, TRUE, Available(id), Tail(s))
<1> DEFINE c == sems[id]
           s == c.blockedQueue
           h == Head(s)
           r == popBlockedQueue(s)
<1>1. /\ Caller(p) /\ frame' = frame /\ c.exists = TRUE
      /\ Became(id, TRUE, c.value + 1, c.activeQueue, r)
    BY PostFacts
<1>2. /\ IInv(k) /\ IInv(k') /\ s \in Seq(Pids) /\ IsInjective(s) /\ k.cpu = p
      /\ c.value \in Int
    BY <1>1, SemFields DEF SemState, HandedOver, Caller
<1>3. AllAsleep
    BY <1>1, CallerAlone
<1>4. \A j \in SemIds : Available(j) = sems[j].value
    BY <1>2, <1>3, CountedNow
<1>5. \A x \in Pids : Alive(k', x) <=> Alive(k, x)
    BY PostHanded
<1>6. \A j \in SemIds : j # id => sems'[j] = sems[j]
    BY <1>1 DEF Became
<1>7. \A x \in Pids : frame'[x] = frame[x] /\ (frame[x] \in SemIds => x \in ToSet(sems[frame[x]].blockedQueue))
    BY <1>1, SemConstants DEF Queued, Caller
<1>8. \A j \in SemIds : \A q \in ToSet(sems[j].blockedQueue) : q \in Pids /\ Alive(k', q)
    <2> SUFFICES ASSUME NEW j \in SemIds, NEW q \in ToSet(sems[j].blockedQueue)
                 PROVE  q \in Pids /\ Alive(k', q)
        OBVIOUS
    <2>1. sems[j].blockedQueue \in Seq(Pids)
        BY SemFields DEF SemState
    <2>2. q \in Pids /\ Alive(k, q)
        BY <2>1, ListFacts DEF Queued
    <2> QED BY <1>5, <2>2
<1>9. CASE s = <<>>
    <2>1. AllAsleep'
        BY <1>9, PostHanded
    <2>2. \A j \in SemIds : Available(j)' = sems'[j].value
        BY <1>2, <2>1, CountedNext
    <2>3. r = s
        BY <1>9 DEF popBlockedQueue
    <2> HIDE DEF s, r
    <2>4. \A j \in SemIds : j # id => Same(j)
        BY <1>4, <1>6, <2>2 DEF Same
    <2>5. sems'[id].exists = TRUE /\ sems'[id].blockedQueue = s /\ sems'[id].value = c.value + 1
        BY <1>1, <2>3 DEF Became
    <2>6. Counts(id, TRUE, Available(id) + 1, s)
        BY <1>4, <2>2, <2>4, <2>5 DEF Counts
    <2>7. \A j \in SemIds : sems'[j].blockedQueue = sems[j].blockedQueue
        BY <1>6, <2>5 DEF s
    <2>8. \A j \in SemIds : sems'[j].blockedQueue # <<>> => Available(j)' = 0
        BY <1>9, <2>4, <2>5 DEF Queued, Same
    <2>9. Queued'
        BY <1>7, <1>8, <2>7, <2>8 DEF Queued
    <2> QED BY <1>1, <1>9, <2>6, <2>9 DEF s
<1>10. CASE s # <<>>
    <2>1. h \in ToSet(s)
        BY <1>2, <1>10, ListFacts
    <2>2. h \in Pids /\ k'.cpu = h /\ frame'[h] = id
        BY <1>1, <1>10, <2>1, PostHanded DEF Queued
    <2>3. c.value = 0
        BY <1>4, <1>10 DEF Queued
    <2>4. r = Tail(s) /\ \A q : q \in ToSet(r) <=> q \in ToSet(s) /\ q # h
        <3>1. r = Tail(s)
            BY <1>10 DEF popBlockedQueue
        <3> HIDE DEF s, r
        <3> QED BY <1>2, <1>10, <3>1, PopFacts DEF h
    <2> HIDE DEF s, r, h
    <2>5. /\ sems'[id].exists = TRUE /\ sems'[id].blockedQueue = r
          /\ sems'[id].value = c.value + 1
        BY <1>1 DEF Became
    <2>6. Available(id)' = Available(id)
        BY <1>2, <1>4, <2>2, <2>5 DEF Available
    <2>7. \A j \in SemIds : j # id => Available(j)' = Available(j)
        BY <1>4, <1>6, <2>2 DEF Available
    <2>8. \A j \in SemIds : j # id => Same(j)
        BY <1>6, <2>7 DEF Same
    <2>9. Counts(id, TRUE, Available(id), Tail(s))
        BY <2>4, <2>5, <2>6, <2>8 DEF Counts
    <2>10. ASSUME NEW x \in Pids, frame'[x] \in SemIds
           PROVE  x \in ToSet(sems'[frame'[x]].blockedQueue) \/ x = k'.cpu
        BY <1>6, <1>7, <2>2, <2>4, <2>5, <2>10 DEF s
    <2>11. \A j \in SemIds : \A q \in ToSet(sems'[j].blockedQueue) : Alive(k', q)
        BY <1>6, <1>8, <2>4, <2>5 DEF s
    <2>12. \A j \in SemIds : sems'[j].blockedQueue # <<>> => Available(j)' = 0
        BY <1>4, <1>6, <2>3, <2>6, <2>7 DEF Queued
    <2>13. Queued'
        BY <2>10, <2>11, <2>12 DEF Queued
    <2> QED BY <1>1, <1>10, <2>9, <2>13 DEF s
<1> QED BY <1>9, <1>10

(* A close that leaves the semaphore to others, or frees it; it is freed   *)
(* with nobody waiting if those who wait have it open.                     *)
LEMMA CloseQueued ==
    ASSUME SemState, SemState', HandedOver, Queued, NEW p \in Pids, NEW id \in SemIds,
           semClose(p, id)
    PROVE  /\ Queued' /\ sems[id].exists = TRUE
           /\ \/ \A j \in SemIds : Same(j)
              \/ /\ Counts(id, FALSE, 0, <<>>)
                 /\ KeptOpen => sems[id].blockedQueue = <<>>
<1> DEFINE c == sems[id]
           q == removeFromQueue(c.activeQueue, p)
           n == <<>>
           z == 0
           e == FALSE
<1>1. /\ Caller(p) /\ k' = k /\ c.exists = TRUE
      /\ \A x : x \in ToSet(q) <=> x \in ToSet(c.activeQueue) /\ x # p
      /\ \/ frame' = frame /\ Became(id, TRUE, c.value, q, c.blockedQueue)
         \/ /\ q = n
            /\ frame' = [x \in Pids |-> IF frame[x] = id THEN Dangling ELSE frame[x]]
            /\ Became(id, e, z, n, n)
    BY CloseFacts
<1>2. n = <<>> /\ c.blockedQueue = sems[id].blockedQueue /\ z = 0 /\ e = FALSE
    OBVIOUS
<1>3. IInv(k) /\ IInv(k') /\ c.blockedQueue \in Seq(Pids)
    BY SemFields DEF SemState
<1> HIDE DEF q, n, z, e
<1>4. CASE frame' = frame /\ Became(id, TRUE, c.value, q, c.blockedQueue)
    <2> HIDE DEF c
    <2>1. c.value = sems[id].value
        BY DEF c
    <2>2. /\ Queued' /\ Counts(id, TRUE, c.value, c.blockedQueue)
          /\ Available(id) = c.value
        BY <1>1, <1>2, <1>4, <2>1, CallQueued
    <2>3. \A j \in SemIds : Same(j)
        BY <1>1, <1>2, <2>2 DEF Counts, Same, c
    <2> QED BY <1>1, <2>2, <2>3 DEF c
<1>5. CASE /\ q = n
           /\ frame' = [x \in Pids |-> IF frame[x] = id THEN Dangling ELSE frame[x]]
           /\ Became(id, e, z, n, n)
    <2>1. AllAsleep /\ AllAsleep'
        BY <1>1, CallerAlone, CloseHanded
    <2>2. \A j \in SemIds : Available(j) = sems[j].value /\ Available(j)' = sems'[j].value
        BY <1>3, <2>1, CountedNow, CountedNext
    <2>3. \A j \in SemIds : j # id => sems'[j] = sems[j] /\ Same(j)
        BY <1>5, <2>2 DEF Became, Same
    <2>4. Counts(id, FALSE, 0, <<>>)
        BY <1>2, <1>5, <2>2, <2>3 DEF Counts, Became
    <2>5. \A x \in Pids : frame'[x] \in SemIds => frame'[x] = frame[x] /\ frame[x] # id
        BY <1>5, SemConstants
    <2>6. sems'[id].blockedQueue = <<>>
        BY <1>2, <1>5 DEF Became
    <2>7. \A x \in Pids : frame'[x] \in SemIds =>
                x \in ToSet(sems'[frame'[x]].blockedQueue) \/ x = k'.cpu
        BY <1>1, <2>3, <2>5 DEF Queued
    <2>8. \A j \in SemIds : \A x \in ToSet(sems'[j].blockedQueue) : Alive(k', x)
        BY <1>1, <2>3, <2>6, EmptyQueue DEF Queued
    <2>9. \A j \in SemIds : sems'[j].blockedQueue # <<>> => Available(j)' = 0
        BY <2>3, <2>6 DEF Queued, Same
    <2>10. Queued'
        BY <2>7, <2>8, <2>9 DEF Queued
    <2>11. KeptOpen => c.blockedQueue = <<>>
        <3> SUFFICES ASSUME KeptOpen, c.blockedQueue # <<>> PROVE FALSE
            OBVIOUS
        <3>1. PICK x \in ToSet(c.blockedQueue) : x \in Pids
            BY <1>3, ListFacts
        <3>2. frame[x] = id
            BY <3>1 DEF Queued, HandedOver
        <3>3. x \in ToSet(c.activeQueue) /\ x # p
            BY <1>1, <3>1, <3>2, SemConstants DEF KeptOpen, Caller
        <3> QED BY <1>1, <1>2, <1>5, <3>3, EmptyQueue
    <2> QED BY <1>1, <2>4, <2>10, <2>11
<1> QED BY <1>1, <1>4, <1>5

(* What a step does to the counting semaphores: nothing, or one of their   *)
(* six operations on one of them.                                          *)
CountsAs(id) ==
    \/ /\ sems[id].exists = FALSE
       /\ \E value \in Values : Counts(id, TRUE, value, <<>>)
    \/ /\ sems[id].exists = TRUE /\ Available(id) > 0
       /\ Counts(id, TRUE, Available(id) - 1, sems[id].blockedQueue)
    \/ /\ sems[id].exists = TRUE /\ Available(id) = 0
       /\ \E p \in Pids : Counts(id, TRUE, 0, Append(sems[id].blockedQueue, p))
    \/ /\ sems[id].exists = TRUE /\ sems[id].blockedQueue = <<>>
       /\ Counts(id, TRUE, Available(id) + 1, sems[id].blockedQueue)
    \/ /\ sems[id].exists = TRUE /\ sems[id].blockedQueue # <<>>
       /\ Counts(id, TRUE, Available(id), Tail(sems[id].blockedQueue))
    \/ /\ sems[id].exists = TRUE /\ sems[id].blockedQueue = <<>>
       /\ Counts(id, FALSE, 0, <<>>)

CountsStep == (\A id \in SemIds : Same(id)) \/ (\E id \in SemIds : CountsAs(id))

(* Queued is inductive, and every step is one of the counting semaphores.  *)
LEMMA QueuedNext ==
    ASSUME WokenByPost, SleepersKept, SemState, SemState', HandedOver, Queued,
           [SemNext]_semVars
    PROVE  Queued' /\ (KeptOpen => CountsStep)
<1>2. CASE SchedulerStep
    BY <1>2, SchedulerQueued DEF CountsStep
<1>3. ASSUME NEW p \in Pids, NEW id \in SemIds, NEW value \in Values, NEW a \in Allocations,
             semOpenNew(p, id, value, a)
      PROVE  Queued' /\ CountsStep
    <2> DEFINE q == addToProcessQueue(<<>>, p, TRUE, a)
               n == <<>>
    <2>1. /\ Caller(p) /\ k' = k /\ frame' = frame /\ Became(id, TRUE, value, q, n)
          /\ sems[id] = NoSemaphore
        BY <1>3, OpenNewFacts
    <2>2. n = <<>> /\ n = sems[id].blockedQueue /\ sems[id].exists = FALSE
        BY <2>1 DEF NoSemaphore
    <2> HIDE DEF q, n
    <2>3. Queued' /\ Counts(id, TRUE, value, n)
        BY <2>1, <2>2, CallQueued
    <2>4. CountsAs(id)
        BY <2>2, <2>3 DEF CountsAs
    <2> QED BY <2>3, <2>4 DEF CountsStep
<1>4. ASSUME NEW p \in Pids, NEW id \in SemIds, NEW a \in Allocations,
             semOpenExisting(p, id, a)
      PROVE  Queued' /\ CountsStep
    <2> DEFINE q == addToProcessQueue(sems[id].activeQueue, p, TRUE, a)
    <2>1. /\ Caller(p) /\ k' = k /\ frame' = frame /\ sems[id].exists = TRUE
          /\ Became(id, TRUE, sems[id].value, q, sems[id].blockedQueue)
        BY <1>4, OpenExistingFacts
    <2> HIDE DEF q
    <2>2. /\ Queued' /\ Counts(id, TRUE, sems[id].value, sems[id].blockedQueue)
          /\ Available(id) = sems[id].value
        BY <2>1, CallQueued
    <2>3. \A j \in SemIds : Same(j)
        BY <2>1, <2>2 DEF Counts, Same
    <2> QED BY <2>2, <2>3 DEF CountsStep
<1>5. ASSUME NEW p \in Sleepers, NEW id \in SemIds, NEW a \in Allocations, semWait(p, id, a)
      PROVE  Queued' /\ CountsStep
    <2> DEFINE c == sems[id]
    <2>1. p \in Pids /\ c.value \in Int
        BY SemConstants, SemFields DEF SemState
    <2>2. /\ Caller(p) /\ c.exists = TRUE
          /\ \/ /\ k' = k /\ frame' = frame /\ c.value > 0
                /\ Became(id, TRUE, c.value - 1, c.activeQueue, c.blockedQueue)
             \/ /\ k' = blockProcess(k, p) /\ frame' = [frame EXCEPT ![p] = id] /\ c.value = 0
                /\ Became(id, TRUE, 0, c.activeQueue,
                          addToProcessQueue(c.blockedQueue, p, FALSE, a))
        BY <1>5, <2>1, WaitFacts
    <2>3. CASE /\ k' = k /\ frame' = frame /\ c.value > 0
               /\ Became(id, TRUE, c.value - 1, c.activeQueue, c.blockedQueue)
        <3>1. AllAsleep /\ IInv(k)
            BY <2>1, <2>2, CallerAlone DEF SemState
        <3>2. Available(id) = c.value
            BY <3>1, CountedNow
        <3>3. c.blockedQueue = <<>>
            BY <2>1, <2>3, <3>2 DEF Queued
        <3> HIDE DEF c
        <3>4. c.blockedQueue = sems[id].blockedQueue
            BY DEF c
        <3>5. Queued' /\ Counts(id, TRUE, c.value - 1, c.blockedQueue)
            BY <2>1, <2>2, <2>3, <3>3, <3>4, CallQueued
        <3>6. CountsAs(id)
            BY <2>2, <2>3, <3>2, <3>4, <3>5 DEF CountsAs, c
        <3> QED BY <3>5, <3>6 DEF CountsStep
    <2>4. CASE /\ k' = blockProcess(k, p) /\ frame' = [frame EXCEPT ![p] = id] /\ c.value = 0
               /\ Became(id, TRUE, 0, c.activeQueue,
                         addToProcessQueue(c.blockedQueue, p, FALSE, a))
        <3>1. /\ Queued' /\ Counts(id, TRUE, 0, Append(c.blockedQueue, p))
              /\ Available(id) = 0
            BY <2>2, <2>4, SleepQueued
        <3>2. CountsAs(id)
            BY <2>1, <2>2, <3>1 DEF CountsAs
        <3> QED BY <3>1, <3>2 DEF CountsStep
    <2> QED BY <2>2, <2>3, <2>4
<1>6. ASSUME NEW p \in Pids, SemWake(p) PROVE Queued' /\ CountsStep
    BY <1>6, WakeQueued DEF CountsStep
<1>7. ASSUME NEW p \in Pids, NEW id \in SemIds, semPost(p, id) PROVE Queued' /\ CountsStep
    <2>1. /\ Queued' /\ sems[id].exists = TRUE
          /\ \/ /\ sems[id].blockedQueue = <<>>
                /\ Counts(id, TRUE, Available(id) + 1, sems[id].blockedQueue)
             \/ /\ sems[id].blockedQueue # <<>>
                /\ Counts(id, TRUE, Available(id), Tail(sems[id].blockedQueue))
        BY <1>7, PostQueued
    <2>2. CountsAs(id)
        BY <2>1 DEF CountsAs
    <2> QED BY <2>1, <2>2 DEF CountsStep
<1>8. ASSUME NEW p \in Pids, NEW id \in SemIds, semClose(p, id)
      PROVE  Queued' /\ (KeptOpen => CountsStep)
    <2>1. /\ Queued' /\ sems[id].exists = TRUE
          /\ \/ \A j \in SemIds : Same(j)
             \/ /\ Counts(id, FALSE, 0, <<>>)
                /\ KeptOpen => sems[id].blockedQueue = <<>>
        BY <1>8, CloseQueued
    <2>2. KeptOpen => (\A j \in SemIds : Same(j)) \/ CountsAs(id)
        BY <2>1 DEF CountsAs
    <2> QED BY <2>1, <2>2 DEF CountsStep
<1>9. CASE UNCHANGED semVars
    <2>1. \A j \in SemIds : Same(j)
        BY <1>9 DEF semVars, Same, Available
    <2>2. Queued'
        BY <1>9, <2>1 DEF semVars, Queued, Same
    <2> QED BY <2>1, <2>2 DEF CountsStep
<1> QED BY <1>2, <1>3, <1>4, <1>5, <1>6, <1>7, <1>8, <1>9 DEF SemNext

(* Nobody waits when the machine starts.                                   *)
LEMMA QueuedInit ==
    SemInit => Queued
<1> SUFFICES ASSUME SemInit PROVE Queued
    OBVIOUS
<1>1. /\ \A id \in SemIds : sems[id].blockedQueue = <<>>
      /\ \A p \in Pids : frame[p] = User
    BY DEF SemInit, NoSemaphore
<1> QED BY <1>1, EmptyQueue, SemConstants DEF Queued

(* No wake-up is lost (addToProcessQueue in semWait, wakeup in semPost):   *)
(* the blocked queue of a semaphore holds exactly the processes asleep in  *)
(* it, all of them blocked, and while there is one nothing is available.   *)
(* Processes that wait are woken by semPost only, are not killed, and do   *)
(* get a queue node.                                                       *)
THEOREM NoLostWakeupCorrect ==
    ASSUME WokenByPost, SleepersKept
    PROVE  SemSpec => []NoLostWakeup
<1>1. SemInit => SemState /\ HandedOver /\ Queued
    BY SemStateInit, HandedInit, QueuedInit
<1>2. SemState /\ HandedOver /\ Queued /\ [SemNext]_semVars
        => SemState' /\ HandedOver' /\ Queued'
    BY SemStateNext, HandedNext, QueuedNext
<1>3. SemState /\ HandedOver /\ Queued => NoLostWakeup
    <2> SUFFICES ASSUME SemState, HandedOver, Queued, NEW id \in SemIds
                 PROVE  /\ ToSet(sems[id].blockedQueue) = Asleep(id) \ {k.cpu}
                        /\ \A p \in ToSet(sems[id].blockedQueue) : Contains(k.blocked, p)
                        /\ sems[id].blockedQueue # <<>> => Available(id) = 0
        BY DEF NoLostWakeup
    <2> DEFINE s == sems[id].blockedQueue
    <2>1. s \in Seq(Pids) /\ IInv(k) /\ k.blocked \in Seq(Pids)
        BY SemFields DEF SemState, IInv, Core, KernelState
    <2>2. \A q \in ToSet(s) : q \in Pids /\ frame[q] = id /\ q \in ToSet(k.blocked)
        BY <2>1, ListFacts DEF HandedOver, Queued
    <2>3. k.cpu \in Pids => k.cpu \notin ToSet(k.blocked)
        BY <2>1, RunningFacts
    <2>4. \A p \in Pids : frame[p] = id => p \in ToSet(s) \/ p = k.cpu
        BY DEF Queued
    <2>5. \A q \in ToSet(s) : Contains(k.blocked, q)
        BY <2>1, <2>2, ListFacts
    <2>6. s # <<>> => Available(id) = 0
        BY DEF Queued
    <2> HIDE DEF s
    <2>7. ToSet(s) = Asleep(id) \ {k.cpu}
        BY <2>2, <2>3, <2>4 DEF Asleep
    <2> QED BY <2>5, <2>6, <2>7 DEF s
<1> QED BY <1>1, <1>2, <1>3, PTL DEF SemSpec

---------------------------------------------------------------------------
(* The refinement.  The abstract variables, and what Counts says of them.  *)
OpenSet == [id \in SemIds |-> sems[id].exists]

AvailSet == [id \in SemIds |-> Available(id)]

QueueSet == [id \in SemIds |-> sems[id].blockedQueue]

(* One semaphore changes.                                                  *)
LEMMA CountsMapped ==
    ASSUME NEW id \in SemIds, NEW e, NEW v, NEW b, Counts(id, e, v, b)
    PROVE  /\ OpenSet' = [OpenSet EXCEPT ![id] = e]
           /\ AvailSet' = [AvailSet EXCEPT ![id] = v]
           /\ QueueSet' = [QueueSet EXCEPT ![id] = b]
           /\ sems[id].exists = e => OpenSet' = OpenSet
           /\ Available(id) = v => AvailSet' = AvailSet
           /\ sems[id].blockedQueue = b => QueueSet' = QueueSet
           /\ OpenSet[id] = sems[id].exists /\ AvailSet[id] = Available(id)
           /\ QueueSet[id] = sems[id].blockedQueue
<1>1. OpenSet' = [OpenSet EXCEPT ![id] = e] /\ (sems[id].exists = e => OpenSet' = OpenSet)
    BY DEF Counts, Same, OpenSet
<1>2. AvailSet' = [AvailSet EXCEPT ![id] = v] /\ (Available(id) = v => AvailSet' = AvailSet)
    BY DEF Counts, Same, AvailSet
<1>3. /\ QueueSet' = [QueueSet EXCEPT ![id] = b]
      /\ sems[id].blockedQueue = b => QueueSet' = QueueSet
    BY DEF Counts, Same, QueueSet
<1>4. /\ OpenSet[id] = sems[id].exists /\ AvailSet[id] = Available(id)
      /\ QueueSet[id] = sems[id].blockedQueue
    BY DEF OpenSet, AvailSet, QueueSet
<1> QED BY <1>1, <1>2, <1>3, <1>4

(* Every step is a step of the counting semaphores or leaves them alone.   *)
LEMMA CountsRefined ==
    ASSUME CountsStep
    PROVE  [Abstract!Next]_(Abstract!vars)
<1>1. CASE \A id \in SemIds : Same(id)
    <2>1. OpenSet' = OpenSet /\ AvailSet' = AvailSet /\ QueueSet' = QueueSet
        BY <1>1 DEF Same, OpenSet, AvailSet, QueueSet
    <2> QED BY <2>1 DEF Abstract!vars, OpenSet, AvailSet, QueueSet
<1>2. ASSUME NEW id \in SemIds, CountsAs(id) PROVE Abstract!Next
    <2> DEFINE n == <<>>
               z == 0
               f == FALSE
               t == TRUE
               s == sems[id].blockedQueue
               m == Available(id)
    <2>1. CASE sems[id].exists = FALSE /\ \E value \in Values : Counts(id, t, value, n)
        <3> HIDE DEF n, t
        <3>1. PICK value \in Values : Counts(id, t, value, n)
            BY <2>1
        <3>2. /\ OpenSet' = [OpenSet EXCEPT ![id] = t] /\ ~OpenSet[id]
              /\ AvailSet' = [AvailSet EXCEPT ![id] = value]
              /\ QueueSet' = [QueueSet EXCEPT ![id] = n]
            BY <2>1, <3>1, CountsMapped
        <3>3. Abstract!Open(id, value)
            BY <3>2 DEF Abstract!Open, OpenSet, AvailSet, QueueSet, n, t
        <3> QED BY <3>3 DEF Abstract!Next
    <2>2. CASE sems[id].exists = t /\ m > 0 /\ Counts(id, t, m - 1, s)
        <3> HIDE DEF s, t
        <3>1. /\ OpenSet' = OpenSet /\ OpenSet[id] = t /\ AvailSet[id] = m
              /\ AvailSet' = [AvailSet EXCEPT ![id] = m - 1] /\ QueueSet' = QueueSet
            BY <2>2, CountsMapped DEF s
        <3>2. AvailSet[id] > 0 /\ AvailSet' = [AvailSet EXCEPT ![id] = AvailSet[id] - 1]
            BY <2>2, <3>1
        <3>3. Abstract!Take(id)
            BY <3>1, <3>2 DEF Abstract!Take, OpenSet, AvailSet, QueueSet, t
        <3> QED BY <3>3 DEF Abstract!Next
    <2>3. CASE /\ sems[id].exists = t /\ m = z
               /\ \E p \in Pids : Counts(id, t, z, Append(s, p))
        <3>1. PICK p \in Pids : Counts(id, t, z, Append(s, p))
            BY <2>3
        <3> DEFINE r == Append(s, p)
        <3>2. Counts(id, t, z, r) /\ z = 0
            BY <3>1
        <3> HIDE DEF r, z, t
        <3>3. /\ OpenSet' = OpenSet /\ OpenSet[id] = t /\ AvailSet[id] = m /\ AvailSet' = AvailSet
              /\ QueueSet' = [QueueSet EXCEPT ![id] = r] /\ QueueSet[id] = s
            BY <2>3, <3>2, CountsMapped
        <3>4. AvailSet[id] = 0 /\ QueueSet' = [QueueSet EXCEPT ![id] = Append(QueueSet[id], p)]
            BY <2>3, <3>2, <3>3 DEF r
        <3>5. Abstract!Await(p, id)
            BY <3>3, <3>4 DEF Abstract!Await, OpenSet, AvailSet, QueueSet, t
        <3> QED BY <3>5 DEF Abstract!Next
    <2>4. CASE sems[id].exists = t /\ s = n /\ Counts(id, t, m + 1, s)
        <3> HIDE DEF s, t
        <3>1. /\ OpenSet' = OpenSet /\ OpenSet[id] = t /\ AvailSet[id] = m /\ QueueSet[id] = s
              /\ AvailSet' = [AvailSet EXCEPT ![id] = m + 1] /\ QueueSet' = QueueSet
            BY <2>4, CountsMapped DEF s
        <3>2. /\ QueueSet[id] = <<>>
              /\ AvailSet' = [AvailSet EXCEPT ![id] = AvailSet[id] + 1]
            BY <2>4, <3>1
        <3>3. Abstract!Give(id)
            BY <3>1, <3>2 DEF Abstract!Give, OpenSet, AvailSet, QueueSet, t
        <3> QED BY <3>3 DEF Abstract!Next
    <2>5. CASE sems[id].exists = t /\ s # n /\ Counts(id, t, m, Tail(s))
        <3> DEFINE r == Tail(s)
        <3>1. Counts(id, t, m, r)
            BY <2>5
        <3> HIDE DEF r, t
        <3>2. /\ OpenSet' = OpenSet /\ OpenSet[id] = t /\ AvailSet' = AvailSet
              /\ QueueSet' = [QueueSet EXCEPT ![id] = r] /\ QueueSet[id] = s
            BY <2>5, <3>1, CountsMapped
        <3>3. QueueSet[id] # <<>> /\ QueueSet' = [QueueSet EXCEPT ![id] = Tail(QueueSet[id])]
            BY <2>5, <3>2 DEF r
        <3>4. Abstract!PassOn(id)
            BY <3>2, <3>3 DEF Abstract!PassOn, OpenSet, AvailSet, QueueSet, t
        <3> QED BY <3>4 DEF Abstract!Next
    <2>6. CASE sems[id].exists = TRUE /\ s = n /\ Counts(id, f, z, n)
        <3>1. f = FALSE /\ z = 0 /\ n = <<>>
            OBVIOUS
        <3> HIDE DEF n, z, f
        <3>2. /\ OpenSet' = [OpenSet EXCEPT ![id] = f] /\ OpenSet[id] /\ QueueSet[id] = n
              /\ AvailSet' = [AvailSet EXCEPT ![id] = z] /\ QueueSet' = QueueSet
            BY <2>6, CountsMapped
        <3>3. Abstract!Close(id)
            BY <3>1, <3>2 DEF Abstract!Close, OpenSet, AvailSet, QueueSet
        <3> QED BY <3>3 DEF Abstract!Next
    <2> QED BY <1>2, <2>1, <2>2, <2>3, <2>4, <2>5, <2>6 DEF CountsAs
<1> QED BY <1>1, <1>2 DEF CountsStep

(* The semaphores implement counting semaphores whose units go to the      *)
(* waiting processes in the order they arrived: semOpen, semWait, semPost  *)
(* and semClose are Open, Take or Await, Give or PassOn, and Close of      *)
(* CountingSemaphore, and everything else, the decrement of the process    *)
(* that was woken included, leaves it alone.                               *)
THEOREM CountingRefined ==
    ASSUME WokenByPost, SleepersKept, OpenBeforeWait
    PROVE  SemSpec => ImplementsCounting
<1>1. SemInit => SemState /\ KeptOpen /\ HandedOver /\ Queued
    <2>1. SemInit => KeptOpen
        BY SemConstants DEF SemInit, KeptOpen
    <2> QED BY <2>1, SemStateInit, HandedInit, QueuedInit
<1>2. SemState /\ KeptOpen /\ HandedOver /\ Queued /\ [SemNext]_semVars
        => SemState' /\ KeptOpen' /\ HandedOver' /\ Queued' /\ CountsStep
    BY SemStateNext, KeptOpenNext, HandedNext, QueuedNext
<1>3. CountsStep => [Abstract!Next]_(Abstract!vars)
    BY CountsRefined
<1>4. SemInit => Abstract!Init
    <2> SUFFICES ASSUME SemInit PROVE Abstract!Init
        OBVIOUS
    <2>1. SemState /\ AllAsleep /\ sems = [id \in SemIds |-> NoSemaphore]
        BY SemStateInit DEF SemInit, AllAsleep
    <2>2. \A id \in SemIds : Available(id) = sems[id].value
        BY <2>1, CountedNow DEF SemState
    <2>3. \A id \in SemIds : /\ sems[id].exists = FALSE /\ Available(id) = 0
                             /\ sems[id].blockedQueue = <<>>
        BY <2>1, <2>2 DEF NoSemaphore
    <2> QED BY <2>3 DEF Abstract!Init
<1> QED BY <1>1, <1>2, <1>3, <1>4, PTL DEF SemSpec, ImplementsCounting, Abstract!Spec

=============================================================================
