----------------------------- MODULE Scheduler -----------------------------
(***************************************************************************)
(* The process scheduler of the kernel: Kernel/Scheduler/scheduler.c,      *)
(* processCreate of Kernel/Scheduler/processManagement.c, main of          *)
(* Kernel/kernel.c, and the interrupt entries that drive them.             *)
(*                                                                         *)
(* There is one CPU and every gate of the IDT is an interrupt gate, so a   *)
(* system call, an exception or an interrupt runs to its end, or to its    *)
(* own `int 20h', with interrupts masked.  Each action below is one such   *)
(* entry into the kernel, the context switch it ends with included.        *)
(*                                                                         *)
(* The kernel's static data is the record k and each function of the code  *)
(* is an operator that maps one value of k to the next:                    *)
(*   ready, blocked   readyList and blockedList (see ProcessLists)         *)
(*   pcb              the PCB and the priorityCounter of every process     *)
(*   halt, firstTime, haltRsp    the statics of the same names             *)
(*   pid              the pid processCreate gives next                     *)
(*   cpu              whose stack rsp points into: the running context     *)
(*   idt0             the descriptor of vector 0, at address 0, is intact  *)
(*   up               FALSE once the machine has stopped or reset          *)
(***************************************************************************)
EXTENDS ProcessLists

CONSTANTS
    MaxPid,      \* bound on the pids that are handed out
    Priorities,  \* the values passed to sys_changePriority
    Word,        \* the number of values of a size_t
    Third,       \* processes that others may block and unblock
    Victims,     \* processes that others may kill
    Consoles,    \* processes whose background flag may be set
    Readers,     \* processes a keyboard interrupt may wake
    Faulty       \* processes that may raise a CPU exception

VARIABLE k

LOW    == 1
MEDIUM == 2
HIGH   == 3

Pids == 1..MaxPid

ASSUME SchedulerAssumption ==
    /\ MaxPid \in Nat /\ MaxPid >= 1
    /\ Priorities \subseteq Nat
    /\ Word \in Nat /\ Word > HIGH
    /\ \A n \in Priorities : n < Word
    /\ Third \cup Victims \cup Consoles \cup Readers \cup Faulty \subseteq Pids

(* Contexts: a process's own stack, the stack of haltProc (pid 0), and the *)
(* boot stack main runs on.  NULL is haltRsp before haltProc exists.       *)
HaltProc == 0
Boot     == -1
NULL     == -2
Contexts == Pids \cup {HaltProc, Boot}

States      == {"FREE", "READY", "BLOCKED", "TERMINATED"}
Backgrounds == {"FOREGROUND", "BACKGROUND"}
Vectors     == {"divideByZero", "invalidOpCode"}
Outcomes    == {"ok", "noStack", "noNode"}   \* of processCreate's two allocs

PCB == [state : States, priority : 0..(Word - 1), background : Backgrounds,
        rsp : Contexts, priorityCounter : 0..(Word - 1)]

KernelState == [ready : Seq(Pids), blocked : Seq(Pids), pcb : [Pids -> PCB],
                halt : BOOLEAN, firstTime : BOOLEAN, haltRsp : Contexts,
                pid : 1..(MaxPid + 1), cpu : Contexts, idt0 : BOOLEAN, up : BOOLEAN]

(* A pid with no node: not created yet, or freed.                          *)
Free == [state |-> "FREE", priority |-> 0, background |-> "BACKGROUND",
         rsp |-> Boot, priorityCounter |-> 0]

---------------------------------------------------------------------------
(* searchReadyNode and searchBlockNode: is there a node of p in the list?  *)
searchReadyNode(s, p) == Contains(s.ready, p)

searchBlockNode(s, p) == Contains(s.blocked, p)

searchNode(s, p) == searchReadyNode(s, p) \/ searchBlockNode(s, p)

setBackground(s, p, b) ==
    IF searchNode(s, p) THEN [s EXCEPT !.pcb[p].background = b] ELSE s

(* Mutant: the quantum is reloaded whatever the counter was.               *)
changePriorityReloads(s, p, n) ==
    IF searchNode(s, p)
    THEN [s EXCEPT !.pcb[p].priority = n, !.pcb[p].priorityCounter = n]
    ELSE s

(* Mutant: the rest of the quantum is not cut.                             *)
changePriorityKeeps(s, p, n) ==
    IF searchNode(s, p) THEN [s EXCEPT !.pcb[p].priority = n] ELSE s

(* A priority above the counter leaves the rest of the quantum alone, one  *)
(* below it cuts the quantum short.                                        *)
changePriority(s, p, n) ==
    IF searchNode(s, p)
    THEN [s EXCEPT !.pcb[p].priority = n,
                   !.pcb[p].priorityCounter = IF @ > n THEN n ELSE @]
    ELSE s

(* Mutant: the stack of haltProc is not recorded.                          *)
schedulerAddProcessNoHalt(s, p) ==
    IF p = 0
    THEN s
    ELSE [s EXCEPT !.ready = AddLast(@, p),
                   !.pcb[p] = [state |-> "READY", priority |-> MEDIUM,
                               background |-> "BACKGROUND", rsp |-> p,
                               priorityCounter |-> MEDIUM]]

(* A new process goes to the end of the ready list; pid 0 is no process    *)
(* but the context the CPU idles in.                                       *)
schedulerAddProcess(s, p) ==
    IF p = 0
    THEN [s EXCEPT !.haltRsp = HaltProc]
    ELSE [s EXCEPT !.ready = AddLast(@, p),
                   !.pcb[p] = [state |-> "READY", priority |-> MEDIUM,
                               background |-> "BACKGROUND", rsp |-> p,
                               priorityCounter |-> MEDIUM]]

(* The pid is consumed before the node is allocated, so a failure of that  *)
(* second allocation loses it.                                             *)
processCreate(s, outcome) ==
    CASE outcome = "noStack" -> s
      [] outcome = "noNode" /\ s.pid # 0 -> [s EXCEPT !.pid = @ + 1]
      [] OTHER -> schedulerAddProcess([s EXCEPT !.pid = @ + 1], s.pid)

(* From the ready list to the front of the blocked list, quantum reloaded. *)
removeBlocked(s, p) ==
    [s EXCEPT !.ready   = Unlink(@, p),
              !.blocked = Push(@, p),
              !.pcb[p].priorityCounter = s.pcb[p].priority]

(* Mutant: the state is left BLOCKED, so the next tick blocks it again.    *)
unblockProcessKeepsState(s, p) ==
    IF searchBlockNode(s, p)
    THEN [s EXCEPT !.blocked = Unlink(@, p), !.ready = AddNext(@, p)]
    ELSE s

(* A woken process runs right after the current one.                       *)
unblockProcess(s, p) ==
    IF searchBlockNode(s, p)
    THEN [s EXCEPT !.blocked = Unlink(@, p),
                   !.ready   = AddNext(@, p),
                   !.pcb[p].state = "READY"]
    ELSE s

(* Unlinks and frees the node.  Removing the only blocked process stores   *)
(* NULL through blockedList.first when that is NULL itself: the store hits *)
(* address 0, where the IDT lies, and clears the gate of vector 0.         *)
removeTerminated(s, p) ==
    IF searchReadyNode(s, p)
    THEN [s EXCEPT !.ready = Unlink(@, p), !.pcb[p] = Free]
    ELSE [s EXCEPT !.blocked = Unlink(@, p), !.pcb[p] = Free,
                   !.idt0 = @ /\ s.blocked # <<p>>]

---------------------------------------------------------------------------
(* The outgoing context is saved in haltRsp or in the current PCB; the     *)
(* very first tick drops the boot context.                                 *)
SaveContext(s) ==
    CASE s.halt -> [s EXCEPT !.haltRsp = s.cpu]
      [] ~s.halt /\ ~s.firstTime -> [s EXCEPT !.pcb[Current(s.ready)].rsp = s.cpu]
      [] OTHER -> s

(* rsp < current->pcb.memStart: the boot stack lies below the heap every   *)
(* process stack is taken from.  Overflow of a process's own stack is not  *)
(* modelled.                                                               *)
MemoryCollision(s) == ~s.halt /\ ~s.firstTime /\ s.cpu = Boot

(* Mutant: the quantum is reloaded but the turn does not pass on.          *)
LeaveCpuNoRotation(s) ==
    LET p == Current(s.ready)
    IN  CASE s.pcb[p].state = "TERMINATED" -> removeTerminated(s, p)
          [] s.pcb[p].state = "BLOCKED" -> removeBlocked(s, p)
          [] s.pcb[p].state = "READY" /\ s.pcb[p].priorityCounter = 0 ->
                [s EXCEPT !.pcb[p].priorityCounter = s.pcb[p].priority]
          [] OTHER -> s

(* The current process leaves the front of the ready list if it ended,     *)
(* blocked or used up its quantum.                                         *)
LeaveCpu(s) ==
    LET p == Current(s.ready)
    IN  CASE s.pcb[p].state = "TERMINATED" -> removeTerminated(s, p)
          [] s.pcb[p].state = "BLOCKED" -> removeBlocked(s, p)
          [] s.pcb[p].state = "READY" /\ s.pcb[p].priorityCounter = 0 ->
                [s EXCEPT !.pcb[p].priorityCounter = s.pcb[p].priority,
                          !.ready = Rotate(@)]
          [] OTHER -> s

(* Mutant: `halt' is not set when the ready list runs empty.               *)
TakeCpuNoHalt(s) ==
    IF s.ready = <<>>
    THEN [s EXCEPT !.cpu = s.haltRsp]
    ELSE [s EXCEPT !.cpu = s.pcb[Current(s.ready)].rsp,
                   !.pcb[Current(s.ready)].priorityCounter = (@ - 1) % Word]

(* The new current process gets the CPU and one tick of its quantum is     *)
(* charged, as an unsigned decrement; with nobody ready the CPU idles.     *)
TakeCpu(s) ==
    IF s.ready = <<>>
    THEN [s EXCEPT !.halt = TRUE, !.cpu = s.haltRsp]
    ELSE [s EXCEPT !.cpu = s.pcb[Current(s.ready)].rsp,
                   !.pcb[Current(s.ready)].priorityCounter = (@ - 1) % Word]

scheduler(s) ==
    LET saved == [SaveContext(s) EXCEPT !.halt = FALSE, !.firstTime = FALSE]
    IN  CASE s.haltRsp = NULL -> s
          [] s.haltRsp # NULL /\ MemoryCollision(s) -> [s EXCEPT !.up = FALSE]
          [] OTHER -> TakeCpu(IF saved.ready = <<>> THEN saved ELSE LeaveCpu(saved))

---------------------------------------------------------------------------
(* The current process blocks by giving up the CPU in `int 20h'.           *)
blockProcess(s, p) ==
    CASE Current(s.ready) = p -> scheduler([s EXCEPT !.pcb[p].state = "BLOCKED"])
      [] Current(s.ready) # p /\ searchReadyNode(s, p) ->
            removeBlocked([s EXCEPT !.pcb[p].state = "BLOCKED"], p)
      [] OTHER -> s

(* Mutant: the shell becomes foreground but is not woken.                  *)
HandBackNoWake(s, p) ==
    IF s.pcb[p].background = "FOREGROUND" THEN setBackground(s, 1, "FOREGROUND") ELSE s

(* A foreground process that ends gives the console back to the shell.     *)
HandBack(s, p) ==
    IF s.pcb[p].background = "FOREGROUND"
    THEN unblockProcess(setBackground(s, 1, "FOREGROUND"), 1)
    ELSE s

terminateProcess(s, p) ==
    IF p = 1 THEN s
    ELSE IF Current(s.ready) = p
    THEN scheduler(HandBack([s EXCEPT !.pcb[p].state = "TERMINATED"], p))
    ELSE IF searchReadyNode(s, p)
    THEN removeTerminated([HandBack(s, p) EXCEPT !.pcb[p].state = "TERMINATED"], p)
    ELSE IF searchBlockNode(s, p)
    THEN removeTerminated(HandBack(s, p), p)
    ELSE s

yield(s) == scheduler([s EXCEPT !.pcb[Current(s.ready)].priorityCounter = 0])

(* main: haltProc and the shell are created, load_idt writes the gates and *)
(* the boot context waits for the first tick.                              *)
main(s, haltOutcome, shellOutcome) ==
    LET t == processCreate(s, haltOutcome)
        u == processCreate(t, shellOutcome)
        shell == IF shellOutcome = "ok" THEN t.pid ELSE -1
    IN  [setBackground(changePriority(u, shell, HIGH), shell, "FOREGROUND")
            EXCEPT !.cpu = Boot, !.idt0 = TRUE]

(* An exception ends the process that raised it.  Only the shell, which    *)
(* cannot be terminated, comes back: restart then runs main a second time. *)
(* Without the gate of vector 0 a division by zero is a triple fault.      *)
exceptionDispatcher(s, vector, haltOutcome, shellOutcome) ==
    CASE vector = "divideByZero" /\ ~s.idt0 -> [s EXCEPT !.up = FALSE]
      [] ~(vector = "divideByZero" /\ ~s.idt0) /\ Current(s.ready) # 1 ->
            terminateProcess(s, Current(s.ready))
      [] OTHER -> main(s, haltOutcome, shellOutcome)

---------------------------------------------------------------------------
(* The statics of the kernel when the loader calls main.                   *)
Loaded == [ready |-> <<>>, blocked |-> <<>>, pcb |-> [p \in Pids |-> Free],
           halt |-> FALSE, firstTime |-> TRUE, haltRsp |-> NULL, pid |-> 0,
           cpu |-> Boot, idt0 |-> TRUE, up |-> TRUE]

Init == k = main(Loaded, "ok", "ok")

(* A process executes on the CPU and may enter the kernel.                 *)
Running(p) == k.up /\ k.cpu = p

(* IRQ 0.  Interrupts are enabled in user mode, in haltProc and in main's  *)
(* final loop.                                                             *)
Tick == k.up /\ k' = scheduler(k)

(* IRQ 1: the keyboard handler wakes the process that waits for a key.     *)
KeyboardIrq(p) == k.up /\ k' = unblockProcess(k, p)

SysYield == \E p \in Pids : Running(p) /\ k' = yield(k)

SysExit == \E p \in Pids : Running(p) /\ k' = terminateProcess(k, p)

SysKill(q) == \E p \in Pids : Running(p) /\ k' = terminateProcess(k, q)

SysBlock(q) == \E p \in Pids : /\ Running(p)
                               /\ q = p \/ q \in Third
                               /\ k' = blockProcess(k, q)

SysUnblock(q) == \E p \in Pids : Running(p) /\ k' = unblockProcess(k, q)

SysChangePriority(q, n) ==
    \E p \in Pids : Running(p) /\ k' = changePriority(k, q, n)

SysSetBackground(q, b) ==
    \E p \in Pids : Running(p) /\ k' = setBackground(k, q, b)

SysCreateProcess(outcome) ==
    \E p \in Pids : /\ Running(p)
                    /\ k.pid <= MaxPid
                    /\ k' = processCreate(k, outcome)

Exception(vector, haltOutcome, shellOutcome) ==
    \E p \in Faulty : /\ Running(p)
                      /\ p = 1 => k.pid + 1 <= MaxPid
                      /\ k' = exceptionDispatcher(k, vector, haltOutcome, shellOutcome)

Next ==
    \/ Tick
    \/ \E p \in Readers : KeyboardIrq(p)
    \/ SysYield
    \/ SysExit
    \/ \E q \in Victims : SysKill(q)
    \/ \E q \in Pids : SysBlock(q)
    \/ \E q \in Third : SysUnblock(q)
    \/ \E q \in Pids, n \in Priorities : SysChangePriority(q, n)
    \/ \E q \in Consoles, b \in Backgrounds : SysSetBackground(q, b)
    \/ \E outcome \in Outcomes : SysCreateProcess(outcome)
    \/ \E vector \in Vectors, h \in Outcomes, o \in Outcomes : Exception(vector, h, o)

Spec == Init /\ [][Next]_k

(* The 8254 interrupts 18 times a second whatever the program does.        *)
FairSpec == Spec /\ WF_k(Tick)
---------------------------------------------------------------------------
Live(p) == k.pcb[p].state # "FREE"

(* A live process other than the one the quantum of which is running.      *)
Waiting(p) == Live(p) /\ (k.halt \/ p # Current(k.ready))

TypeOK == k \in KernelState

(* Every process that was created and not freed is a node of exactly one   *)
(* of the two lists, once, and its PCB says which; no node of a terminated *)
(* process outlives the kernel entry that ended it (schedulerAddProcess,   *)
(* removeBlocked, unblockProcess, removeTerminated together).              *)
ListsAgree ==
    /\ IsInjective(k.ready) /\ IsInjective(k.blocked)
    /\ ToSet(k.ready) = {p \in Pids : k.pcb[p].state = "READY"}
    /\ ToSet(k.blocked) = {p \in Pids : k.pcb[p].state = "BLOCKED"}
    /\ \A p \in Pids : k.pcb[p].state # "TERMINATED"
    /\ \A p \in Pids : Live(p) => p < k.pid

(* scheduler() saves the outgoing stack pointer into whatever              *)
(* readyList.current is at the moment.  While the machine is up that is    *)
(* always the process the pointer belongs to: every saved context, the     *)
(* idle one included, is its owner's, the CPU runs the current process or  *)
(* idles, and `halt' says which.                                           *)
ContextIntegrity ==
    /\ \A p \in Pids : Live(p) => k.pcb[p].rsp = p
    /\ k.haltRsp = HaltProc
    /\ k.halt <=> k.cpu = HaltProc
    /\ ~k.halt => k.ready # <<>>
    /\ k.cpu \in Pids => k.cpu = Current(k.ready)

(* No process holds the CPU for more ticks than its priority says, so a    *)
(* process of lower priority never gets the longer quantum.                *)
QuantumWithinPriority ==
    \A p \in Pids : Live(p) => k.pcb[p].priorityCounter <= k.pcb[p].priority

(* The unsigned priorityCounter never wraps below zero: it stays within    *)
(* the priority of its process, and a process that waits for its turn has  *)
(* at least one tick left, which is the tick scheduler() charges when it   *)
(* takes the CPU.                                                          *)
QuantumBounded ==
    /\ QuantumWithinPriority
    /\ \A p \in Pids : Waiting(p) => k.pcb[p].priorityCounter >= 1

(* While another process is ready, nothing the process on the CPU does     *)
(* (raising its own priority, blocking and waking others, yielding) gives  *)
(* it more ticks before it has to let the others run.                      *)
NoQuantumExtension ==
    [][ k.cpu \in Pids /\ k'.cpu = k.cpu /\ Len(k.ready) > 1 /\ Len(k'.ready) > 1
        => k'.pcb[k.cpu].priorityCounter <= k.pcb[k.cpu].priorityCounter ]_k

(* The console is never orphaned: the step that ends a foreground process, *)
(* by exit, kill or exception, leaves the shell in the foreground and      *)
(* ready to run.                                                           *)
ShellHandback ==
    [][ \A p \in Pids : Live(p) /\ k.pcb[p].background = "FOREGROUND" /\ ~Live(p)'
            => k'.pcb[1].background = "FOREGROUND" /\ Contains(k'.ready, 1) ]_k

(* A process that is ready gets the CPU, blocks or ends; it does not wait  *)
(* for ever behind the others.                                             *)
ReadyRuns ==
    \A p \in Pids : Contains(k.ready, p) ~> (k.cpu = p \/ ~Contains(k.ready, p))

(* A run of main on the boot stack ends with a process on the CPU, the     *)
(* first time and after restart.                                           *)
BootReachesProcess == k.cpu = Boot ~> k.cpu \in Pids

(* Exceptions raised by processes other than the shell are handled by      *)
(* ending the process: the machine goes on.                                *)
StaysUp == k.up
============================================================================
