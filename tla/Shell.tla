------------------------------- MODULE Shell -------------------------------
(***************************************************************************)
(* Job control: Userland/SampleCodeModule/shell.c, with the commands of    *)
(* commands.c that read the console, block, unblock or end a process.      *)
(*                                                                         *)
(* The shell and its jobs may be preempted between any two system calls.   *)
(* They meet in two semaphores, START_PROC_SEM, with which the shell lets  *)
(* a job begin once it is set up, and SEM_READ, which passes the keyboard  *)
(* around; in the background flags; and in terminateProcess, which gives   *)
(* the console back to the shell and wakes it, whatever it sleeps in.      *)
(*                                                                         *)
(* place[p] says where process p is.                                       *)
(*   shell  "wait" "waiting"   in front of and asleep in semwait(SEM_READ) *)
(*          "mode"             looks at its own flag                       *)
(*          "prompt" "watch"   in sys_read, in the fore- and background    *)
(*          "release"          in front of sempost(SEM_READ)               *)
(*          "create" "map" "retreat" "promote" "post"  starts a command    *)
(*   job    "start" "starting" the same for START_PROC_SEM                 *)
(*          "body"   runs its command; a reader calls semwait(SEM_READ)    *)
(*          "asking" is asleep in it                                       *)
(*          "read"   has the unit and reads                                *)
(*          "give"   in front of sempost(SEM_READ)                         *)
(*          "exit"   in front of sys_exit                                  *)
(* Two things the shell does not wait for are left out: nice and the       *)
(* priorities (Scheduler), and the semaphore inside sys_read (Keyboard).   *)
(***************************************************************************)
EXTENDS SequencesExt, Integers

CONSTANTS
    MaxJob,     \* bound on the pids of jobs
    Commands,   \* command lines: the kinds of the jobs, and whether there is a `&'
    Word        \* number of values of a semaphore

Kinds == {"plain", "reader", "kill", "block"}   \* "plain" ends by itself or loops

ASSUME ShellAssumption ==
    /\ MaxJob \in Nat /\ MaxJob >= 2 /\ Word \in Nat /\ Word > MaxJob
    /\ \A c \in Commands : /\ c.kinds \in Seq(Kinds) /\ Len(c.kinds) \in {1, 2}
                            /\ c.back \in BOOLEAN

VARIABLES
    place, job, background, blocked,
    forePid,
    command,      \* the line the shell is working on
    newPids,      \* the processes it has created for it
    nextPid,
    startSem, readSem,
    trouble       \* history: what has gone wrong, see below

shellVars == <<place, job, background, blocked, forePid, command, newPids, nextPid,
               startSem, readSem, trouble>>

shellPid == 1
Jobs     == 2..MaxJob
Procs    == {shellPid} \cup Jobs
None     == -1

(* What may go wrong:                                                      *)
(*   early     a unit of START_PROC_SEM is left over: the job it was for   *)
(*             was killed before it took it, or could not be created       *)
(*   keyboard  the unit of SEM_READ is gone: its owner was killed, or is   *)
(*             blocked with it, reading from the background or from a pipe *)
(*             nobody has closed, or a process was killed in the queue     *)
(*   console   the shell gave the console to a job that does not exist     *)
(*   woken     a process asleep in a semaphore was woken without a unit    *)
(*   stopped   a process was blocked by hand                               *)
Troubles == {"early", "keyboard", "console", "woken", "stopped"}

NoJob     == [kind |-> "plain", source |-> "keyboard", left |-> None]
NoCommand == [kinds |-> <<"plain">>, back |-> FALSE]

Exists(p)  == p \in Procs /\ place[p] # "none"
Runs(p, where) == place[p] = where /\ p \notin blocked
Flag(name, condition) == IF condition THEN {name} ELSE {}

ReadSleeps == {"waiting", "asking"}
Sleeps     == ReadSleeps \cup {"starting"}

(* Where a sleeper goes on.                                                *)
Woken(where) ==
    CASE where = "starting" -> "body" [] where = "asking" -> "read" [] where = "waiting" -> "mode"

---------------------------------------------------------------------------
(* semWait by p: s2 is the semaphore s afterwards.                         *)
semWait(p, s, s2, asleep) ==
    IF s.value > 0
    THEN /\ s2 = [s EXCEPT !.value = @ - 1]
         /\ place' = [place EXCEPT ![p] = Woken(asleep)]
         /\ UNCHANGED blocked
    ELSE /\ s2 = [s EXCEPT !.queue = Append(@, p)]
         /\ place' = [place EXCEPT ![p] = asleep]
         /\ blocked' = blocked \cup {p}

(* semPost by p, which goes on at `next'.  The first of the queue gets the *)
(* unit and the CPU (Semaphores!HandOff) if it still sleeps there; if it   *)
(* was killed or woken in the meantime the unit stays in the semaphore.    *)
semPost(p, s, s2, sleeps, next) ==
    LET first   == IF s.queue = <<>> THEN None ELSE Head(s.queue)
        sleeper == first \in blocked /\ place[first] \in sleeps
    IN  /\ s2 = [queue |-> IF s.queue = <<>> THEN <<>> ELSE Tail(s.queue),
                 value |-> IF sleeper THEN s.value ELSE (s.value + 1) % Word]
        /\ place' = IF sleeper THEN [place EXCEPT ![p] = next, ![first] = Woken(@)]
                    ELSE [place EXCEPT ![p] = next]
        /\ blocked' = blocked \ {first}

(* A sleeper that was not woken by a post goes on all the same.            *)
WakeUpStart(p) ==
    /\ Runs(p, "starting")
    /\ startSem' = [startSem EXCEPT !.value = (@ - 1) % Word]
    /\ place' = [place EXCEPT ![p] = Woken(@)]
    /\ UNCHANGED <<job, background, blocked, forePid, command, newPids, nextPid, readSem, trouble>>

WakeUpRead(p) ==
    /\ Runs(p, "waiting") \/ Runs(p, "asking")
    /\ readSem' = [readSem EXCEPT !.value = (@ - 1) % Word]
    /\ place' = [place EXCEPT ![p] = Woken(@)]
    /\ UNCHANGED <<job, background, blocked, forePid, command, newPids, nextPid, startSem, trouble>>

---------------------------------------------------------------------------
(* The end of process q while the others are at `where': the console goes  *)
(* back to the shell, and the queues keep the pid.                         *)
terminateProcess(q, where) ==
    LET back == background[q] = "FOREGROUND"
    IN  /\ place' = [where EXCEPT ![q] = "none"]
        /\ background' = IF back THEN [background EXCEPT ![shellPid] = "FOREGROUND"] ELSE background
        /\ blocked' = blocked \ ({q} \cup (IF back THEN {shellPid} ELSE {}))
        /\ trouble' = trouble
              \cup Flag("early", place[q] \in {"start", "starting"})
              \cup Flag("keyboard", place[q] \in {"read", "give", "asking"})
              \cup Flag("woken", back /\ shellPid \in blocked /\ place[shellPid] = "waiting")

sys_kill(q, where) ==
    IF q \in Jobs /\ Exists(q)
    THEN terminateProcess(q, where)
    ELSE place' = where /\ UNCHANGED <<background, blocked, trouble>>

(* A process in sys_read is woken by the next key, however it was blocked. *)
AtKeyboard(q) ==
    \/ place[q] \in {"prompt", "watch"}
    \/ q # shellPid /\ place[q] = "read" /\ job[q].source = "keyboard" /\ background[q] = "FOREGROUND"

(* block: sys_block, and sys_unblock if that is refused.                   *)
BlockOrUnblock(q) ==
    IF q \in blocked
    THEN /\ blocked' = blocked \ {q}
         /\ trouble' = trouble \cup Flag("woken", place[q] \in Sleeps)
    ELSE LET stops == Exists(q) /\ ~AtKeyboard(q)
         IN  /\ blocked' = IF stops THEN blocked \cup {q} ELSE blocked
             /\ trouble' = trouble \cup Flag("stopped", stops)

---------------------------------------------------------------------------
(* readInput.                                                              *)
WaitRead ==
    /\ Runs(shellPid, "wait")
    /\ semWait(shellPid, readSem, readSem', "waiting")
    /\ UNCHANGED <<job, background, forePid, command, newPids, nextPid, startSem, trouble>>

LookAtMode ==
    /\ Runs(shellPid, "mode")
    /\ place' = [place EXCEPT ![shellPid] =
                    IF background[shellPid] = "FOREGROUND" THEN "prompt" ELSE "watch"]
    /\ UNCHANGED <<job, background, blocked, forePid, command, newPids, nextPid,
                   startSem, readSem, trouble>>

(* A line that is no command, or control-C at the prompt.                  *)
IdleLine ==
    /\ Runs(shellPid, "prompt")
    /\ place' = [place EXCEPT ![shellPid] = "release"]
    /\ UNCHANGED <<job, background, blocked, forePid, command, newPids, nextPid,
                   startSem, readSem, trouble>>

(* A line takes longer to type than a job takes to its first system call,  *)
(* so the jobs of the last one have come to START_PROC_SEM.                *)
Settled == \A p \in Jobs : ~Runs(p, "start")

CommandLine(c) ==
    /\ Runs(shellPid, "prompt") /\ Settled
    /\ nextPid + Len(c.kinds) - 1 <= MaxJob
    /\ semPost(shellPid, readSem, readSem', ReadSleeps, "create")
    /\ command' = c
    /\ newPids' = <<>>
    /\ UNCHANGED <<job, background, forePid, nextPid, startSem, trouble>>

(* Control-C while a job has the console: sys_read returns 3, as it does   *)
(* for a line of two letters once the console has come back.               *)
Interrupt ==
    /\ Runs(shellPid, "watch")
    /\ sys_kill(forePid, [place EXCEPT ![shellPid] = "release"])
    /\ UNCHANGED <<job, forePid, command, newPids, nextPid, startSem, readSem>>

(* Any other line is lost.  It ends sys_read only when the console has     *)
(* come back: in the background sys_read returns 0 for all other keys.     *)
LostLine ==
    /\ Runs(shellPid, "watch")
    /\ background[shellPid] = "FOREGROUND"
    /\ place' = [place EXCEPT ![shellPid] = "release"]
    /\ UNCHANGED <<job, background, blocked, forePid, command, newPids, nextPid,
                   startSem, readSem, trouble>>

ReleaseRead ==
    /\ Runs(shellPid, "release")
    /\ semPost(shellPid, readSem, readSem', ReadSleeps, "wait")
    /\ UNCHANGED <<job, background, forePid, command, newPids, nextPid, startSem, trouble>>

---------------------------------------------------------------------------
(* runCommand and runPipedCommands.                                        *)
Piped == Len(command.kinds) = 2

(* Where the shell goes when it has created n processes.                   *)
AfterCreate(n) ==
    CASE n < Len(command.kinds)             -> "create"
      [] n = Len(command.kinds) /\ Piped    -> "map"
      [] n = Len(command.kinds) /\ ~Piped   -> IF command.back THEN "post" ELSE "retreat"

(* Without memory createprocess returns -1 and nobody looks.               *)
CreateFails ==
    /\ Runs(shellPid, "create")
    /\ newPids' = Append(newPids, None)
    /\ place' = [place EXCEPT ![shellPid] = AfterCreate(Len(newPids) + 1)]
    /\ trouble' = trouble \cup {"early"}
    /\ UNCHANGED <<job, background, blocked, forePid, command, nextPid, startSem, readSem>>

createprocess ==
    /\ Runs(shellPid, "create")
    /\ newPids' = Append(newPids, nextPid)
    /\ job' = [job EXCEPT ![nextPid] = [NoJob EXCEPT !.kind = command.kinds[Len(newPids) + 1]]]
    /\ place' = [place EXCEPT ![shellPid] = AfterCreate(Len(newPids) + 1), ![nextPid] = "start"]
    /\ nextPid' = nextPid + 1
    /\ UNCHANGED <<background, blocked, forePid, command, startSem, readSem, trouble>>

(* The second process reads from the pipe.  The shell closes both ends; a  *)
(* job holds the end it uses until it ends, as does the first one.         *)
MapStdFds ==
    LET right == newPids[2]
    IN  /\ Runs(shellPid, "map")
        /\ job' = IF Exists(right)
                  THEN [job EXCEPT ![right].source = "pipe", ![right].left = newPids[1]]
                  ELSE job
        /\ place' = [place EXCEPT ![shellPid] = IF command.back THEN "post" ELSE "retreat"]
        /\ UNCHANGED <<background, blocked, forePid, command, newPids, nextPid,
                       startSem, readSem, trouble>>

setShellBackground ==
    /\ Runs(shellPid, "retreat")
    /\ background' = [background EXCEPT ![shellPid] = "BACKGROUND"]
    /\ place' = [place EXCEPT ![shellPid] = "promote"]
    /\ UNCHANGED <<job, blocked, forePid, command, newPids, nextPid, startSem, readSem, trouble>>

(* Mutant: the shell does not remember whom it gave the console.           *)
PromoteForgets ==
    LET pid == newPids[1]
    IN  /\ Runs(shellPid, "promote")
        /\ background' = IF Exists(pid) THEN [background EXCEPT ![pid] = "FOREGROUND"] ELSE background
        /\ trouble' = trouble \cup Flag("console", ~Exists(pid))
        /\ place' = [place EXCEPT ![shellPid] = "post"]
        /\ UNCHANGED <<job, blocked, forePid, command, newPids, nextPid, startSem, readSem>>

(* setbackground on a pid that is not there fails, and nobody looks.       *)
Promote ==
    LET pid == newPids[1]
    IN  /\ Runs(shellPid, "promote")
        /\ background' = IF Exists(pid) THEN [background EXCEPT ![pid] = "FOREGROUND"] ELSE background
        /\ trouble' = trouble \cup Flag("console", ~Exists(pid))
        /\ forePid' = pid
        /\ place' = [place EXCEPT ![shellPid] = "post"]
        /\ UNCHANGED <<job, blocked, command, newPids, nextPid, startSem, readSem>>

(* One post for each process, wanted or not.                               *)
PostStart ==
    /\ Runs(shellPid, "post")
    /\ semPost(shellPid, startSem, startSem', {"starting"},
               IF Len(newPids) = 1 THEN "wait" ELSE "post")
    /\ newPids' = Tail(newPids)
    /\ UNCHANGED <<job, background, forePid, command, nextPid, readSem, trouble>>

RunCommand ==
    CreateFails \/ createprocess \/ MapStdFds \/ setShellBackground \/ Promote \/ PostStart

---------------------------------------------------------------------------
(* Mutant: the wrapper begins without the shell.                           *)
WaitStartNot(p) ==
    /\ Runs(p, "start")
    /\ place' = [place EXCEPT ![p] = "body"]
    /\ UNCHANGED <<job, background, blocked, forePid, command, newPids, nextPid,
                   startSem, readSem, trouble>>

(* shellProcessWrapper.                                                    *)
WaitStart(p) ==
    /\ Runs(p, "start")
    /\ semWait(p, startSem, startSem', "starting")
    /\ UNCHANGED <<job, background, forePid, command, newPids, nextPid, readSem, trouble>>

Does(p, kind) == Runs(p, "body") /\ job[p].kind = kind

(* Mutant: the command reads without asking for the keyboard.              *)
AskReadNot(p) ==
    /\ Does(p, "reader")
    /\ place' = [place EXCEPT ![p] = "read"]
    /\ UNCHANGED <<job, background, blocked, forePid, command, newPids, nextPid,
                   startSem, readSem, trouble>>

(* cat, wc and filter.                                                     *)
AskRead(p) ==
    /\ Does(p, "reader")
    /\ semWait(p, readSem, readSem', "asking")
    /\ UNCHANGED <<job, background, forePid, command, newPids, nextPid, startSem, trouble>>

(* The end of what is read: control-C, control-D, or the pipe is closed.   *)
EndOfInput(p) ==
    /\ Runs(p, "read")
    /\ \/ job[p].source = "keyboard" /\ background[p] = "FOREGROUND"
       \/ job[p].source = "pipe" /\ ~Exists(job[p].left)
    /\ place' = [place EXCEPT ![p] = "give"]
    /\ UNCHANGED <<job, background, blocked, forePid, command, newPids, nextPid,
                   startSem, readSem, trouble>>

(* From the background sys_read blocks its caller, once, and returns 0; an *)
(* empty pipe blocks it again and again, and closing it wakes nobody.      *)
ReadBlocks(p) ==
    /\ Runs(p, "read")
    /\ \/ /\ job[p].source = "keyboard" /\ background[p] = "BACKGROUND"
          /\ place' = [place EXCEPT ![p] = "give"]
       \/ /\ job[p].source = "pipe" /\ Exists(job[p].left)
          /\ UNCHANGED place
    /\ blocked' = blocked \cup {p}
    /\ trouble' = trouble \cup {"keyboard"}
    /\ UNCHANGED <<job, background, forePid, command, newPids, nextPid, startSem, readSem>>

(* Mutant: the command ends with the keyboard.                             *)
GiveReadNot(p) ==
    /\ Runs(p, "give")
    /\ place' = [place EXCEPT ![p] = "exit"]
    /\ UNCHANGED <<job, background, blocked, forePid, command, newPids, nextPid,
                   startSem, readSem, trouble>>

GiveRead(p) ==
    /\ Runs(p, "give")
    /\ semPost(p, readSem, readSem', ReadSleeps, "exit")
    /\ UNCHANGED <<job, background, forePid, command, newPids, nextPid, startSem, trouble>>

KillJob(p, q) ==
    /\ Does(p, "kill") /\ q # p
    /\ sys_kill(q, [place EXCEPT ![p] = "exit"])
    /\ UNCHANGED <<job, forePid, command, newPids, nextPid, startSem, readSem>>

BlockJob(p, q) ==
    /\ Does(p, "block") /\ q # p
    /\ BlockOrUnblock(q)
    /\ place' = [place EXCEPT ![p] = "exit"]
    /\ UNCHANGED <<job, background, forePid, command, newPids, nextPid, startSem, readSem>>

(* sys_exit; a plain command may come to its end or not.                   *)
Exit(p) ==
    /\ Runs(p, "exit") \/ Does(p, "plain")
    /\ terminateProcess(p, place)
    /\ UNCHANGED <<job, forePid, command, newPids, nextPid, startSem, readSem>>

JobStep(p) ==
    \/ WaitStart(p) \/ AskRead(p) \/ EndOfInput(p) \/ ReadBlocks(p) \/ GiveRead(p)
    \/ WakeUpStart(p) \/ WakeUpRead(p)

---------------------------------------------------------------------------
ShellInit ==
    /\ place = [p \in Procs |-> IF p = shellPid THEN "wait" ELSE "none"]
    /\ job = [p \in Jobs |-> NoJob]
    /\ background = [p \in Procs |-> IF p = shellPid THEN "FOREGROUND" ELSE "BACKGROUND"]
    /\ blocked = {}
    /\ forePid = 0
    /\ command = NoCommand
    /\ newPids = <<>>
    /\ nextPid = 2
    /\ startSem = [value |-> 0, queue |-> <<>>]
    /\ readSem = [value |-> 1, queue |-> <<>>]
    /\ trouble = {}

ShellStep == WaitRead \/ LookAtMode \/ ReleaseRead \/ RunCommand \/ WakeUpRead(shellPid)

UserStep == IdleLine \/ Interrupt \/ LostLine \/ \E c \in Commands : CommandLine(c)

ShellNext ==
    \/ ShellStep \/ UserStep
    \/ \E p \in Jobs : JobStep(p) \/ Exit(p) \/ \E q \in Procs : KillJob(p, q) \/ BlockJob(p, q)

---------------------------------------------------------------------------
(* Among the rest: the list of the blocked holds nobody who is dead, and   *)
(* the unsigned values of the semaphores stay in range.                    *)
ShellTypeOK ==
    /\ place \in [Procs -> {"none", "exit", "body", "read", "give", "start"} \cup Sleeps \cup
          {"wait", "mode", "prompt", "watch", "release", "create", "map", "retreat", "promote", "post"}]
    /\ job \in [Jobs -> [kind : Kinds, source : {"keyboard", "pipe"}, left : Jobs \cup {None}]]
    /\ background \in [Procs -> {"FOREGROUND", "BACKGROUND"}]
    /\ blocked \subseteq {p \in Procs : Exists(p)}
    /\ forePid \in Jobs \cup {0, None}
    /\ newPids \in Seq(Jobs \cup {None}) /\ Len(newPids) <= Len(command.kinds)
    /\ nextPid \in 2..(MaxJob + 1)
    /\ {startSem, readSem} \subseteq [value : 0..(Word - 1), queue : Seq(Procs)]
    /\ trouble \subseteq Troubles

(* The shell has not finished what must be done before its jobs run.       *)
SettingUp ==
    \/ place[shellPid] \in {"create", "map", "retreat", "promote"}
    \/ place[shellPid] = "post" /\ Len(newPids) = Len(command.kinds)

(* No job runs before its descriptors and its console flag are set, as     *)
(* long as no unit of START_PROC_SEM was left over.                        *)
StartsInPlace ==
    SettingUp /\ trouble \cap {"early", "woken", "stopped"} = {}
        => \A p \in ToSet(newPids) : place[p] \in {"start", "starting"}

(* There is one process in the foreground, and if it is not the shell it   *)
(* is the one control-C kills.                                             *)
ConsoleOwned ==
    LET fore == {p \in Procs : Exists(p) /\ background[p] = "FOREGROUND"}
    IN  "console" \notin trouble /\ place[shellPid] # "promote"
            => fore \in {{shellPid}, {forePid}}

(* Who is between semwait(SEM_READ) and sempost(SEM_READ).                 *)
Holders == {p \in Procs : place[p] \in {"mode", "prompt", "watch", "release", "read", "give"}}

(* Two processes never read the console at a time, unless one was woken in *)
(* the queue by terminateProcess or by hand.                               *)
OneConsoleReader == "woken" \notin trouble => \A p, q \in Holders : p = q

(* Asleep in the queue of SEM_READ the shell gets the keyboard back, so    *)
(* that it can take a command or kill the job that has the console, if the *)
(* user ends the readers before it.                                        *)
ShellListens ==
    (place[shellPid] = "waiting")
        ~> (\/ place[shellPid] # "waiting"
            \/ trouble \cap {"keyboard", "woken", "stopped"} # {})
============================================================================
