---------------------------- MODULE Descriptors ----------------------------
(***************************************************************************)
(* File descriptors and the life of pipes and FIFOs: Kernel/pipe/fd.c, the *)
(* opening and closing half of Kernel/pipe/pipe.c, the descriptor table of *)
(* a PCB in Kernel/Scheduler/scheduler.c and the system calls on them.     *)
(*                                                                         *)
(* fdTable counts the references to each end of a pipe.  A process refers  *)
(* to an end through its own table, inherited from its creator, whose      *)
(* slot g holds g; slots 0 and 1 may be mapped to an end on top of that,   *)
(* and such a mapping is not counted.  A FIFO is a pipe the kernel itself  *)
(* holds open under an id.                                                 *)
(***************************************************************************)
EXTENDS Integers, FiniteSets

CONSTANTS
    MAX_FD,           \* size of both tables
    Pids,             \* processes, 1 is the shell
    Pipes,            \* addresses of pipe structures
    FifoIds,          \* ids passed to mkFifo
    MAX_FIFO,         \* entries of fifoTable
    MaxRef            \* bound on a reference count

VARIABLES
    live,        \* processes with a PCB
    fd,          \* fd[p][i]: the global descriptor in slot i, or -1
    fdTable,
    pipe,        \* the pipe structures: allocated or not, ends open or not
    fifoTable,
    leaks        \* history: what has left a reference nobody gives back:
                 \* "half" a half-opened pipe, "refs" a failed creation, one
                 \* by a process with a mapped slot 0 or 1, or a FIFO opened
                 \* twice by a process

fdVars == <<live, fd, fdTable, pipe, fifoTable, leaks>>

ASSUME DescriptorsAssumption ==
    /\ MAX_FD \in Nat /\ MAX_FD > 3 /\ MAX_FIFO \in Nat
    /\ 1 \in Pids /\ Pids \subseteq Nat
    /\ FifoIds \subseteq Nat \ {0}
    /\ MaxRef \in Nat

STDIN  == 0
STDOUT == 1
None   == -1

Slots   == 0..(MAX_FD - 1)
Globals == 3..(MAX_FD - 1)      \* 0, 1 and 2 are the console
Types   == {"READ", "WRITE"}

NoPipe == "NULL"
FD   == [ref : Nat, type : Types, pipe : Pipes \cup {NoPipe}]
Pipe == [allocated : BOOLEAN, readOpen : BOOLEAN, writeOpen : BOOLEAN]

NoFifo == [id |-> 0, readfd |-> 0, writefd |-> 0]

---------------------------------------------------------------------------
(* Descriptors of the console and None are outside the table or have no    *)
(* references, so the two functions below ignore them.                     *)
Counted(t, g) == g \in Globals /\ t[g].ref > 0

fdDup(t, g) == IF Counted(t, g) THEN [t EXCEPT ![g].ref = @ + 1] ELSE t

(* Mutant: the child shares its creator's references.                      *)
forkfdNoDup(t, slots) == t

(* One reference more for every slot that holds the descriptor.            *)
forkfd(t, slots) ==
    [g \in Globals |->
        IF t[g].ref > 0
        THEN [t[g] EXCEPT !.ref = @ + Cardinality({i \in Slots : slots[i] = g})]
        ELSE t[g]]

(* Mutant: closing either end frees the pipe.                              *)
closePipeEager(s, x, type) ==
    [s EXCEPT ![x].readOpen = FALSE, ![x].writeOpen = FALSE, ![x].allocated = FALSE]

(* The pipe is freed with its second end.                                  *)
closePipe(s, x, type) ==
    LET r == s[x].readOpen /\ type # "READ"
        w == s[x].writeOpen /\ type # "WRITE"
    IN  [s EXCEPT ![x].readOpen = r, ![x].writeOpen = w, ![x].allocated = r \/ w]

(* Giving up n references to g: the last one closes the end of the pipe.   *)
Released(t, n, g) ==
    LET left == IF n >= t[g].ref THEN 0 ELSE t[g].ref - n
    IN  [t[g] EXCEPT !.ref = left, !.pipe = IF left = 0 THEN NoPipe ELSE @]

Ends(t, n, g) == t[g].ref > 0 /\ n >= t[g].ref

(* closeFd for every g, drop[g] times.                                     *)
ClosedTable(t, drop) == [g \in Globals |-> Released(t, drop[g], g)]

Closing(t, drop, x, type) ==
    \E g \in Globals : drop[g] > 0 /\ Ends(t, drop[g], g) /\ t[g].pipe = x /\ t[g].type = type

ClosedPipes(t, s, drop) ==
    [x \in Pipes |->
        LET a == IF Closing(t, drop, x, "READ") THEN closePipe(s, x, "READ") ELSE s
            b == IF Closing(t, drop, x, "WRITE") THEN closePipe(a, x, "WRITE") ELSE a
        IN  b[x]]

Once(S) == [g \in Globals |-> IF g \in S THEN 1 ELSE 0]

closeFds(drop) ==
    /\ fdTable' = ClosedTable(fdTable, drop)
    /\ pipe' = ClosedPipes(fdTable, pipe, drop)

---------------------------------------------------------------------------
(* initFd takes the lowest entry without references, from 3 on.            *)
FreeEntries(t) == {g \in Globals : t[g].ref = 0}
Lowest(S) == CHOOSE g \in S : \A h \in S : g <= h

initFd(t, type, x) ==
    [t EXCEPT ![Lowest(FreeEntries(t))] = [ref |-> 1, type |-> type, pipe |-> x]]

(* The two entries openPipe gets: the second search starts over.           *)
ReadEntry  == Lowest(FreeEntries(fdTable))
WriteEntry == Lowest(FreeEntries(fdTable) \ {ReadEntry})

openPipe(x) ==
    /\ ~pipe[x].allocated
    /\ Cardinality(FreeEntries(fdTable)) >= 2
    /\ fdTable' = initFd(initFd(fdTable, "READ", x), "WRITE", x)
    /\ pipe' = [pipe EXCEPT ![x] = [allocated |-> TRUE, readOpen |-> TRUE, writeOpen |-> TRUE]]

(* With one entry left the write end fails; the pipe is freed and the read *)
(* end stays in the table, with a reference nobody holds.                  *)
openPipeHalf(x) ==
    /\ ~pipe[x].allocated
    /\ Cardinality(FreeEntries(fdTable)) = 1
    /\ fdTable' = initFd(fdTable, "READ", x)
    /\ UNCHANGED pipe

addFd(p, S) == fd' = [fd EXCEPT ![p] = [i \in Slots |-> IF i \in S THEN i ELSE @[i]]]

sys_openPipe(p) ==
    /\ p \in live
    /\ \E x \in Pipes : openPipe(x)
    /\ addFd(p, {ReadEntry, WriteEntry})
    /\ UNCHANGED <<live, fifoTable, leaks>>

sys_openPipeFails ==
    /\ \E x \in Pipes : openPipeHalf(x)
    /\ leaks' = leaks \cup {"half"}
    /\ UNCHANGED <<live, fd, fifoTable>>

(* User programs close ends of pipes, never slots 0 and 1.                 *)
sys_close(p, i) ==
    /\ p \in live /\ i \in Globals
    /\ Counted(fdTable, fd[p][i])
    /\ closeFds(Once({fd[p][i]}))
    /\ fd' = [fd EXCEPT ![p][fd[p][i]] = None]
    /\ UNCHANGED <<live, fifoTable, leaks>>

Entries == 1..MAX_FIFO
HasFifo(id) == \E n \in Entries : fifoTable[n].id = id
Fifo(id) == CHOOSE n \in Entries : fifoTable[n].id = id

sys_mkFifo(id) ==
    LET unused == {n \in Entries : fifoTable[n].id = 0}
    IN  /\ ~HasFifo(id) /\ unused # {}
        /\ \E x \in Pipes : openPipe(x)
        /\ fifoTable' = [fifoTable EXCEPT ![Lowest(unused)] =
                            [id |-> id, readfd |-> ReadEntry, writefd |-> WriteEntry]]
        /\ UNCHANGED <<live, fd, leaks>>

sys_openFifo(p, id, type) ==
    LET g == IF type = "READ" THEN fifoTable[Fifo(id)].readfd ELSE fifoTable[Fifo(id)].writefd
    IN  /\ p \in live /\ HasFifo(id)
        /\ fdTable[g].ref < MaxRef
        /\ fdTable' = fdDup(fdTable, g)
        /\ addFd(p, {g})
        /\ leaks' = IF fd[p][g] = None THEN leaks ELSE leaks \cup {"refs"}
        /\ UNCHANGED <<live, pipe, fifoTable>>

(* Mutant: the kernel keeps its reference to the write end.                *)
sys_rmFifoHalf(id) ==
    /\ HasFifo(id)
    /\ closeFds(Once({fifoTable[Fifo(id)].readfd}))
    /\ fifoTable' = [fifoTable EXCEPT ![Fifo(id)] = NoFifo]
    /\ UNCHANGED <<live, fd, leaks>>

(* The kernel gives up its references; processes keep theirs.              *)
sys_rmFifo(id) ==
    /\ HasFifo(id)
    /\ closeFds(Once({fifoTable[Fifo(id)].readfd, fifoTable[Fifo(id)].writefd}))
    /\ fifoTable' = [fifoTable EXCEPT ![Fifo(id)] = NoFifo]
    /\ UNCHANGED <<live, fd, leaks>>

(* The arguments are slots; slots 0 and 1 of the process get their numbers.*)
(* Programs map one end of a pipe or, to undo that, STDIN and STDOUT.      *)
mapStdFds(p, stdin, stdout) ==
    /\ p \in live
    /\ fd[p][stdin] # None /\ fd[p][stdout] # None
    /\ fd' = [fd EXCEPT ![p] = [i \in Slots |-> CASE i = STDIN -> stdin
                                                [] i = STDOUT -> stdout
                                                [] OTHER -> @[i]]]
    /\ UNCHANGED <<live, fdTable, pipe, fifoTable, leaks>>

Mapped(p) == fd[p][STDIN] \in Globals \/ fd[p][STDOUT] \in Globals

(* processCreate: the references are counted before the node is allocated  *)
(* and stay counted when that fails.                                       *)
sys_createprocess(p, q, allocated) ==
    /\ p \in live /\ q \notin live
    /\ \A g \in Globals : fdTable[g].ref < MaxRef
    /\ leaks' = IF allocated /\ ~Mapped(p) THEN leaks ELSE leaks \cup {"refs"}
    /\ fdTable' = forkfd(fdTable, fd[p])
    /\ live' = IF allocated THEN live \cup {q} ELSE live
    /\ fd' = IF allocated THEN [fd EXCEPT ![q] = fd[p]] ELSE fd
    /\ UNCHANGED <<pipe, fifoTable>>

NoFds == [i \in Slots |-> None]

(* removeTerminated closes what slots 3 and up hold.                       *)
removeTerminated(q) ==
    /\ q \in live /\ q # 1
    /\ closeFds([g \in Globals |-> Cardinality({i \in Globals : fd[q][i] = g})])
    /\ live' = live \ {q}
    /\ fd' = [fd EXCEPT ![q] = NoFds]
    /\ UNCHANGED <<fifoTable, leaks>>

---------------------------------------------------------------------------
FdInit ==
    /\ live = {1}
    /\ fd = [p \in Pids |-> IF p = 1 THEN [i \in Slots |-> IF i <= 2 THEN i ELSE None] ELSE NoFds]
    /\ fdTable = [g \in Globals |-> [ref |-> 0, type |-> "READ", pipe |-> NoPipe]]
    /\ pipe = [x \in Pipes |-> [allocated |-> FALSE, readOpen |-> FALSE, writeOpen |-> FALSE]]
    /\ fifoTable = [n \in Entries |-> NoFifo]
    /\ leaks = {}

FdNext ==
    \/ \E p \in Pids : sys_openPipe(p)
    \/ sys_openPipeFails
    \/ \E p \in Pids, i \in Slots : sys_close(p, i)
    \/ \E id \in FifoIds : sys_mkFifo(id)
    \/ \E p \in Pids, id \in FifoIds, type \in Types : sys_openFifo(p, id, type)
    \/ \E id \in FifoIds : sys_rmFifo(id)
    \/ \E p \in Pids, g \in Globals \cup {STDIN} : mapStdFds(p, g, STDOUT)
    \/ \E p \in Pids, g \in Globals : mapStdFds(p, STDIN, g)
    \/ \E p, q \in Pids, allocated \in BOOLEAN : sys_createprocess(p, q, allocated)
    \/ \E q \in Pids : removeTerminated(q)

FdSpec == FdInit /\ [][FdNext]_fdVars
---------------------------------------------------------------------------
(* Who refers to g: processes through slot g, and the kernel for a FIFO.   *)
Holders(g) ==
    Cardinality({p \in live : fd[p][g] = g})
        + Cardinality({n \in Entries : g \in {fifoTable[n].readfd, fifoTable[n].writefd}})

FdTypeOK ==
    /\ live \subseteq Pids
    /\ fd \in [Pids -> [Slots -> Slots \cup {None}]]
    /\ fdTable \in [Globals -> FD]
    /\ pipe \in [Pipes -> Pipe]
    /\ leaks \subseteq {"half", "refs"}
    /\ fifoTable \in [Entries -> [id : FifoIds \cup {0}, readfd : Slots, writefd : Slots]]

(* No end of a pipe is closed, and its entry given to another pipe, while  *)
(* a process or a FIFO still refers to it, whatever is created, killed,    *)
(* closed or left half open in between.                                    *)
HeldOpen == \A g \in Globals : fdTable[g].ref >= Holders(g)

(* Short of the cases `leaks' names no reference is lost: when the last    *)
(* process that could use an end has gone the end is closed, and its entry *)
(* can be used again.                                                      *)
NoLeak == leaks = {} => \A g \in Globals : fdTable[g].ref = Holders(g)

(* Without half-opened pipes an end is open as long as it has an entry,    *)
(* the pipe is freed with its last end and not before, and no two entries  *)
(* are the same end.                                                       *)
PipeMatchesEnds ==
    LET At(x, type) == {g \in Globals : /\ fdTable[g].ref > 0
                                        /\ fdTable[g].pipe = x /\ fdTable[g].type = type}
    IN  "half" \notin leaks => \A x \in Pipes :
            /\ pipe[x].readOpen <=> At(x, "READ") # {}
            /\ pipe[x].writeOpen <=> At(x, "WRITE") # {}
            /\ pipe[x].allocated <=> pipe[x].readOpen \/ pipe[x].writeOpen
            /\ Cardinality(At(x, "READ")) <= 1 /\ Cardinality(At(x, "WRITE")) <= 1
============================================================================
