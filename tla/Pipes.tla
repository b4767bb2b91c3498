------------------------------- MODULE Pipes -------------------------------
(***************************************************************************)
(* The data path of a pipe: readPipe, writePipe and closePipe of           *)
(* Kernel/pipe/pipe.c with the two semaphores that queue its users, on top *)
(* of the scheduler and the semaphores.                                    *)
(*                                                                         *)
(* The shell opened the pipe and children inherit both ends; holders says  *)
(* who refers to which end (the counts of Descriptors), and the last one   *)
(* to close an end, or to die with it, closes it in the pipe.  The two     *)
(* semaphores belong to this pipe alone: semcounter gives the first pipe   *)
(* the ids 0 and 1, and user programs get theirs from 10000 on.  Only the  *)
(* second pipe shares one, the 2 that sys_read has for itself.             *)
(*                                                                         *)
(* call[p] is the frame of p inside the pipe:                              *)
(*   at   "user"   not in readPipe or writePipe                            *)
(*        "rsem"   asleep in semWait(readqueue)                            *)
(*        "read"   about to test for an empty buffer the first time        *)
(*        "empty"  in the loop that waits for a byte                       *)
(*        "wsem"   asleep in semWait(writequeue)                           *)
(*        "write"  about to put byte i of count                            *)
(*        "full"   in the loop that waits for room for it                  *)
(* A frame that does not sleep goes on with interrupts masked.  No system  *)
(* call reaches writeFd at this commit (sys_write_handler ignores all      *)
(* descriptors but STDOUT); writers call it as they call readFd.           *)
(***************************************************************************)
EXTENDS Semaphores

CONSTANTS
    writequeue,    \* the ids of the two semaphores
    readqueue,
    Foreign,       \* ids of semaphores of other parts of the system
    PIPE_BUFFER,   \* bytes in the buffer
    Index,         \* number of values of the uint32_t indices
    ReadCounts,    \* the counts passed to readFd
    WriteCounts,   \* the counts passed to writeFd
    Writers,       \* processes that write
    Garbage        \* what readPID and writePID may hold in a block fresh from alloc

VARIABLES pipe, call, holders,
          trouble    \* history: what has gone wrong with the queues: "garbage", the
                     \* pids openPipe does not initialise were not 0, "surplus", a
                     \* reader posted writequeue where it should post readqueue

pipeVars == <<k, sems, frame, pipe, call, holders, trouble>>

ASSUME PipesAssumption ==
    /\ PIPE_BUFFER \in Nat \ {0} /\ Index \in Nat /\ Index > PIPE_BUFFER + 1
    /\ Index % PIPE_BUFFER = 0
    /\ ReadCounts \cup WriteCounts \subseteq Nat \ {0}
    /\ Writers \subseteq Pids /\ Garbage \subseteq Pids \cup {0}
    /\ SemIds = {writequeue, readqueue} /\ writequeue # readqueue
    /\ Foreign \subseteq Nat \ SemIds

(* A byte of data is told apart by its writer and its place in the call.   *)
Data == Pids \X UNION {1..n : n \in WriteCounts}
EOF  == <<0, 0>>

Byte(p, i) == <<p, i>>

NoCall == [at |-> "user", i |-> 0, count |-> 0]

(* The reference a failed creation has counted and nobody gives back.      *)
Leaked == 0

PipeRecord == [buf : [0..(PIPE_BUFFER - 1) -> (Pids \X Nat) \cup {EOF}],
               readIdx : 0..(Index - 1), writeIdx : 0..(Index - 1),
               readOpen : BOOLEAN, writeOpen : BOOLEAN,
               readPID : Pids \cup {0}, writePID : Pids \cup {0}]

PipeCall == [at : {"user", "rsem", "read", "empty", "wsem", "write", "full"}, i : Nat, count : Nat]

---------------------------------------------------------------------------
Exists(id) == id \in SemIds /\ searchSemaphore(id)

(* The state of the semaphores and of the kernel after semPost(id); an id  *)
(* that is no semaphore is ignored, and then nobody yields.                *)
Posted(id) ==
    IF Exists(id)
    THEN [sems EXCEPT ![id].value = (@ + 1) % Word, ![id].blockedQueue = popBlockedQueue(@)]
    ELSE sems

PostedKernel(s, id) ==
    CASE Exists(id) -> yield(wakeup(s, sems[id].blockedQueue))
      [] ~Exists(id) /\ id \in Foreign -> yield(s)
      [] OTHER -> s

unblockIf(s, p) == IF p = 0 THEN s ELSE unblockProcess(s, p)

Add(n, m) == (n + m) % Index

Empty(s) == s.readIdx = s.writeIdx
Full(s)  == s.writeIdx = Add(s.readIdx, PIPE_BUFFER)
Level(s) == (s.writeIdx - s.readIdx) % Index

At(s, n) == s.buf[Add(s.readIdx, n) % PIPE_BUFFER]

(* The bytes a read of n takes: up to the first EOF.                       *)
Taken(s, n) ==
    CHOOSE m \in 0..n :
        /\ m <= Level(s)
        /\ \A j \in 0..(m - 1) : At(s, j) # EOF
        /\ m = n \/ m = Level(s) \/ At(s, m) = EOF

PutByte(s, b) == [s EXCEPT !.buf[s.writeIdx % PIPE_BUFFER] = b, !.writeIdx = Add(@, 1)]

(* closePipe.  The end of the data is a byte in the buffer, and nobody     *)
(* looks whether there is room for it.                                     *)
closePipe(s, type) ==
    IF type = "READ" THEN [s EXCEPT !.readOpen = FALSE]
    ELSE [PutByte(s, EOF) EXCEPT !.writeOpen = FALSE]

---------------------------------------------------------------------------
(* The CPU runs user code or idles.                                        *)
OutsidePipe == k.up /\ Interruptible /\ (k.cpu \in Pids => call[k.cpu].at = "user")

MayCall(p) == InUser(p) /\ call[p].at = "user"

(* semWait on one of the queues: the caller goes on at `next' or sleeps.   *)
Enter(p, id, asleep, next, n) ==
    /\ IF sems[id].value > 0
       THEN /\ sems' = [sems EXCEPT ![id].value = @ - 1]
            /\ call' = [call EXCEPT ![p] = [at |-> next, i |-> 1, count |-> n]]
            /\ UNCHANGED <<k, frame>>
       ELSE /\ sems' = [sems EXCEPT ![id].blockedQueue = addToProcessQueue(@, p, FALSE, TRUE)]
            /\ k' = blockProcess(k, p)
            /\ frame' = [frame EXCEPT ![p] = id]
            /\ call' = [call EXCEPT ![p] = [at |-> asleep, i |-> 1, count |-> n]]
    /\ UNCHANGED <<pipe, holders, trouble>>

readFd(p, n) ==
    /\ MayCall(p)
    /\ p \in holders["READ"]
    /\ sems[writequeue].value < MaxValue
    /\ Enter(p, readqueue, "rsem", "read", n)

writeFd(p, n) ==
    /\ MayCall(p)
    /\ p \in holders["WRITE"] /\ pipe.readOpen
    /\ Enter(p, writequeue, "wsem", "write", n)

(* The rest of semWait.                                                    *)
QueueWake(p) ==
    /\ SemWake(p)
    /\ call' = [call EXCEPT ![p].at = IF @ = "rsem" THEN "read" ELSE "write"]
    /\ UNCHANGED <<pipe, holders, trouble>>

Inside(p, where) == Running(p) /\ frame[p] = User /\ call[p].at \in where

(* readPipe, while the buffer is empty.  The branch for readPID = 0 would  *)
(* need a second reader inside that is woken; it is dead: a reader that    *)
(* met it would have no step here, and the machine would deadlock.         *)
readPipeWaits(p) ==
    /\ Inside(p, {"read", "empty"})
    /\ Empty(pipe)
    /\ call[p].at = "empty" => pipe.readPID # 0
    /\ pipe' = [pipe EXCEPT !.readPID = IF call[p].at = "read" THEN p ELSE @]
    /\ k' = blockProcess(k, pipe'.readPID)
    /\ call' = [call EXCEPT ![p].at = "empty"]
    /\ UNCHANGED <<sems, frame, holders, trouble>>

(* Mutant: the writer is not woken.                                        *)
readPipeNoWake(p) ==
    /\ Inside(p, {"read", "empty"})
    /\ ~Empty(pipe)
    /\ pipe' = [pipe EXCEPT !.readPID = 0, !.readIdx = Add(@, Taken(pipe, call[p].count))]
    /\ k' = PostedKernel(k, pipe.writePID)
    /\ sems' = Posted(pipe.writePID)
    /\ trouble' = IF pipe.writePID = writequeue THEN trouble \cup {"surplus"} ELSE trouble
    /\ call' = [call EXCEPT ![p] = NoCall]
    /\ UNCHANGED <<frame, holders>>

(* The rest of readPipe: it takes what there is, wakes the writer, and     *)
(* then posts the semaphore whose id is the pid of that writer, or 0,      *)
(* where it should post readqueue.                                         *)
readPipe(p) ==
    /\ Inside(p, {"read", "empty"})
    /\ ~Empty(pipe)
    /\ pipe' = [pipe EXCEPT !.readPID = 0, !.readIdx = Add(@, Taken(pipe, call[p].count))]
    /\ k' = PostedKernel(unblockIf(k, pipe.writePID), pipe.writePID)
    /\ sems' = Posted(pipe.writePID)
    /\ trouble' = IF pipe.writePID = writequeue THEN trouble \cup {"surplus"} ELSE trouble
    /\ call' = [call EXCEPT ![p] = NoCall]
    /\ UNCHANGED <<frame, holders>>

(* Mutant: a writer that goes to sleep does not wake the reader.           *)
writePipeWaitsNoWake(p) ==
    /\ Inside(p, {"write", "full"})
    /\ Full(pipe) /\ pipe.readOpen
    /\ pipe' = [pipe EXCEPT !.writePID = IF call[p].at = "write" THEN p ELSE @]
    /\ k' = blockProcess(k, pipe'.writePID)
    /\ call' = [call EXCEPT ![p].at = "full"]
    /\ UNCHANGED <<sems, frame, holders, trouble>>

(* writePipe, while there is no room for the byte.                         *)
writePipeWaits(p) ==
    /\ Inside(p, {"write", "full"})
    /\ Full(pipe) /\ pipe.readOpen
    /\ pipe' = [pipe EXCEPT !.writePID = IF call[p].at = "write" THEN p ELSE @]
    /\ k' = blockProcess(unblockIf(k, pipe.readPID), pipe'.writePID)
    /\ call' = [call EXCEPT ![p].at = "full"]
    /\ UNCHANGED <<sems, frame, holders, trouble>>

(* There is no room and there never will be.                               *)
writePipeBroken(p) ==
    /\ Inside(p, {"write", "full"})
    /\ Full(pipe) /\ ~pipe.readOpen
    /\ pipe' = [pipe EXCEPT !.writePID = 0]
    /\ k' = PostedKernel(k, writequeue)
    /\ sems' = Posted(writequeue)
    /\ call' = [call EXCEPT ![p] = NoCall]
    /\ UNCHANGED <<frame, holders, trouble>>

(* Mutant: one byte too many fits.                                         *)
writePipePutOver(p) ==
    /\ Inside(p, {"write", "full"})
    /\ call[p].i < call[p].count
    /\ Level(pipe) <= PIPE_BUFFER
    /\ pipe' = [PutByte(pipe, Byte(p, call[p].i)) EXCEPT !.writePID = 0]
    /\ call' = [call EXCEPT ![p].at = "write", ![p].i = @ + 1]
    /\ UNCHANGED <<k, sems, frame, holders, trouble>>

(* One byte, not the last of the call.                                     *)
writePipePut(p) ==
    /\ Inside(p, {"write", "full"})
    /\ call[p].i < call[p].count
    /\ ~Full(pipe)
    /\ pipe' = [PutByte(pipe, Byte(p, call[p].i)) EXCEPT !.writePID = 0]
    /\ call' = [call EXCEPT ![p].at = "write", ![p].i = @ + 1]
    /\ UNCHANGED <<k, sems, frame, holders, trouble>>

(* The last byte and the end of writePipe.                                 *)
writePipeEnds(p) ==
    /\ Inside(p, {"write", "full"})
    /\ call[p].i = call[p].count
    /\ ~Full(pipe)
    /\ pipe' = [PutByte(pipe, Byte(p, call[p].i)) EXCEPT !.writePID = 0]
    /\ k' = PostedKernel(unblockIf(k, pipe.readPID), writequeue)
    /\ sems' = Posted(writequeue)
    /\ call' = [call EXCEPT ![p] = NoCall]
    /\ UNCHANGED <<frame, holders, trouble>>

---------------------------------------------------------------------------
(* closeFd for every end that loses its last holder; with the second end   *)
(* deleteSemaphore removes both queues.                                    *)
Lost(type) == holders[type] # {} /\ holders'[type] = {}

CloseLost ==
    LET r == IF Lost("READ") THEN closePipe(pipe, "READ") ELSE pipe
        w == IF Lost("WRITE") THEN closePipe(r, "WRITE") ELSE r
    IN  /\ pipe' = w
        /\ sems' = IF (Lost("READ") \/ Lost("WRITE")) /\ ~w.readOpen /\ ~w.writeOpen
                   THEN [sems EXCEPT ![writequeue] = NoSemaphore, ![readqueue] = NoSemaphore]
                   ELSE sems

(* Mutant: an end is closed by whoever closes it first.                    *)
sys_closeFirst(p, type) ==
    /\ MayCall(p)
    /\ p \in holders[type]
    /\ holders' = [holders EXCEPT ![type] = {}]
    /\ CloseLost
    /\ UNCHANGED <<k, frame, call, trouble>>

sys_close(p, type) ==
    /\ MayCall(p)
    /\ p \in holders[type]
    /\ holders' = [holders EXCEPT ![type] = @ \ {p}]
    /\ CloseLost
    /\ UNCHANGED <<k, frame, call, trouble>>

(* Any other entry into the kernel: a child inherits the ends its creator  *)
(* holds, a process that ends gives them up and takes its frames with it.  *)
OtherEntry ==
    LET child == IF k'.pcb[k.pid].state = "FREE" THEN Leaked ELSE k.pid
    IN  /\ OutsidePipe
        /\ Next
        /\ DropFrames
        /\ call' = [p \in Pids |-> IF Live(p)' THEN call[p] ELSE NoCall]
        /\ holders' = [type \in DOMAIN holders |->
                {p \in holders[type] : p # Leaked => Live(p)'}
                    \cup (IF k'.pid # k.pid /\ k.cpu \in holders[type] THEN {child} ELSE {})]
        /\ CloseLost
        /\ UNCHANGED trouble

---------------------------------------------------------------------------
(* openPipe, called by the shell.                                          *)
PipeInit ==
    /\ Init
    /\ sems = [id \in SemIds |-> [NoSemaphore EXCEPT !.exists = TRUE, !.value = 1,
                                                     !.activeQueue = <<1>>]]
    /\ frame = [p \in Pids |-> User]
    /\ \E r, w \in Garbage :
            pipe = [buf |-> [j \in 0..(PIPE_BUFFER - 1) |-> EOF], readIdx |-> 0, writeIdx |-> 0,
                    readOpen |-> TRUE, writeOpen |-> TRUE, readPID |-> r, writePID |-> w]
    /\ call = [p \in Pids |-> NoCall]
    /\ holders = [READ |-> {1}, WRITE |-> {1}]
    /\ trouble = IF pipe.readPID = 0 /\ pipe.writePID = 0 THEN {} ELSE {"garbage"}

PipeNext ==
    \/ OtherEntry
    \/ \E p \in Pids, n \in ReadCounts : readFd(p, n)
    \/ \E p \in Writers, n \in WriteCounts : writeFd(p, n)
    \/ \E p \in Pids : \/ QueueWake(p) \/ readPipeWaits(p) \/ readPipe(p)
                       \/ writePipeWaits(p) \/ writePipeBroken(p)
                       \/ writePipePut(p) \/ writePipeEnds(p)
    \/ \E p \in Pids, type \in {"READ", "WRITE"} : sys_close(p, type)

PipeSpec == PipeInit /\ [][PipeNext]_pipeVars
---------------------------------------------------------------------------
(* The indices of the ring wrap around together and never leave their type.*)
PipeTypeOK ==
    /\ SemTypeOK
    /\ pipe \in PipeRecord
    /\ call \in [Pids -> PipeCall]
    /\ holders \in [{"READ", "WRITE"} -> SUBSET (Pids \cup {Leaked})]
    /\ trouble \subseteq {"garbage", "surplus"}

(* The bytes between the two indices, in order.                            *)
Contents == [j \in 1..Level(pipe) |-> At(pipe, j - 1)]

(* The ring buffer with its wrapping indices is a channel: whoever sleeps, *)
(* dies or closes an end, no byte is overwritten, skipped or handed over   *)
(* twice, and the end comes last unless the buffer was full when the last  *)
(* writer left.                                                            *)
AbstractChannel == INSTANCE Channel WITH
    Data     <- Data,
    Capacity <- PIPE_BUFFER,
    End      <- EOF,
    queue    <- Contents,
    open     <- pipe.writeOpen

ImplementsChannel == AbstractChannel!Spec

Freed == ~pipe.readOpen /\ ~pipe.writeOpen

(* The pipe stays well formed until it is freed with its second end, and   *)
(* no process is inside readPipe or writePipe, awake or asleep, when that  *)
(* happens: whoever is inside holds an end.                                *)
NotFreedInside ==
    /\ PipeTypeOK
    /\ Freed => \A p \in Pids : call[p].at = "user" /\ frame[p] = User

ReadersInside == {p \in Pids : call[p].at \in {"read", "empty"}}
WritersInside == {p \in Pids : call[p].at \in {"write", "full"}}

(* Whenever interrupts are enabled, a reader that sleeps in readPipe is    *)
(* the one whose pid writers wake, and there is no byte it could read (the *)
(* end of the data may be there: closePipe wakes nobody).                  *)
SleepingReaderFed ==
    OutsidePipe /\ "garbage" \notin trouble => \A p \in Pids :
        call[p].at = "empty" /\ Contains(k.blocked, p)
            => /\ pipe.readPID = p /\ ReadersInside = {p}
               /\ \A j \in 1..Level(pipe) : At(pipe, j - 1) = EOF

(* Until a reader posts writequeue by mistake one writer at a time is      *)
(* inside, and if it sleeps its pid is there for the reader to wake it and *)
(* the buffer is full.                                                     *)
SleepingWriterKnown ==
    trouble = {} =>
        /\ \A p, q \in WritersInside : p = q
        /\ \A p \in Pids : call[p].at = "full" /\ Contains(k.blocked, p)
                => pipe.writePID = p /\ Full(pipe)
============================================================================
