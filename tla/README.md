# TPE2-SO in TLA+

A verification project for the 64-bit teaching kernel in this repository: a
round-robin scheduler with priorities, blocking processes, counting semaphores,
a first-fit heap, pipes, a keyboard driver and a small userland (shell, dining
philosophers, test programs).

All paths below are relative to the root of the repository (`src/`).

## 1. Inventory

| Component | State | Operations | Who it talks to |
|---|---|---|---|
| Scheduler and process table, `Kernel/Scheduler/scheduler.c` | `readyList` (circular, with `current`), `blockedList`, PCB and `priorityCounter` of each process, `halt`, `haltRsp`, `firstTime` | `scheduler`, `blockProcess`, `unblockProcess`, `terminateProcess`, `yield`, `changePriority`, `setBackground`, `schedulerAddProcess` | called by the timer, by system calls, by the keyboard driver, by semaphores and by exceptions |
| Process creation, `Kernel/Scheduler/processManagement.c` | the next `pid`, the initial stack | `processCreate` | two allocations from the heap, then `schedulerAddProcess` |
| Boot and restart, `Kernel/kernel.c`, `Kernel/asm/loader.asm` | the boot stack | `main`, `restart` | creates `haltProc` (pid 0) and the shell (pid 1), loads the IDT |
| Entries into the kernel, `Kernel/asm`, `Kernel/interruptions` | the IDT, at address 0 | timer, keyboard, exceptions, `int 80h` | everything |
| Semaphores, `Kernel/Semaphores/semaphores.c` | list of semaphores: value, spinlock, active queue, blocked queue | `semOpen`, `semWait`, `semPost`, `semClose` | scheduler, heap |
| Heap, `Kernel/MemoryManager/memory_manager.c` | free list in address order, `freeBytesRemaining` | `alloc`, `free` | used by all of the kernel and by user programs |
| Keyboard, `Kernel/drivers/keyboard.c`, and `sys_read` | ring buffer, `blockedpid`, the prefix flag, the state of control, shift and caps lock | interrupt handler, `waitKey`, `readKey`, `readAscii`, `sys_read_handler` | scheduler, semaphore `SEM_READ` |
| Pipes and descriptors, `Kernel/pipe` | pipe buffers with their indices, pids and two semaphores, `fdTable` with reference counts, `fifoTable`, the table in each PCB | open, close, read, write, dup, map | scheduler, semaphores, heap, process creation |
| Console, `Kernel/drivers/naiveGraphicsConsole.c` | pen, font | print, newline and scroll, delete, clear | called by `sys_write` and by the echo of `sys_read` |
| Clock, `Kernel/asm/RTC.asm`, `sys_time` | registers of the device | read | commands `time` and `loop` |
| Shell and commands, `Userland/SampleCodeModule/shell.c`, `commands.c` | `forePid`, background flags, `START_PROC_SEM`, `SEM_READ` | read a line, split it, start jobs in fore- or background or in a pipe, control-C; `cat`, `wc`, `filter`, `kill`, `block` | system calls |
| Dining philosophers, `philosophers.c` | `philoVector`, `philoCount`, a mutex and a semaphore per seat | eat, stop, add and remove philosophers | semaphores, creation and killing of processes |
| Library and game, `stringUtil.c`, `inout.c`, `snakes.c` | the two snakes and the food | number conversions, text of the time, the rounds of the game | system calls |
| Test programs, `tests/` | `global` of `test_sync` | | system calls |
| Boot loader, tool chain, speaker, module loader | | start-up, output | |

What is hard here:

* **One function marks, another moves.** `blockProcess` and `terminateProcess`
  only write a state into the PCB of the current process and trap into
  `scheduler()` (`int 20h`), which then moves or frees the node. Between the two
  other functions touch the same lists (a dying foreground process wakes the
  shell).
* **`scheduler()` trusts `readyList.current`.** It stores the outgoing stack
  pointer in the PCB of whoever is current *now*. Every list operation between
  two switches must leave `current` where it was.
* **The empty ready list.** The idle context is saved and restored by separate
  variables (`halt`, `haltRsp`).
* **A kernel frame that outlives a context switch.** `semWait` sleeps inside the
  kernel and decrements the semaphore after it was woken, without testing it
  again.
* **Unsigned counters** that are decremented without a test (`priorityCounter`,
  the value of a semaphore), and sums of sizes that may wrap (`alloc`).
* **One variable for all waiters**: `blockedpid` of the keyboard driver is right
  only because `SEM_READ` lets one reader in at a time.
* **Reference counts kept by hand**: descriptors are duplicated at creation, by
  `openFifo` and by nobody in `mapStdFds`, and given back by `sys_close`, by `rmFifo`
  and at the end of a process.
* **Failure in the middle**: allocations that fail after part of the work,
  processes killed while they sleep, exceptions, restart on top of live data.
* **Sleeping in a pipe**: two semaphores, two pids and two wrapping indices must
  agree on who sleeps for what, while holders of either end are killed; and
  `readPipe` posts the wrong semaphore.
* **Jobs that start while the shell is still setting them up**, and a console that
  is passed around with flags, one semaphore and one remembered pid.
* **Programs that are stopped from outside**: philosophers killed with a fork in
  their hand, readers blocked with the keyboard in theirs.
* **Text as a channel**: handlers and descriptors travel as decimal text from the
  shell to its jobs, times are compared as numbers.

The full list, each entry with its line and with the properties aimed at it, is
`hazards` in `PROJECT.json`.

## 2. Plan

Done:

1. `ProcessLists`, `Scheduler`: processes, context switches, entries.
2. `SchedulerProofs`: type, lists, contexts, quanta and console for any number of
   processes.
3. `CountingSemaphore`, `Semaphores`: the promise, the code on top of
   `Scheduler`, and the refinement between them.
4. `Heap`: the allocator.
5. `Keyboard`: the interrupt handler, `waitKey` and `sys_read`, on top of
   `Semaphores`.
6. `Descriptors`: reference counts, inheritance by `processCreate`, mapping, FIFOs,
   closing at the end of a process.
7. `Channel`, `Pipes`: the promise of a pipe, `readPipe`, `writePipe` and
   `closePipe` on top of `Semaphores`, and the refinement between them.
8. `Philosophers`, `Shell`, `TestSync`: the programs that rest on semaphores.
9. `CommandLine`, `Conversions`, `Clock`, `Console`, `Snakes`: the parts with state
   of their own and no partner.

10. `SemaphoresProofs`, `KeyboardProofs`, `PipesProofs`: the safety properties of those
    modules and the refinements of `CountingSemaphore` and `Channel`, for every value of
    the constants. `UserlandProofs`: those of `Philosophers` and `Shell`.
11. `PartsProofs`: the safety properties of `Descriptors`, `Console` and `Snakes`, which
    share no state.
12. `FoldProofs`: those of `TestSync`, `Heap` and `Clock`, which add up or read something.
    `MCPartsProofs`: all of these again, for the parts as they are run together.

To come:

13. Proofs: `ArgumentsArrive`.

Which module builds on which:

    ProcessLists <- Scheduler <- Semaphores <- Keyboard
                                     ^  ^----- Pipes (implements Channel)
                                     |
                       implements CountingSemaphore
    Philosophers, Shell, TestSync:   semaphores as CountingSemaphore has them
    Conversions <- CommandLine, Clock
    Heap, Descriptors, Console, Snakes:   by themselves

## 3. Modules

### ProcessLists

The two linked lists as sequences of pids. `readyList` is circular; it is read
from `readyList.current` on, so position 1 is the current process, position 2 the
next one to get the CPU, the last position its predecessor. Inserting "before
`current`" is appending, inserting "after `current`" is inserting at position 2,
and `current = current->next` is a rotation. The node of the current process is
unlinked only where the code also moves `current` to its successor.

### Scheduler

There is one CPU and every gate is an interrupt gate, so a system call, an
exception or an interrupt is atomic up to the context switch it may end with.
One action is one entry: `Tick`, `KeyboardIrq`, `SysYield`, `SysExit`, `SysKill`,
`SysBlock`, `SysUnblock`, `SysChangePriority`, `SysSetBackground`,
`SysCreateProcess`, `Exception`. The static data of the kernel is one record, `k`,
and each C function is an operator from one value of `k` to the next, under its C
name; a function that traps into `scheduler()` calls that operator.

* A stack pointer is abstracted to the context whose stack it points into: a
  process, `haltProc` or the boot stack. That is what tells a right save from a
  wrong one.
* `priorityCounter` is a `size_t` of `Word` values.
* `processCreate` has three outcomes: success, no memory for the stack, no
  memory for the node (the pid is consumed then).
* `idt0` is the descriptor of vector 0. The IDT lies at address 0, and
  `removeTerminated` stores through a NULL `blockedList.first` when it removes the
  only blocked process; that store clears the gate of "divide by zero" and
  nothing else.
* `exceptionDispatcher` terminates the process; for the shell, which cannot be
  terminated, it goes on to `restart`, which runs `main` again. The restart does
  not clear the lists, the pids or `firstTime`.
* `up` becomes FALSE when the machine stops ("Memory Collision", triple fault).
  Overflow of a process's own stack is not modelled.

Inputs: any running process may call any system call. The sets `Third`, `Victims`,
`Consoles`, `Readers` and `Faulty` limit *whom* a call may be about, to keep a run
small; the theorems hold for every choice of them.

### CountingSemaphore and Semaphores

`Semaphores` extends `Scheduler` with the semaphores (`sems`) and with the kernel
frame of each sleeping process (`frame`). `semWait` with nothing available queues
the process and blocks it; `SemWake` is the rest of that call, which runs when the
process is dispatched again, before anything else can enter the kernel (interrupts
stay masked: `Interruptible`). `semPost` wakes the first sleeper, releases the lock
and yields, all in one entry. A lock that is taken while it is held spins for ever
on the only CPU, which is `up = FALSE` (`OrSpin`). Queue nodes may fail to be
allocated (`Allocations`), in which case `addToProcessQueue` does nothing. A
sleeper whose semaphore is freed under it keeps a dangling pointer; nothing is
claimed once it is used.

`CountingSemaphore` is what callers rely on: open or not, units available, a
first-in first-out queue. The refinement mapping takes the blocked queue as it is,
and a value from which the unit promised to a process just woken (on the CPU,
not yet past its decrement) is already subtracted.

### Heap

Blocks with their header, a free list in address order, first fit, splitting only
above `MINIMUM_BLOCK_SIZE`, coalescing on both sides. Sizes are `size_t` with
`Word` values: the wrap-around in `wantedSize + nodeSize` and in its rounding is
modelled. `endNode` is the end of the list, not a block. Only blocks in use
are freed (the code has no guard against anything else).

### Keyboard

`Keyboard` extends `Semaphores`. `kbd` is the static data of the driver, `call` the
frame of `sys_read_handler` of each process: outside, asleep in
`semWait(SEM_READ)`, in the loop, or asleep in `waitKey`. A kernel frame runs with
interrupts masked, so `handleKeyboardInterrupt` can only run between two sleeps
of a reader (`Outside`). One byte of the keyboard is one action: `PrefixByte`,
`UnknownByte` or `handleKeyboardInterrupt`. One key taken from the ring is one
action: `SkipKey` (no character, `readAscii` goes on), `ReadKey` (the loop goes on)
or `EndRead` (the call posts `SEM_READ` and returns). The tables are reduced to one
key of each kind the code tells apart: a letter, C, D, backspace, tab, enter,
escape, control, and keys that exist with and without the prefix. Shift and caps
lock only choose among characters.

History variables: `pending` is what was pressed and neither read nor overwritten, `lost`
says that the ring has overflowed since it was last drained, `line` (in `call`) is
the line as the user sees it.

### Descriptors

`fdTable`, `fifoTable`, the descriptor table of each PCB and, of a pipe, whether it
is allocated and which ends are open. Slot `g` of a process holds `g` or nothing;
slots 0 and 1 may hold a pipe end in addition, uncounted. Every call is one action,
with `closePipe` and the freeing of the pipe inside `closeFds`. `openPipe` can fail
half way (`sys_openPipeFails`), `processCreate` after it has duplicated the
descriptors. The history variable `leaks` records the calls after which references
are lost for good: half-opened pipes, failed creations, a FIFO opened twice by one
process, and children of a process whose slot 0 or 1 is mapped (they inherit two
references and give back one). `NoLeak` speaks of behaviours without them, `HeldOpen`
of all. `mapStdFds` is called the way the shell does, with one pipe end
and one standard descriptor, or to undo that.

### Channel and Pipes

`Pipes` extends `Semaphores`. `pipe` is the structure, `call` the frame of each process
inside `readPipe` or `writePipe`, `holders` who refers to which end (the counts of
`Descriptors`). A call runs with interrupts masked from one sleep to the next:
`readFd` and `writeFd` enter the queue, `QueueWake` is the rest of `semWait`,
`readPipeWaits`, `writePipeWaits` go to sleep for a byte or for room, `writePipePut`
puts one byte, `readPipe`, `writePipeEnds` and `writePipeBroken` are the ways out.
Processes are created, killed, preempted and blocked by `OtherEntry`, which is any
entry of `Scheduler`, and give up the ends they hold when they end (`CloseLost`).

The ids are those of the first pipe after boot: `writequeue` 0 and `readqueue` 1.
That matters, because `readPipe` ends with `semPost(pipe->writePID)`: the pid of a
sleeping writer, or 0, taken as the id of a semaphore. With 0 it is the pipe's own
`writequeue` that gains a unit (`surplus`). `readPID` and `writePID` start with
whatever the block held (`garbage`). No system call reaches `writeFd` at this
commit (`sys_write_handler` knows STDOUT only); writers are modelled as if it did,
so that what `writePipe` would do is checked.

`Channel` is what users of a pipe rely on: bytes in order, none twice, none
missing, at most a buffer of them, and the end behind the last one, with one named
exception (`CloseFull`: `closePipe` writes the end over the oldest byte of a full
ring).

### Philosophers

One step is one access to `philoVector` or one operation on a semaphore, since a
process may be preempted between any two. The manager creates the philosophers,
waits for a key, kills them one by one, closing their semaphores behind them, and
begins the next round with one more or one fewer; `philoVector` keeps what the dead
have left. Units in the semaphore of a philosopher pile up without limit;
`MaxTokens` stands for that many and more, so nothing is cut off. A philosopher's
creation is taken to succeed.

### Shell

Where the shell and each of its jobs is (`place`), the background flags, the
blocked list, `forePid` and the two user semaphores. One step is one system call.
A line the user types is an input: a command from `Commands` (one job or two in a
pipe, with or without `&`), an idle line, control-C. The jobs are of four kinds:
`plain`, `reader` (`cat`, `wc`, `filter`), `kill` and `block`. `terminateProcess` gives
the console back and wakes the shell whatever it sleeps in; `WakeUpRead` is what a
sleeper does that was woken without a unit.

The history variable `trouble` names what has gone wrong, and each property says
which of the troubles it does not survive: a unit of `START_PROC_SEM` left over
(`early`), the unit of `SEM_READ` lost with its owner or kept by a reader that is
blocked (`keyboard`), the console given to nobody (`console`), a sleeper woken
without a unit (`woken`), a process blocked by hand (`stopped`). `Settled` says that
the jobs of the line before have come to their first system call before the user
has typed another line; without it a job of the line before could take the unit
meant for the next one.

### CommandLine and Conversions

What becomes of a line between the keyboard and the command: words, the first bar
that stands alone, the ampersand, the three arguments behind the words (handler,
flag, end to close), and what `shellProcessWrapper` reads back from them. A
character is its code. The conversions are recursive functions and folds over the
real algorithm: 32-bit wrap, sign, the first character that is no digit.
`uintToBase` takes 32 bits, so a handler above 4 GB would lose its upper half, and
the wrapper writes only the lower half of its 64-bit variable (`Leftovers`).
A line whose effect C leaves undefined (nothing to the right of the bar, or more
words than `argv0` has room for) is followed no further.

### Clock

The registers are read one by one while the clock goes on; the time is made into
text and the text into the number that `loop` compares. The range of the fields is a
constant.

### Console

The pen in pixels, the font, and for every operation the highest pixel it writes.
`line` is the line `sys_read` is editing, as long as only its echo was printed. The
history variable `mishap` names the four ways the code leaves the screen: deletion
in column 0, the guard of `delete_last_char` that refuses one column, a font that
grows too far right, and scrolling in a large font.

### Snakes

The two snakes, the food and the three phases of a round: a key, player 1, player 2.
Food is placed wherever the tick count allows it. Points, colours and drawing are
left out. At this commit the command `snakes` is declared but not in `cmds[]`, so
the game cannot be started from the shell.

### TestSync

The children with their torn addition, the semaphore they open and close, and the
parent, which waits on the pids of its children as semaphore ids: there are none,
except when a child has the pid 5, which is `SEM_ID`.

## 4. Runs

| Run | Checks | Instance |
|---|---|---|
| `scheduler_main` | `TypeOK`, `ListsAgree`, `ContextIntegrity`, `QuantumBounded`, `NoQuantumExtension`, `ShellHandback` | 4 pids, priorities 1 and 2, exceptions in the shell and in process 2, 370 000 states |
| `scheduler_live` | `ReadyRuns` | 3 pids, fair timer, 22 000 states |
| `scheduler_lowest` | `QuantumWithinPriority`, violated | as main, with priority 0 |
| `scheduler_divbyzero` | `StaysUp`, violated | as main, exceptions in processes 2 and 3 only |
| `scheduler_restart` | `BootReachesProcess`, violated | 3 pids, fair timer, exceptions in the shell |
| `semaphores_core` | `NoLostWakeup`, `ImplementsCounting` | 3 processes, 2 semaphores, 308 000 states |
| `semaphores_kill` | `LocksFree`, `HandOff`, `NoDangling` | the same with kills and failed allocations, 774 000 states |
| `keyboard_main` | `OneReader`, `KeysInOrder`, `LineEdited` | shell, foreground job and a third process, both terminal modes, prefixed keys and backspace, a ring of 2, 1 491 000 states |
| `keyboard_live` | `KeyReachesReader` | shell and a job that may be killed, control-C, tab and enter, a ring of 1, fair timer, 13 000 states |
| `pipes_main` | `NotFreedInside`, `SleepingReaderFed`, `SleepingWriterKnown`, `ImplementsChannel` | 3 processes, a ring of 2 with indices of 4 values, writes of 3 bytes, reads of 1, kills, 574 000 states |
| `userland_main` | `UserTypeOK`, `NeighboursApart`, `HungryIsTold`, `SomebodyEats`; `StartsInPlace`, `ConsoleOwned`, `OneConsoleReader`, `ShellListens` | 2 and 3 philosophers; the shell and 3 jobs, six kinds of command; 963 000 states |
| `parts_main` | all parts: `PartTypeOK` | 1 800 000 states |
| | heap: `NoOverlap`, `Coalesced`, `PayloadFits` | 208 usable bytes, 8 sizes |
| | descriptors: `HeldOpen`, `NoLeak` | 3 processes, 2 entries for pipes, 2 pipes, 1 FIFO, all failures |
| | console: `FrameBufferKept`, `EchoMatchesLine` | 10 columns, 5 rows, 3 fonts |
| | game: `LiveHeadsFree` | 8 by 7 cells, snakes of 3 that grow to 4, 3 turns in all games |
| | time: `TimeTold` | hours, minutes and seconds of 2, 3 and 11 values |
| | command line: `ArgumentsArrive` | lines of up to 6 pieces out of 6, 6 entries in `argv`, words of 26 bits |
| | `test_sync`: `UpdatesKept` | 2 pairs, 2 additions each |

Some of these are conjunctions of named parts. `PartTypeOK` has the types of all seven
parts and the facts that hold their data together: `Accounted` (the heap's counter is
what its list holds), `PipeMatchesEnds` (a pipe is freed with its last end),
`HangsTogether`, `FoodFree` and `OnePlayer` (the snakes), `SleepersServed` (`test_sync`).
`UserTypeOK` has the types of `Philosophers` and `Shell` and `NoSleeperLeft`. `TimeTold`
is `TimeHasWidth`, `TimeShown` and `LoopSeesSeconds`; `ArgumentsArrive` is
`ArgumentsWhole`, `HandlerArrives`, `OtherEndClosed` and `PidAsTyped`. The types of
`Keyboard` and of `Pipes`, with those of `Semaphores` in them, are the first conjuncts
of `KeysInOrder` and `NotFreedInside`.

`parts_main` and `userland_main` hold parts that share no state. A variable says
which of them runs and the others stay as they began, so the states add up instead
of multiplying, and every property is checked in all states of its part.

Why the bounds are enough:

* `MaxPid` counts pids ever handed out. Four give a current process, a ready one
  that waits, a blocked one and one still to be created or already freed; every
  branch of the list operations (head, middle, tail, only element) occurs. The
  proofs remove this bound for types, lists, contexts, quanta and semaphores.
* `Word` only has to exceed every priority, and for semaphores `MaxValue` by two,
  so that a wrap is visible. `Priorities = {1, 2}` next to the built-in MEDIUM (2)
  and HIGH (3) covers cutting, keeping and enlarging a quantum.
* `MaxQueue`, `MaxValue` bound the clients, not the code: with three processes the
  queues cannot be longer, except for nodes of killed sleepers.
* The heap sizes include 0, one below and one above what splits a block, one that
  fits only an empty heap, and three next to the overflow of `size_t`.
* A ring of two keys is empty, half full, full and overflowing within four key
  presses; two bytes in the caller's buffer are enough for a character, a backspace
  and the last character. A key can be pressed and released at any time.
* Two table entries hold a whole pipe or one end of each of two; `openPipe` succeeds,
  fails half way and fails at once, and entries are reused by other pipes. Three
  processes are the shell and both ends of a pipeline. `MaxRef` bounds the clients.
* A ring of two bytes is empty, half full and full within one write of three, which
  therefore always sleeps; with four values the indices wrap after two rounds.
* Two and three philosophers are the cases where left and right are the same
  neighbour and where everybody is everybody's neighbour. The count goes up and
  down, so rounds begin with every leftover of the one before.
* Three jobs are a pipe and a command typed meanwhile, or a reader, its killer and a
  third job.
* In the console all three fonts fit and wrap at different columns, and a line is
  longer than a row. Two seconds overlap in a read of the clock in every way. A line
  of six pieces has a command, its argument, a bar, a second command and an
  ampersand; six entries overflow.

`CHECK_DEADLOCK FALSE` is used only where the machine may really stop: after
"Memory Collision" and after the triple fault, when all pids of a run are used up
and nobody is left to act, and in the parts that come to an end.

**Fairness.** `FairSpec` asks for weak fairness of `Tick` only: the 8254 interrupts
18 times a second and interrupts are enabled in user code, in `haltProc` and in
the final loop of `main`. Nothing is assumed of the processes. Under it `ReadyRuns`
holds with one process that the keyboard wakes (the shell) and no third-party
blocking. It is not a property of arbitrary clients: a woken process goes *in
front* of all that are ready, so two processes that block and are woken again in
turn keep a third one from the CPU for ever. The run therefore has
`Readers = {1}` and `Third = {}`, and shows what a system with one console reader
gives.

`KbdFairSpec` adds weak fairness of the steps of a kernel frame that has the CPU, and
takes the timer as strongly fair: it is masked again and again while frames run,
but the 8259 keeps the request until interrupts are enabled.

`UserFairness` asks for weak fairness of each philosopher, of the manager, of the
shell and of each job: a process that is ready gets the CPU, which `ReadyRuns` shows
for the scheduler under its stated limits. For the jobs it includes `EndOfInput`: the
user ends what reads the keyboard with control-C or control-D. Nothing is assumed
about keys, about commands that may loop for ever, or about anybody being killed.
`SomebodyEats` needs the manager only to finish starting a round.

**What the keyboard runs leave to the shell.** `OneReader` needs the discipline of
the shell, one foreground job at a time (`Consoles = {2}`) and no foreground reader
killed inside `sys_read`. With two foreground jobs, the end of one wakes the shell
(`terminateProcess`, line 316) while it may sleep in `semWait(SEM_READ)` behind the
other; it then decrements a zero value and both read. And a reader killed inside
`sys_read` never posts `SEM_READ`. `Shell` has the same for the user's `SEM_READ`, with
all commands in play: there the wake-ups happen, are named in `trouble`, and the
properties hold up to them. No document of the repository promises more, so these
are hazards with a note, not runs.

**Disagreements with what the repository says.** Each is a run that ends in a
violation.

* `scheduler_lowest`: `test_prio.c` uses 0 as the lowest priority. A process of
  priority 0 that is dispatched has its counter decremented from 0 and gets the
  longest quantum of all.
* `scheduler_divbyzero`: `if (blockedList.first == NULL)` in `removeTerminated`
  (line 273) is inverted. After the only blocked process has been killed, the
  division by zero that the `divbyzero` command demonstrates takes the machine
  down.
* `scheduler_restart`: after an exception in the shell, `restart` leads to "Memory
  Collision" at the next tick, since `firstTime` is not set again.

## 5. Proofs

Eight modules hold theorems. Unless a hypothesis is named, a theorem rests on the
named `ASSUME`s of the modules it extends, which TLC evaluates in their runs.

### Lists and contexts: SchedulerProofs

`SchedulerProofs` proves, for every `MaxPid`, every set of priorities and every
choice of the other sets, from `SchedulerAssumption` only (in essence `MaxPid >= 1`,
and a `size_t` that holds every priority in use):

* `TypeCorrect`: `Spec => []TypeOK`
* `ListsCorrect`: `Spec => []ListsAgree`
* `ContextsCorrect`: `Spec => []ContextIntegrity`

All three follow from `Consistent`, `Spec => []IInv(k)`. None of the three is inductive
by itself: that a saved context goes to its owner needs to know that the CPU runs
the head of the ready list; that, after a block, needs the lists to agree with the
states; and the lists can only be updated correctly if the sequences have no
duplicates. `IInv` is therefore the conjunction of

* `Core`, the types, and that saved contexts are their owners';
* `Agree`, lists and states;
* `OnCpu`, who has the CPU.

Within one entry `Agree` is broken on purpose: the current process is already
BLOCKED or TERMINATED and still at the head of the ready list. `AgreeBut` says
"for all but the current process", and `Ready4Switch` is what `scheduler()` needs on
entry; its lemma gives back the full invariant. The other lemmas have one
per C function (`HandBackFacts`, `RemoveTerminatedFacts`, `TakeCpuFacts`,
`TerminateFacts`, `CreateFacts`, ...), and `NextIInv` has one step per action.
The lemmas on `Rotate`, `AddNext`, `Unlink` and `Push` (what elements the result has,
and that it has no duplicates) come first in the module.

### Quanta and the console: SchedulerProofs

* `QuantumCorrect`: `Spec => []QuantumBounded`, if `0 \notin Priorities`
* `NoExtensionCorrect`: `Spec => NoQuantumExtension`
* `HandbackCorrect`: `Spec => ShellHandback`

The hypothesis is needed: with priority 0 the counter wraps (`scheduler_lowest`).
`QuantumBounded` is not inductive: it speaks of processes that wait in the ready list,
and a blocked one joins them with the counter it had. `QInv` says it of every live
process: all but the head of the ready list have at least one tick left (all without
exception while the CPU is halted), and no priority is 0. Within one entry the counters
change in two stages, when the current process leaves the CPU and when the next one
takes it (`Left`, `Took`); `OnlyPcb` says that a call touches one PCB. The two
action properties need `IInv` only.

### Semaphores: SemaphoresProofs

* `SemTypeCorrect`: `SemSpec => []SemTypeOK`
* `LocksCorrect`: `SemSpec => []LocksFree`
* `NoDanglingCorrect`: `SemSpec => []NoDangling`, if `OpenBeforeWait`
* `HandOffCorrect`: `SemSpec => []HandOff`, if `WokenByPost`
* `NoLostWakeupCorrect`: `SemSpec => []NoLostWakeup`, if `WokenByPost` and `SleepersKept`
* `CountingRefined`: `SemSpec => ImplementsCounting`, if all three

The hypotheses say what clients do, and each is needed:

* `OpenBeforeWait`: a process opens a semaphore before it waits on it. `semWait` does not
  check, and a semaphore is freed when its list of *openers* is empty.
* `WokenByPost`: processes that use semaphores are woken by `semPost` only. `sleep` is
  not repeated in `semWait` when somebody else unblocks the process, so `sys_unblock`, a
  key, or the console handed back to the shell would let it pass without a unit.
* `SleepersKept`: processes that wait are not killed and get a queue node. A killed
  sleeper stays in the queue and takes the next post with it; without a node a
  sleeper is known to nobody.

The constants of `semaphores_core` satisfy all three; those of `semaphores_kill`, where
sleepers are killed and allocations fail, the first two.

The invariants form a chain. `SemState` (no hypothesis) is `IInv` with the types,
free locks, closed semaphores that are blank, and frames that point to open ones.
`KeptOpen` adds that a sleeper is among the openers. `HandedOver` says that a
sleeper that is ready again is on the CPU and has its unit; it rests on the lemmas
on `Woken`, which follow the woken process from `wakeup` through the yield in
`semPost` to the CPU. `Queued` says that a sleeper is in the queue until then. For
the refinement, every step of `SemNext` either leaves each mapped semaphore as it is
or makes one step of one of them (`CountsStep`); the decrement of a woken process is
a stutter because the mapped value had lost that unit when it was posted.

### Keyboard: KeyboardProofs

* `KeyOrderCorrect`: `KbdSpec => []KeysInOrder`
* `LineEditedCorrect`: `KbdSpec => []LineEdited`
* `OneReaderCorrect`: `KbdSpec => []OneReader`, if `OneConsole`

The first two need nothing of the processes: `DataState` has the types of the
driver and of every suspended frame of `sys_read`, with its line; `RingOrder` says
that the key stored `j` keys ago is `j` places behind `write_idx` in the ring, as
long as none was lost. Both are kept by each action whoever has the CPU.

`OneReader` is a property of the shell's use of the driver, and `OneConsole` says
which: at most one process besides the shell may be in the foreground, nobody blocks or
wakes these two by hand, the shell raises no exception (after `restart` a new shell has
its pid and nobody posts `SEM_READ` for the old one), and the other one is not
killed, as it would take the unit with it. The constants of `keyboard_main` satisfy
it. The other one may end or raise an exception anywhere, and of all further
processes nothing is assumed. `ReadInv` is the inductive invariant:

* `ReadersKnown`: only the two processes have a frame of `sys_read`, they are alive,
  and it agrees with their frames of `semWait`;
* `ReadUnit`: the unit of `SEM_READ` is there, or with the one process that passed its
  `semWait`;
* `ReadQueue`: who sleeps in `SEM_READ` is blocked and in its queue while the other has the
  unit, or was woken by a post and runs; the queue holds nobody else;
* `KeyWaiter`: a reader asleep in `waitKey` finds `keysToRead = 0` and itself in
  `blockedpid`, and one that looks at the ring runs.

It was checked with TLC on the constants of `keyboard_main` and on others with faulty
processes, kills and more third parties before it was proved. The steps of the
kernel below come from lemmas of `SemaphoresProofs` that say what `SemNext` leaves
alone (`Stays`, `KeepsBoth`) and whom it may wake or end (`NextMoved`).

### Pipes: PipesProofs

* `NotFreedInsideCorrect`: `PipeSpec => []NotFreedInside`
* `ChannelRefined`: `PipeSpec => ImplementsChannel`
* `SleepingReaderCorrect`: `OwnUsers` implies `PipeSpec => []SleepingReaderFed`
* `SleepingWriterCorrect`: `OwnUsers` implies `PipeSpec => []SleepingWriterKnown`

The first two need nothing of the processes: whoever is killed, blocked, woken by hand or
forked, with `readPID` and `writePID` as the block from `alloc` had them. `PipeState` is
the inductive invariant of both:

* `CallState`: a process with a frame in the pipe holds the end it uses, its frame of
  `semWait` is that of the queue its frame in the pipe says, and a writer is at a
  byte of its count;
* `EndsState`: an end is open exactly while somebody holds it, and the two queues
  exist exactly while one end is open;
* `RingState`: there are at most `PIPE_BUFFER` bytes while the end for writing is open. After
  it is closed there may be one more; then the first one is the end of the data. Without
  that last part the invariant is not inductive, since `readPipe` could take bytes of
  a ring that holds more than its buffer.

A byte of the ring is at an index taken twice modulo: by `Index`, the range of its type,
and by `PIPE_BUFFER`. `IndexWrap` and `ModPeriod` say that the first wrap does not
change the place, which holds because `PIPE_BUFFER` divides `Index` (4096 and 2^32 in the
code), and `ModApart` that bytes less than a buffer apart have different places. On
these rest `PutByteFacts`, `TakeFacts` and, with the least number principle for the
bytes that `readPipe` takes, `TakenFacts`. `LevelFacts` needs `Index > PIPE_BUFFER + 1`:
with a smaller range the ring with one byte too many would look empty. Each action is
then a step of `Channel` or leaves it alone: `SendChannel`, `ReceiveChannel`,
`LostChannel` (`Close` or `CloseFull`), `SameChannel`.

The sleepers need `OwnUsers`: no process is unblocked by hand or by the keyboard,
nobody but the shell has the console (`terminateProcess` wakes the shell when it hands
it back, and the shell may be inside the pipe), and no exception restarts the shell while
it is inside. A sleeper of
`semWait` that is woken by anything but a post takes a unit that is not there, and two
readers are inside. `OwnUsers` holds of the constants of `pipes_main`. Kills, forks
and closes are free, at any moment. `SleepInv` is the invariant, checked with TLC before
it was proved; it says, unless `readPID` and `writePID` were garbage at first:

* `CallsKnown`: who has a frame in the pipe lives, and is between two waits only
  while it has the CPU;
* `ReaderNoted`, `WriterNoted`: a noted pid is that of a process in the loop, or of one
  that was killed there. A pid is given once, so waking it then wakes nobody;
* `QueueSleepers`: a queue may still hold processes that were killed, but a live one in
  it sleeps in that queue and is blocked, unless it is the one that was just woken and
  has the CPU;
* `OneUser`: each queue is a mutex. The unit is in the semaphore, with the one user inside,
  or given back and waiting for the process just woken. A user killed inside takes the
  unit with it, and the others wait for good: the invariant allows that, as the code does;
* `ReaderFed`: the pid of the reader in the loop is noted, and if it is asleep there is
  nothing but the end of the data, or a writer is putting bytes with interrupts
  masked and will wake it before it gives up the CPU;
* `WriterKnown`: the same of the writer, with a full buffer.

The last one and `OneUser` of the writers hold until a reader posts the queue of the writers
(`trouble`). `Calm` says what blocking, waking and posting leave alone, `QueuesStep` and
`MutexPosted` what a post does to a queue and to its unit, and `LostSleep` that no entry from
outside disturbs who sleeps inside.

### Descriptors: PartsProofs

* `CountsCorrect`: `FdSpec => []CountInv`
* `HeldOpenCorrect`: `FdSpec => []HeldOpen`; `NoLeakCorrect`: `FdSpec => []NoLeak`
* `PipesFreedCorrect`: `FdSpec => [](FdTypeOK /\ PipeMatchesEnds)`

`CountInv`: the reference count of an entry is at least the number of live processes
that use it plus the number of FIFOs that list it, and equal while nothing is in
`leaks`. The lower bound is what keeps an end open, the equality what gets it
closed, and one cannot be kept without knowing where a slot may point (`Named`) and
that free FIFO entries list nothing (`Unlisted`). `EndInv` adds that an end of a pipe is open
exactly as long as it has an entry, and has one only.

### Console: PartsProofs

* `FrameBufferCorrect`: `ConsoleSpec => []FrameBufferKept`
* `EchoCorrect`: `ConsoleSpec => []EchoMatchesLine`

for every screen, every prompt and every length of a line, where `ConsoleAssumption` says
that the screen is at least six characters wide and four high, that a character is at
most twice as high as it is wide (16 by 9 in the code) and that coordinates fit into
their type. The invariant is `ConsoleInv`: the types, `EchoMatchesLine`, and `PenInv`: until the pen
left the screen there is room for one more character in its row and nothing was written
behind the frame buffer. That room is what `print_char` relies on, as it writes first and
looks for the margin afterwards. The arithmetic of the wrap (`Wraps`, `ColumnsFacts`) is the
rest of it: a pen that moves cell by cell and a remainder that counts characters go
over to the next row together.

### Snakes: PartsProofs

* `LiveHeadsFreeCorrect`: `SnakesSpec => []LiveHeadsFree`
* `FoodFreeCorrect`: `SnakesSpec => []FoodFree`
* `SnakesWholeCorrect`: `SnakesSpec => [](SnakesTypeOK /\ HangsTogether /\ OnePlayer)`

for every screen on which new snakes lie inside the borders (which `SnakesAssumption` says
and the 128 by 96 cells of the code satisfy), any number of games and turns.
`LiveHeadsFree` speaks of the end of a round only: `SnakesInv` says what is left of it
after the verdict on player 1 (`FirstClear`), which includes that its head is on no
segment of player 2 as it was *before* its move. That is what excludes all of player 2 but
the segment that grows. It also has `OnePlayer`: alone, player 1 does not die of the snake
another game left.

`HangsTogether` names the four neighbours of a cell, and a head that leaves the screen at 0
comes back as the largest number of the type. So the invariant is `WholeInv`, which says that
every segment is where a step from the one in front of it leads. A move keeps that because it
pulls each segment to where its predecessor was (`ShiftWhole`), and growth does because the
new tail is a step away in the opposite direction, which leads back, at the edges too
(`StepBack`).

### Folds: FoldProofs

The additions of `TestSync`, the bytes of `Heap` and the figures of `Clock` are folds of the
community modules, which are values of functions that are defined by recursion on a set
and picked with `CHOOSE`. `FoldExists` says that there is such a function for every finite
set; for sums, `SumWithout` says that any value may be taken off, and `SumOneMore`,
`SumSame` and `SumImage` what a sum does when a value grows, when no value changes and when
the set is another one with as many elements. Induction theorems cannot be
instantiated here: each of these is shown by looking at the smallest set for which it would
not be so (`SmallestSet`, `LeastElement`).

### TestSync: FoldProofs

* `UpdatesKeptCorrect`: `SyncSpec => []UpdatesKept`
* `SleepersServedCorrect`: `SyncSpec => []SleepersServed`
* `SyncTypeCorrect`: `SyncSpec => []SyncTypeOK`

for any number of pairs and additions and any pids of the children. `SyncInv` says that there
is one unit (`OneUnit`), who sleeps and where (`Sleeping`), that nobody wrote since its holder
read (`ReadIsFresh`), and that the number is what was added so far. `Added` is a sum over
the children (`AddedIsSum`, `AddedOneMore`).

Without the semaphore additions are lost, and the type of `global` is a claim about how
many: it stays within the additions of all pairs. `BoundsInv` says more: the number, and
whatever a child has read of it, is between what was taken off so far and what was added so
far. A child that read long ago writes one more or less than an old number, and by then
one more was added (`BoundsWrite`). That both counts are at most the pairs times the
additions is a sum over pairs (`PairSums`).

### Heap: FoldProofs

* `HeapCorrect`: `HeapSpec => []HeapInv`
* `HeapNoOverlap`, `HeapCoalesced`, `HeapPayloadFits`: `HeapSpec => []NoOverlap`,
  `[]Coalesced`, `[]PayloadFits`
* `AccountedCorrect`: `HeapSpec => []Accounted`; `HeapTypeCorrect`: `HeapSpec => []HeapTypeOK`

They hold for every heap and every set of requested sizes. `NoOverlap`, `Coalesced` and `PayloadFits` are
proved from one invariant, as none of them is inductive: that `free` merges all it
can needs the list in address order; that it stays in order needs the freed block to
overlap nothing in it. `HeapInv` says that the free list is ordered with a gap between
two blocks, that free and used blocks are aligned and inside the region, and that no
used block overlaps another one or a free one. `IsSplice` describes every change of
the list (insert, merge left, right or both, take, split) as a replacement of a
stretch of it, so that order is proved once.

`AccountInv` adds the sums: `freeBytesRemaining` is the bytes of the free list, and with the
bytes in use it is the region. `ListBytes` sums over the *set* of blocks of a list, which
is the fold over the list because no block is in it twice (`SumOfList`, `NotTwice`); then a
splice takes at most two blocks out of the set and puts one in (`LinkBytes`). The
bounds of `HeapTypeOK` on the counter follow: nothing in `alloc` keeps the subtraction
from wrapping but that the block it takes was counted.

### Clock: FoldProofs

* `TimeToldCorrect`: `ClockSpec => []TimeTold`

for every clock whose fields have at most 99 values and whose times, read as numbers with their
colons for figures, fit in a `uint32_t` (`RangeAssumption`; 24 hours in the code). `uintToBase` and
`strToIntBase` are recursive: `RecursionExists` gives the function that the first one is
the value of, and `FigureSteps` and `ParseSteps` are what each writes or reads step by step. A
field is two figures (`TwoFigures`), so the text has eight characters (`TextOfTime`) and its
number is 1000000 h + 300000 + 1000 m + 300 + s, as `:` counts 10 (`NumberOfTime`): minutes and
seconds below 100 leave the fields apart (`NumbersDiffer`). `ClockInv` says what `TimeShown` needs of
a time that is being read register by register: if the clock stood still since, the fields
read are its fields.

### Philosophers: UserlandProofs

* `PhiloCorrect`: `[]PhiloInv`
* `NeighboursCorrect`: `[]NeighboursApart`; `HungryToldCorrect`: `[]HungryIsTold`
* `MutexCorrect`: `[]OneInside`; `SleepersCorrect`: `[](PhiloTypeOK /\ NoSleeperLeft)`

all from `PhiloInit /\ [][PhiloNext]_philoVars`, for every number of philosophers, across
rounds in which the manager kills them anywhere. `PhiloInv` joins who exists while the
manager opens, creates, kills and closes (`Round`), what the queues hold (`Queues`), what a
philosopher has in `philoVector` at each place (`Says`), the mutex (`OneInside`) and
`Told`, which is `HungryIsTold` extended to a philosopher that has looked and not yet
gone to sleep: that is the window in which a neighbour's message could be missed.

### Shell: UserlandProofs

* `ShellCorrect`: `[]ShellInv`
* `ShellTypeCorrect`: `[]ShellTypeOK`
* `StartsCorrect`: `[]StartsInPlace`; `ConsoleCorrect`: `[]ConsoleOwned`;
  `ReadersCorrect`: `[]OneConsoleReader`

from `ShellInit /\ [][ShellNext]_shellVars`, for any number of jobs and any set of
commands of one or two processes (which is what `ShellAssumption` says of them, and
what the parser produces). Each part of `ShellInv` holds until the failures that
`trouble` names: `ReadInv` (one unit of `SEM_READ`, in the semaphore or with a process;
sleepers are blocked) until somebody was woken by something else than a post,
`ConsoleInv` (who is in the foreground while the shell is where) until the console was
given to a dead process, `StartInv` until a unit of `START_PROC_SEM` was
left over by a job that ended before it took it, or somebody was woken or blocked by
hand. The core of the last one is a count: the
jobs that still need a unit of `START_PROC_SEM` are as many as the units there and the posts
the shell owes. `StartsInPlace` alone is not inductive, as a unit left over from an
earlier command would let a job through.

* `UserTypeCorrect`: `UserlandSpec => []UserTypeOK`, and `UserCorrect`, which joins the rest

are about the specification that runs one of the two programs (`MCUserland`, without its
fairness): what it does is a behaviour of both (`ProgramsRun`).

### The parts together: MCPartsProofs

* `PartTypeCorrect`: `PartSpec => []PartTypeOK`
* `PartsCorrect`: `PartSpec => []` the other invariants of `parts_main` but `ArgumentsArrive`

A run of `MCParts` is a run of each part (`PartsRun`), as a part that is not the one that
runs does not move; so what is proved of the parts holds in it.

### Only model-checked

* `ArgumentsArrive` of `CommandLine`: what splitting, joining and parsing texts of any length
  compute together.
* Liveness (`ReadyRuns`, `KeyReachesReader`, `SomebodyEats`, `ShellListens`): the proof
  system does not treat fairness.
* What the conversions of `Conversions` compute for every input; the texts of the time are
  covered by `TimeToldCorrect`.

## 6. Not modelled

* `Kernel/MemoryManager/buddy.c`: not in the default build, and not a program: it does
  not compile (`#define MAX LEVELS 26`, undeclared names, `used_memory= -=`).
* `test_prio`, `test_processes` and `test_mm`: loops of system calls that are modelled
  one by one; they keep nothing shared. What they say of the kernel was read
  (`scheduler_lowest`).
* More than one pipe at a time in `Pipes`: the second one shares its `writequeue` with
  the `SEM_READ` of `sys_read`. Two components that are checked apart meet there; it is a hazard
  without a property.
* Commands that only print, `nice` (its argument check; `changePriority` is in
  `Scheduler`), `printf` and the string helpers, the register dump, listings.
* Shift, caps lock and the keys that differ only in their character.
* Pixels, colours and rectangles; speaker; tick counter.
* Boot loader and disk tool (BMFS, Pure64: vendored), module loader, image packer.
* Overflow of process stacks and wild writes by user programs: there is no memory
  protection, so nothing holds after them.
