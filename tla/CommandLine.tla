---------------------------- MODULE CommandLine ----------------------------
(***************************************************************************)
(* What the shell makes of a line (split, checkPipeCommand, parseCommand,  *)
(* runCommand and runPipedCommands of shell.c) and what the new process    *)
(* makes of the arguments it is created with (shellProcessWrapper and the  *)
(* argument of kill and block).                                            *)
(*                                                                         *)
(* The line is typed in pieces, texts of a small set.  The handler of a    *)
(* command, a 64-bit address below Word32, travels as decimal text.        *)
(***************************************************************************)
EXTENDS Conversions

CONSTANTS
    Pieces,       \* the texts the user types
    MaxPieces,    \* bound on how many of them make a line
    Names,        \* the names in cmds[]
    Handlers,     \* the addresses its handlers may have
    MaxCount,     \* the entries of argv0 and argv1: 64
    PipeEnds,     \* the descriptors sys_pipe may give: <<reading, writing>>
    Leftovers     \* what the upper half of an uninitialised word may hold

ASSUME CommandAssumption ==
    /\ \A p \in Pieces \cup Names : p \in Seq(1..127)
    /\ Handlers \subseteq 0..(Word32 - 1) /\ \A h \in Handlers : h < Word32 \div 2
    /\ MaxCount \in Nat \ {0}

VARIABLES
    typed,      \* the line
    pieces,     \* how many pieces it has
    jobs,       \* the processes created for it: argv as createprocess copies
                \* it, and the handler meant
    pipeEnds,   \* the ends of its pipe
    started     \* what the wrapper of each has done, by job

commandVars == <<typed, pieces, jobs, pipeEnds, started>>

Space     == 32
Ampersand == 38
Bar       == <<124>>
WRAPPER_ARGS == 3
NoEnds    == <<-1, -1>>
Waiting   == [handler |-> -1, argv |-> <<>>, closed |-> -1, number |-> -1]

---------------------------------------------------------------------------
(* Mutant: a space behind a space is taken for part of the word.           *)
splitRuns(input) ==
    FoldLeft(LAMBDA words, c :
                IF c = Space /\ Len(words) < MaxCount /\ Last(words) # <<>>
                THEN Append(words, <<>>)
                ELSE [words EXCEPT ![Len(words)] = Append(@, c)],
             << <<>> >>, input)

(* The words between spaces, two spaces having an empty word between them; *)
(* the last word there is room for takes the rest of the line.             *)
split(input) ==
    FoldLeft(LAMBDA words, c :
                IF c = Space /\ Len(words) < MaxCount
                THEN Append(words, <<>>)
                ELSE [words EXCEPT ![Len(words)] = Append(@, c)],
             << <<>> >>, input)

(* The place of the first word that is a bar, 0 where there is none.       *)
checkPipeCommand(words) == SelectInSeq(words, LAMBDA w : w = Bar)

(* parseCommand finds a handler.                                           *)
Known(words) == words[1] \in Names

IsAmpersand(word) == word # <<>> /\ word[1] = Ampersand

isBackground(words) == IsAmpersand(Last(words))

RightOf(words, bar) == SubSeq(words, bar + 1, Len(words))

Flag(back) == <<IF back THEN Zero + 1 ELSE Zero>>

(* The words of a command and the three arguments behind them.             *)
Arguments(words, handler, back, end) ==
    words \o <<uintToBase(handler, Decimal), Flag(back), end>>

Job(words, handler, back, end) == [argv |-> Arguments(words, handler, back, end), handler |-> handler]

---------------------------------------------------------------------------
TypePiece(p) ==
    /\ jobs = <<>> /\ pieces < MaxPieces
    /\ typed' = typed \o p /\ pieces' = pieces + 1
    /\ UNCHANGED <<jobs, pipeEnds, started>>

Discard ==
    typed' = <<>> /\ pieces' = 0 /\ jobs' = <<>> /\ pipeEnds' = NoEnds /\ started' = <<>>

(* A command nobody knows.                                                 *)
NotFound(words, bar) ==
    /\ \/ ~Known(words)
       \/ bar > 0 /\ bar < Len(words) /\ ~Known(RightOf(words, bar))
    /\ Discard

(* runCommand: no pipe, and "-1" for the end to close.                     *)
runCommand(words, h) ==
    /\ Known(words) /\ Len(words) + WRAPPER_ARGS <= MaxCount
    /\ jobs' = <<Job(words, h, isBackground(words), <<Minus, Zero + 1>>)>>
    /\ started' = <<Waiting>>
    /\ UNCHANGED <<typed, pieces, pipeEnds>>

(* runPipedCommands: the left side closes the end it does not use, the     *)
(* reading one, and the right side the writing one.                        *)
runPipedCommands(left, right, h, g, ends) ==
    LET back == isBackground(right)
    IN  /\ jobs' = <<Job(left, h, back, uintToBase(ends[1], Decimal)),
                     Job(right, g, back, uintToBase(ends[2], Decimal))>>
        /\ pipeEnds' = ends
        /\ started' = <<Waiting, Waiting>>
        /\ UNCHANGED <<typed, pieces>>

(* Both commands are known; or sys_pipe has no pipe left.                  *)
RunPiped(words, bar) ==
    LET left  == SubSeq(words, 1, bar - 1)
        right == RightOf(words, bar)
    IN  /\ bar < Len(words) /\ Known(words) /\ Known(right)
        /\ Len(left) + WRAPPER_ARGS <= MaxCount /\ Len(right) + WRAPPER_ARGS <= MaxCount
        /\ \/ \E h, g \in Handlers, ends \in PipeEnds : runPipedCommands(left, right, h, g, ends)
           \/ Discard

(* What follows is undefined: nothing stands right of the bar, and argv1   *)
(* holds what an earlier line left there; or the three arguments are       *)
(* written past the end of argv0.  The line is followed no further.        *)
Undefined(words, bar) ==
    /\ Known(words)
    /\ \/ bar > 1 /\ bar = Len(words)
       \/ Len(words) + WRAPPER_ARGS > MaxCount
    /\ Discard

runShell ==
    LET words == split(typed)
        bar   == checkPipeCommand(words)
    IN  /\ jobs = <<>> /\ typed # <<>>
        /\ \/ NotFound(words, bar) \/ Undefined(words, bar)
           \/ bar = 0 /\ \E h \in Handlers : runCommand(words, h)
           \/ bar > 1 /\ RunPiped(words, bar)

---------------------------------------------------------------------------
(* The argument of kill and of block: nothing is done for -1.              *)
PidArgument(argv) ==
    IF Len(argv) < 2 THEN -1 ELSE strToIntBase(argv[2], Decimal, TRUE, -1)

(* The arguments the command is called with.                               *)
CommandArguments(argv) ==
    LET own == Len(argv) - WRAPPER_ARGS
    IN  SubSeq(argv, 1, IF IsAmpersand(argv[own]) THEN own - 1 ELSE own)

(* shellProcessWrapper: the handler is stored into the lower half of       *)
(* cmdInt, whose upper half holds what was on the stack.                   *)
shellProcessWrapper(i, upper) ==
    LET argv == jobs[i].argv
        low  == strToIntBase(argv[Len(argv) - 2], Decimal, TRUE, 0) % Word32
        end  == strToIntBase(argv[Len(argv)], Decimal, FALSE, 0)
    IN  /\ started[i] = Waiting
        /\ started' = [started EXCEPT ![i] =
                [handler |-> upper * Word32 + low,
                 argv    |-> CommandArguments(argv),
                 closed  |-> IF end >= 0 THEN end ELSE -1,
                 number  |-> PidArgument(CommandArguments(argv))]]
        /\ UNCHANGED <<typed, pieces, jobs, pipeEnds>>

NextLine ==
    /\ jobs # <<>> /\ \A i \in DOMAIN started : started[i] # Waiting
    /\ Discard

---------------------------------------------------------------------------
CommandInit ==
    typed = <<>> /\ pieces = 0 /\ jobs = <<>> /\ pipeEnds = NoEnds /\ started = <<>>

CommandNext ==
    \/ \E p \in Pieces : TypePiece(p)
    \/ runShell \/ NextLine
    \/ \E i \in DOMAIN started, upper \in Leftovers : shellProcessWrapper(i, upper)

---------------------------------------------------------------------------
Done(i) == started[i] # Waiting

(* The texts left and right of the first bar that stands alone.            *)
Sides ==
    IF Len(jobs) = 1 THEN <<typed>>
    ELSE LET AtBar(n) == SubSeq(typed, n, n + 2) = <<Space>> \o Bar \o <<Space>>
             n == CHOOSE n \in 1..(Len(typed) - 2) : AtBar(n) /\ \A o \in 1..(n - 1) : ~AtBar(o)
         IN  <<SubSeq(typed, 1, n - 1), SubSeq(typed, n + 3, Len(typed))>>

(* The words with a space between each two.                                *)
Joined(words) ==
    FoldLeft(LAMBDA text, w : text \o <<Space>> \o w, Head(words), Tail(words))

(* A command is called with all its side of the line says, in its order,   *)
(* but for a last word that begins with an ampersand.                      *)
ArgumentsWhole ==
    \A i \in DOMAIN jobs : Done(i) =>
        LET said == Joined(started[i].argv)
            rest == SubSeq(Sides[i], Len(said) + 1, Len(Sides[i]))
        IN  /\ IsPrefix(said, Sides[i])
            /\ \/ rest = <<>> /\ ~isBackground(started[i].argv)
               \/ Len(rest) > 1 /\ rest[1] = Space /\ rest[2] = Ampersand
                  /\ ~Contains(Tail(rest), Space)

(* The lower half of the address the wrapper calls is that of the handler  *)
(* which was looked up, whatever the upper half holds.                     *)
HandlerArrives ==
    \A i \in DOMAIN jobs : Done(i) => started[i].handler % Word32 = jobs[i].handler

(* Of the two ends of its pipe a command closes the one it does not use,   *)
(* and a command without a pipe closes nothing.                            *)
OtherEndClosed ==
    \A i \in DOMAIN jobs : Done(i) => started[i].closed = pipeEnds[i]

(* Where a pid is written in figures and is one, it is the one killed.     *)
PidAsTyped ==
    \A i \in DOMAIN jobs : Done(i) /\ Len(started[i].argv) > 1 =>
        LET word  == started[i].argv[2]
            worth == FoldLeft(LAMBDA n, c : IF n >= Word32 THEN Word32 ELSE n * Decimal + c - Zero,
                              0, word)
        IN  (word # <<>> /\ \A n \in DOMAIN word : word[n] \in Zero..Nine)
                /\ worth < Word32 \div 2 => started[i].number = worth

(* Everything a job is told arrives, although it all travels as text in    *)
(* one argument vector: its own words, its handler, the end of the pipe it *)
(* is to close and the number it was given.                                *)
ArgumentsArrive == ArgumentsWhole /\ HandlerArrives /\ OtherEndClosed /\ PidAsTyped
============================================================================
