------------------------------ MODULE MCParts ------------------------------
(***************************************************************************)
(* Parts that share no state, each checked by itself: `part' says which of *)
(* them is running, and the others stay as they began.                     *)
(***************************************************************************)
EXTENDS Heap, Descriptors, Console, Clock, CommandLine, Snakes, TestSync, TLC

VARIABLE part

(* "k", " ", " |", " &", " 7" and a number that is 7 to an int of 26 bits. *)
MCPieces == {<<107>>, <<32>>, <<32, 124>>, <<32, 38>>, <<32, 55>>,
             <<54, 55, 49, 48, 56, 56, 55, 49>>}
MCNames  == {<<107>>}
MCEnds   == {<<3, 14>>, <<0, 5>>}
MCRange  == <<2, 3, 11>>

(* Pipe structures differ only by their address.                           *)
Symmetry == Permutations(Pipes)

partVars == <<part, heapVars, fdVars, consoleVars, clockVars, commandVars, snakeVars, syncVars>>

(* A part that does not run is in one state.  Which pid the first child of *)
(* test_sync has only matters with use_sem.                                *)
PartInit ==
    /\ part \in {"heap", "fd", "console", "clock", "command", "snakes", "sync"}
    /\ HeapInit /\ FdInit /\ ConsoleInit /\ CommandInit /\ SnakesInit
    /\ ClockInit /\ (part # "clock" => clock = <<0, 0, 0>>)
    /\ SyncInit
    /\ \/ part = "sync" /\ use_sem = TRUE
       \/ use_sem = FALSE /\ \A pid \in FirstPids : firstPid >= pid

HeapPart    == part = "heap" /\ HeapNext
               /\ UNCHANGED <<part, fdVars, consoleVars, clockVars, commandVars, snakeVars, syncVars>>
FdPart      == part = "fd" /\ FdNext
               /\ UNCHANGED <<part, heapVars, consoleVars, clockVars, commandVars, snakeVars, syncVars>>
ConsolePart == part = "console" /\ ConsoleNext
               /\ UNCHANGED <<part, heapVars, fdVars, clockVars, commandVars, snakeVars, syncVars>>
ClockPart   == part = "clock" /\ ClockNext
               /\ UNCHANGED <<part, heapVars, fdVars, consoleVars, commandVars, snakeVars, syncVars>>
CommandPart == part = "command" /\ CommandNext
               /\ UNCHANGED <<part, heapVars, fdVars, consoleVars, clockVars, snakeVars, syncVars>>
SnakesPart  == part = "snakes" /\ SnakesNext
               /\ UNCHANGED <<part, heapVars, fdVars, consoleVars, clockVars, commandVars, syncVars>>
SyncPart    == part = "sync" /\ SyncNext
               /\ UNCHANGED <<part, heapVars, fdVars, consoleVars, clockVars, commandVars, snakeVars>>

PartNext ==
    HeapPart \/ FdPart \/ ConsolePart \/ ClockPart \/ CommandPart \/ SnakesPart \/ SyncPart

PartSpec == PartInit /\ [][PartNext]_partVars

---------------------------------------------------------------------------
(* The data of every part is well typed and hangs together: the heap's     *)
(* counter is what its list holds, an end of a pipe is open as long as it  *)
(* has an entry, the pen has room below it, snakes are in one piece with   *)
(* the food beside them, and test_sync's semaphore has at most one unit.   *)
PartTypeOK ==
    /\ HeapTypeOK /\ Accounted
    /\ FdTypeOK /\ PipeMatchesEnds
    /\ ConsoleTypeOK
    /\ SnakesTypeOK /\ HangsTogether /\ FoodFree /\ OnePlayer
    /\ SyncTypeOK /\ SleepersServed
============================================================================
