---------------------------- MODULE MCPartsProofs ----------------------------
(***************************************************************************)
(* Proofs about the parts as they are run together (MCParts): whatever is  *)
(* a theorem of a part by itself holds whichever part runs, for every      *)
(* value of the constants of all of them.                                  *)
(***************************************************************************)
EXTENDS MCParts, PartsProofs, FoldProofs

---------------------------------------------------------------------------
(* The states the parts begin in together are states each begins in.       *)
LEMMA PartsBegin ==
    PartInit => HeapInit /\ FdInit /\ ConsoleInit /\ ClockInit /\ SnakesInit /\ SyncInit
<1> QED
    BY Zenon DEF PartInit

(* A step is one of the part that runs, and the others do not move.        *)
LEMMA PartsStep ==
    ASSUME [PartNext]_partVars
    PROVE  /\ [HeapNext]_heapVars
           /\ [FdNext]_fdVars
           /\ [ConsoleNext]_consoleVars
           /\ [ClockNext]_clockVars
           /\ [SnakesNext]_snakeVars
           /\ [SyncNext]_syncVars
<1>1. CASE UNCHANGED partVars
    BY <1>1, Zenon DEF partVars
<1>2. CASE HeapPart
    BY <1>2, Zenon DEF HeapPart
<1>3. CASE FdPart
    BY <1>3, Zenon DEF FdPart
<1>4. CASE ConsolePart
    BY <1>4, Zenon DEF ConsolePart
<1>5. CASE ClockPart
    BY <1>5, Zenon DEF ClockPart
<1>6. CASE CommandPart
    BY <1>6, Zenon DEF CommandPart
<1>7. CASE SnakesPart
    BY <1>7, Zenon DEF SnakesPart
<1>8. CASE SyncPart
    BY <1>8, Zenon DEF SyncPart
<1> QED
    BY <1>1, <1>2, <1>3, <1>4, <1>5, <1>6, <1>7, <1>8, Zenon DEF PartNext

(* So a run of the parts is a run of each.                                 *)
LEMMA PartsRun ==
    PartSpec => HeapSpec /\ FdSpec /\ ConsoleSpec /\ ClockSpec /\ SnakesSpec /\ SyncSpec
<1>1. [PartNext]_partVars => /\ [HeapNext]_heapVars
                             /\ [FdNext]_fdVars
                             /\ [ConsoleNext]_consoleVars
                             /\ [ClockNext]_clockVars
                             /\ [SnakesNext]_snakeVars
                             /\ [SyncNext]_syncVars
    BY PartsStep, Zenon
<1> QED
    BY <1>1, PartsBegin, PTL
       DEF PartSpec, HeapSpec, FdSpec, ConsoleSpec, ClockSpec, SnakesSpec, SyncSpec

---------------------------------------------------------------------------
(* The data of every part is well typed and hangs together, in every run   *)
(* of MCParts: the heap's counter is what its list holds, an end of a pipe *)
(* is open as long as it has an entry, the pen has room below it, snakes   *)
(* are in one piece with the food beside them, and test_sync's number is   *)
(* within its additions and its semaphore's unit is not left with sleepers.*)
THEOREM PartTypeCorrect == PartSpec => []PartTypeOK
<1>1. HeapSpec => [](HeapTypeOK /\ Accounted)
    BY HeapTypeCorrect, AccountedCorrect, PTL
<1>2. ConsoleInv => ConsoleTypeOK
    BY Zenon DEF ConsoleInv
<1>3. ConsoleSpec => []ConsoleTypeOK
    BY <1>2, ConsoleInvHolds, PTL
<1>4. SnakesSpec => [](SnakesTypeOK /\ HangsTogether /\ OnePlayer /\ FoodFree)
    BY SnakesWholeCorrect, FoodFreeCorrect, PTL
<1>5. SyncSpec => [](SyncTypeOK /\ SleepersServed)
    BY SyncTypeCorrect, SleepersServedCorrect, PTL
<1>6. /\ HeapTypeOK /\ Accounted
      /\ FdTypeOK /\ PipeMatchesEnds
      /\ ConsoleTypeOK
      /\ SnakesTypeOK /\ HangsTogether /\ OnePlayer /\ FoodFree
      /\ SyncTypeOK /\ SleepersServed
      => PartTypeOK
    BY Zenon DEF PartTypeOK
<1> QED
    BY <1>1, <1>3, <1>4, <1>5, <1>6, PipesFreedCorrect, PartsRun, PTL

(* What the parts promise holds in every run of MCParts: no byte belongs   *)
(* to two blocks, no two free blocks touch and a caller gets the bytes it  *)
(* asked for; nobody's descriptor is given away and none leaks; nothing is *)
(* written behind the frame buffer and the pen follows the line; living    *)
(* heads are on free cells; a time is told as it was read; and no addition *)
(* is lost with the semaphore.                                             *)
THEOREM PartsCorrect ==
    PartSpec => [](/\ NoOverlap /\ Coalesced /\ PayloadFits
                   /\ HeldOpen /\ NoLeak
                   /\ FrameBufferKept /\ EchoMatchesLine
                   /\ LiveHeadsFree /\ TimeTold /\ UpdatesKept)
<1>1. HeapSpec => [](NoOverlap /\ Coalesced /\ PayloadFits)
    BY HeapNoOverlap, HeapCoalesced, HeapPayloadFits, PTL
<1>2. FdSpec => [](HeldOpen /\ NoLeak)
    BY HeldOpenCorrect, NoLeakCorrect, PTL
<1>3. ConsoleSpec => [](FrameBufferKept /\ EchoMatchesLine)
    BY FrameBufferCorrect, EchoCorrect, PTL
<1> QED
    BY <1>1, <1>2, <1>3, LiveHeadsFreeCorrect, TimeToldCorrect, UpdatesKeptCorrect, PartsRun, PTL
==============================================================================
