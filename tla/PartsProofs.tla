----------------------------- MODULE PartsProofs -----------------------------
(***************************************************************************)
(* Proofs about three parts that share no state: the descriptor tables,    *)
(* the graphics console and the game of snakes, each from its own initial  *)
(* states and steps and for every value of its constants.                  *)
(***************************************************************************)
EXTENDS Descriptors, Console, Snakes, FiniteSetTheorems, TLAPS

---------------------------------------------------------------------------
(***************************************************************************)
(* Descriptors.                                                            *)
(*                                                                         *)
(* For any number of processes, pipes, FIFOs and entries: the reference    *)
(* counts are never below the number of references (HeldOpen), they are    *)
(* exact as long as nothing has leaked (NoLeak), and a pipe is freed with  *)
(* its last end and not before (PipeMatchesEnds). Counting needs two more  *)
(* facts: the set of processes is finite, and slot g of a process never    *)
(* holds another descriptor than g (Named), so that what sys_close and     *)
(* removeTerminated give up is what Holders counts.                        *)
(***************************************************************************)

(* Slots 0 and 1 may be mapped; the others hold their own number.          *)
Named == \A p \in Pids : \A i \in Slots : i >= 2 => fd[p][i] \in {i, None}

(* An entry of fifoTable without an id refers to nothing.                  *)
Unlisted == \A n \in Entries : fifoTable[n].id = 0 => fifoTable[n] = NoFifo

Using(g)   == {p \in live : fd[p][g] = g}
Listing(g) == {n \in Entries : g \in {fifoTable[n].readfd, fifoTable[n].writefd}}

(* The count of g is not below its references, and exact without leaks.    *)
Counts(g) ==
    /\ fdTable[g].ref >= Cardinality(Using(g)) + Cardinality(Listing(g))
    /\ leaks = {} => fdTable[g].ref = Cardinality(Using(g)) + Cardinality(Listing(g))

CountInv ==
    /\ FdTypeOK /\ IsFiniteSet(live) /\ Named /\ Unlisted
    /\ \A g \in Globals : Counts(g)

---------------------------------------------------------------------------
(* The constants.                                                          *)
LEMMA SlotFacts ==
    /\ MAX_FD \in Nat /\ MAX_FD > 3 /\ MAX_FIFO \in Nat /\ MaxRef \in Nat
    /\ \A g \in Globals : g \in Slots /\ g \in Nat /\ g >= 3
    /\ \A i \in Slots : i \in Nat /\ (i >= 3 => i \in Globals) /\ i # None
    /\ 0 \in Slots /\ 1 \in Slots /\ 2 \in Slots /\ STDIN = 0 /\ STDOUT = 1
    /\ IsFiniteSet(Slots) /\ IsFiniteSet(Globals) /\ IsFiniteSet(Entries)
<1>1. MAX_FD \in Nat /\ MAX_FD > 3 /\ MAX_FIFO \in Nat /\ MaxRef \in Nat
    BY DescriptorsAssumption
<1>2. IsFiniteSet(0..(MAX_FD - 1)) /\ IsFiniteSet(3..(MAX_FD - 1)) /\ IsFiniteSet(1..MAX_FIFO)
    <2>1. 0 \in Int /\ 3 \in Int /\ 1 \in Int /\ MAX_FD - 1 \in Int /\ MAX_FIFO \in Int
        BY <1>1
    <2> QED BY <2>1, FS_Interval
<1> QED BY <1>1, <1>2 DEF Slots, Globals, Entries, STDIN, STDOUT, None

(* A set of numbers that is not empty has a least one.                     *)
LEMMA LowestIn ==
    ASSUME NEW S \in SUBSET Nat, S # {}
    PROVE  Lowest(S) \in S
<1> DEFINE below == OpToRel(<, Nat)
<1>1. \E g \in S : \A h \in S : ~(<<h, g>> \in below)
    <2>1. IsWellFoundedOn(below, Nat)
        BY NatLessThanWellFounded
    <2> HIDE DEF below
    <2> QED BY <2>1, WFMin, Zenon
<1>2. \A g, h \in Nat : <<h, g>> \in below <=> h < g
    BY DEF OpToRel
<1> HIDE DEF below
<1>3. \E g \in S : \A h \in S : g <= h
    <2>1. PICK g \in S : \A h \in S : ~(<<h, g>> \in below)
        BY <1>1
    <2>2. ASSUME NEW h \in S PROVE g <= h
        <3>1. g \in Nat /\ h \in Nat /\ ~(h < g)
            BY <1>2, <2>1
        <3> QED BY <3>1
    <2> QED BY <2>2
<1> QED BY <1>3 DEF Lowest

(* The sets that are counted.                                              *)
LEMMA CountFacts ==
    ASSUME CountInv, NEW g \in Globals
    PROVE  /\ IsFiniteSet(Using(g)) /\ IsFiniteSet(Listing(g))
           /\ Cardinality(Using(g)) \in Nat /\ Cardinality(Listing(g)) \in Nat
           /\ fdTable[g] \in FD /\ fdTable[g].ref \in Nat
           /\ fdTable[g].ref >= Cardinality(Using(g)) + Cardinality(Listing(g))
           /\ fdTable[g].ref = 0 => Using(g) = {} /\ Listing(g) = {}
<1>1. IsFiniteSet(Using(g)) /\ IsFiniteSet(Listing(g))
    <2>1. Using(g) \in SUBSET live /\ Listing(g) \in SUBSET Entries
        BY DEF Using, Listing
    <2> QED BY <2>1, FS_Subset, SlotFacts DEF CountInv
<1>2. Cardinality(Using(g)) \in Nat /\ Cardinality(Listing(g)) \in Nat
    BY <1>1, FS_CardinalityType
<1>3. fdTable[g] \in FD /\ fdTable[g].ref \in Nat
    BY DEF CountInv, FdTypeOK, FD
<1>4. fdTable[g].ref >= Cardinality(Using(g)) + Cardinality(Listing(g))
    BY DEF CountInv, Counts
<1>5. fdTable[g].ref = 0 => Cardinality(Using(g)) = 0 /\ Cardinality(Listing(g)) = 0
    BY <1>2, <1>3, <1>4
<1> QED BY <1>1, <1>2, <1>3, <1>4, <1>5, FS_EmptySet

(* One reference more.                                                     *)
LEMMA OneMore ==
    ASSUME NEW S, IsFiniteSet(S), NEW x, x \notin S
    PROVE  Cardinality(S \cup {x}) = Cardinality(S) + 1
BY FS_AddElement

(* One reference less.                                                     *)
LEMMA OneLess ==
    ASSUME NEW S, IsFiniteSet(S), NEW x \in S
    PROVE  Cardinality(S \ {x}) = Cardinality(S) - 1 /\ Cardinality(S) \in Nat
           /\ Cardinality(S) > 0
<1>1. Cardinality(S \ {x}) = Cardinality(S) - 1 /\ Cardinality(S) \in Nat /\ S # {}
    BY FS_RemoveElement, FS_CardinalityType
<1>2. Cardinality(S) # 0
    BY <1>1, FS_EmptySet
<1> QED BY <1>1, <1>2

(* openPipe takes two entries that were free.                              *)
LEMMA OpenFacts ==
    ASSUME CountInv, NEW x \in Pipes, openPipe(x)
    PROVE  LET r == ReadEntry
               w == WriteEntry
           IN  /\ r \in Globals /\ w \in Globals /\ r # w
               /\ fdTable[r].ref = 0 /\ fdTable[w].ref = 0
               /\ fdTable' \in [Globals -> FD]
               /\ fdTable'[r].ref = 1 /\ fdTable'[r].type = "READ" /\ fdTable'[r].pipe = x
               /\ fdTable'[w].ref = 1 /\ fdTable'[w].type = "WRITE" /\ fdTable'[w].pipe = x
               /\ \A g \in Globals : g # r /\ g # w => fdTable'[g] = fdTable[g]
<1> DEFINE S == FreeEntries(fdTable)
           r == Lowest(S)
           w == Lowest(S \ {r})
           c == [ref |-> 1, type |-> "READ", pipe |-> x]
           d == [ref |-> 1, type |-> "WRITE", pipe |-> x]
           table == [fdTable EXCEPT ![r] = c]
<1>1. /\ S \in SUBSET Globals /\ S \in SUBSET Nat /\ IsFiniteSet(S) /\ Cardinality(S) >= 2
    <2>1. S \in SUBSET Globals
        BY DEF FreeEntries
    <2> QED BY <2>1, SlotFacts, FS_Subset DEF openPipe
<1>2. S # {} /\ S \ {r} # {}
    <2> HIDE DEF S
    <2>1. \A y : S # {y}
        BY <1>1, FS_Singleton
    <2>2. S # {}
        BY <1>1, FS_EmptySet
    <2> HIDE DEF r
    <2> QED BY <2>1, <2>2
<1>3. r \in S /\ w \in S /\ w # r
    <2> HIDE DEF S
    <2>1. r \in S
        BY <1>1, <1>2, LowestIn
    <2>2. S \ {r} \in SUBSET Nat
        BY <1>1
    <2>3. w \in S \ {r}
        BY <1>2, <2>2, LowestIn
    <2> QED BY <2>1, <2>3
<1>4. r = ReadEntry /\ w = WriteEntry
    BY DEF ReadEntry, WriteEntry
<1>5. /\ fdTable \in [Globals -> FD] /\ c \in FD /\ d \in FD /\ c.ref = 1 /\ c.ref # 0
    BY DEF CountInv, FdTypeOK, FD, Types
<1> HIDE DEF r, w, c, d
<1>6. /\ r \in Globals /\ w \in Globals /\ fdTable[r].ref = 0 /\ fdTable[w].ref = 0
    BY <1>3 DEF FreeEntries
<1>7. FreeEntries(table) = S \ {r}
    BY <1>5, <1>6 DEF FreeEntries
<1>8. fdTable' = [table EXCEPT ![w] = d]
    BY <1>7 DEF openPipe, initFd, c, d, r, w
<1> HIDE DEF S
<1>9. fdTable' \in [Globals -> FD] /\ fdTable'[r] = c /\ fdTable'[w] = d
      /\ \A g \in Globals : g # r /\ g # w => fdTable'[g] = fdTable[g]
    BY <1>3, <1>5, <1>6, <1>8
<1> QED BY <1>3, <1>4, <1>6, <1>9 DEF c, d

(* addFd: a process gets the slots S, and refers to them.                  *)
LEMMA RefAdded ==
    ASSUME CountInv, NEW p \in live, NEW S \in SUBSET Slots, addFd(p, S), live' = live
    PROVE  /\ fd' \in [Pids -> [Slots -> Slots \cup {None}]] /\ Named' /\ p \in Pids
           /\ \A g \in Globals : Using(g)' = IF g \in S THEN Using(g) \cup {p} ELSE Using(g)
<1> DEFINE s == [i \in Slots |-> IF i \in S THEN i ELSE fd[p][i]]
<1>1. /\ p \in Pids /\ fd \in [Pids -> [Slots -> Slots \cup {None}]] /\ Named
    BY DEF CountInv, FdTypeOK
<1>2. fd' = [fd EXCEPT ![p] = s]
    BY <1>1 DEF addFd
<1>3. s \in [Slots -> Slots \cup {None}] /\ \A i \in Slots : s[i] = IF i \in S THEN i ELSE fd[p][i]
    BY <1>1
<1> HIDE DEF s
<1>4. /\ fd' \in [Pids -> [Slots -> Slots \cup {None}]]
      /\ fd'[p] = s /\ \A q \in Pids : q # p => fd'[q] = fd[q]
    BY <1>1, <1>2, <1>3
<1>5. Named'
    BY <1>1, <1>3, <1>4 DEF Named
<1>6. ASSUME NEW g \in Globals
      PROVE  Using(g)' = IF g \in S THEN Using(g) \cup {p} ELSE Using(g)
    <2>1. g \in Slots
        BY SlotFacts
    <2>2. \A q \in live : q \in Pids
        BY DEF CountInv, FdTypeOK
    <2>3. Using(g)' = {q \in live : fd'[q][g] = g}
        BY DEF Using
    <2> QED BY <1>3, <1>4, <2>1, <2>2, <2>3 DEF Using
<1> QED BY <1>1, <1>4, <1>5, <1>6

(* The references to g did not change.                                     *)
LEMMA CountsSame ==
    ASSUME NEW g \in Globals, Counts(g), fdTable'[g].ref = fdTable[g].ref,
           Using(g)' = Using(g), Listing(g)' = Listing(g), leaks' = {} => leaks = {}
    PROVE  Counts(g)'
BY DEF Counts

(* A pipe for a process, or for a FIFO: both ends have one reference.      *)
LEMMA OpenPipeCounts ==
    ASSUME CountInv, NEW p \in Pids, sys_openPipe(p)
    PROVE  CountInv'
<1> DEFINE r == ReadEntry
           w == WriteEntry
<1>1. /\ p \in live /\ live' = live /\ fifoTable' = fifoTable /\ leaks' = leaks
      /\ addFd(p, {r, w})
    BY DEF sys_openPipe
<1>2. PICK x \in Pipes : openPipe(x)
    BY DEF sys_openPipe
<1>3. /\ r \in Globals /\ w \in Globals /\ r # w /\ fdTable[r].ref = 0 /\ fdTable[w].ref = 0
      /\ fdTable' \in [Globals -> FD] /\ fdTable'[r].ref = 1 /\ fdTable'[w].ref = 1
      /\ \A g \in Globals : g # r /\ g # w => fdTable'[g] = fdTable[g]
    BY <1>2, OpenFacts
<1> HIDE DEF r, w
<1>4. {r, w} \in SUBSET Slots
    BY <1>3, SlotFacts
<1>5. /\ fd' \in [Pids -> [Slots -> Slots \cup {None}]] /\ Named'
      /\ \A g \in Globals :
            Using(g)' = IF g \in {r, w} THEN Using(g) \cup {p} ELSE Using(g)
    BY <1>1, <1>4, RefAdded
<1>6. FdTypeOK'
    <2>1. pipe' \in [Pipes -> Pipe]
        BY <1>2 DEF openPipe, CountInv, FdTypeOK, Pipe
    <2> QED BY <1>1, <1>3, <1>5, <2>1 DEF CountInv, FdTypeOK
<1>7. ASSUME NEW g \in Globals
      PROVE  Counts(g)'
    <2>1. Listing(g)' = Listing(g)
        BY <1>1 DEF Listing
    <2>2. CASE g # r /\ g # w
        BY <1>1, <1>3, <1>5, <2>1, <2>2, CountsSame DEF CountInv
    <2>3. CASE g = r \/ g = w
        <3>1. Using(g) = {} /\ Listing(g) = {} /\ fdTable'[g].ref = 1
            BY <1>3, <2>3, CountFacts
        <3>2. Using(g)' = {p} /\ Listing(g)' = {}
            BY <1>5, <2>1, <2>3, <3>1
        <3>3. Cardinality({p}) = 1 /\ Cardinality({}) = 0
            BY FS_Singleton, FS_EmptySet
        <3> QED BY <3>1, <3>2, <3>3 DEF Counts
    <2> QED BY <2>2, <2>3
<1>8. Unlisted'
    BY <1>1 DEF CountInv, Unlisted
<1> QED BY <1>1, <1>5, <1>6, <1>7, <1>8 DEF CountInv

(* mkFifo: the kernel holds both ends under an entry that was free.        *)
LEMMA MkFifoCounts ==
    ASSUME CountInv, NEW id \in FifoIds, sys_mkFifo(id)
    PROVE  CountInv'
<1> DEFINE r == ReadEntry
           w == WriteEntry
           unused == {n \in Entries : fifoTable[n].id = 0}
           n == Lowest(unused)
           d == [id |-> id, readfd |-> r, writefd |-> w]
<1>1. /\ live' = live /\ fd' = fd /\ leaks' = leaks /\ fifoTable' = [fifoTable EXCEPT ![n] = d]
      /\ unused # {}
    BY DEF sys_mkFifo
<1>2. PICK x \in Pipes : openPipe(x)
    BY DEF sys_mkFifo
<1>3. /\ r \in Globals /\ w \in Globals /\ r # w /\ fdTable[r].ref = 0 /\ fdTable[w].ref = 0
      /\ fdTable' \in [Globals -> FD] /\ fdTable'[r].ref = 1 /\ fdTable'[w].ref = 1
      /\ \A g \in Globals : g # r /\ g # w => fdTable'[g] = fdTable[g]
    BY <1>2, OpenFacts
<1>4. n \in Entries /\ fifoTable[n] = NoFifo
    <2>1. unused \in SUBSET Nat /\ unused \in SUBSET Entries
        BY DEF Entries
    <2> HIDE DEF unused
    <2>2. n \in unused
        BY <1>1, <2>1, LowestIn
    <2> QED BY <2>1, <2>2 DEF unused, CountInv, Unlisted
<1> HIDE DEF r, w, n
<1>5. /\ fifoTable' \in [Entries -> [id : FifoIds \cup {0}, readfd : Slots, writefd : Slots]]
      /\ fifoTable'[n] = d /\ \A i \in Entries : i # n => fifoTable'[i] = fifoTable[i]
    <2>1. d \in [id : FifoIds \cup {0}, readfd : Slots, writefd : Slots]
        BY <1>3, SlotFacts
    <2> QED BY <1>1, <1>4, <2>1 DEF CountInv, FdTypeOK
<1>6. FdTypeOK'
    <2>1. pipe' \in [Pipes -> Pipe]
        BY <1>2 DEF openPipe, CountInv, FdTypeOK, Pipe
    <2> QED BY <1>1, <1>3, <1>5, <2>1 DEF CountInv, FdTypeOK
<1>7. ASSUME NEW g \in Globals
      PROVE  Counts(g)'
    <2>1. Using(g)' = Using(g)
        BY <1>1 DEF Using
    <2>2. Listing(g)' = {i \in Entries : g \in {fifoTable'[i].readfd, fifoTable'[i].writefd}}
        BY DEF Listing
    <2>3. CASE g # r /\ g # w
        <3>1. n \notin Listing(g)
            BY <1>4, SlotFacts DEF Listing, NoFifo
        <3>2. Listing(g)' = Listing(g)
            BY <1>4, <1>5, <2>2, <2>3, <3>1 DEF Listing
        <3> QED BY <1>1, <1>3, <2>1, <2>3, <3>2, CountsSame DEF CountInv
    <2>4. CASE g = r \/ g = w
        <3>1. Using(g) = {} /\ Listing(g) = {} /\ fdTable'[g].ref = 1
            BY <1>3, <2>4, CountFacts
        <3>2. Listing(g)' = {n}
            BY <1>4, <1>5, <2>2, <2>4, <3>1 DEF Listing
        <3>3. Cardinality({n}) = 1 /\ Cardinality({}) = 0
            BY FS_Singleton, FS_EmptySet
        <3> QED BY <2>1, <3>1, <3>2, <3>3 DEF Counts
    <2> QED BY <2>3, <2>4
<1>8. Named' /\ Unlisted'
    <2>1. id # 0
        BY DescriptorsAssumption
    <2> QED BY <1>1, <1>5, <2>1 DEF CountInv, Named, Unlisted
<1> QED BY <1>1, <1>6, <1>7, <1>8 DEF CountInv

(* A half-opened pipe leaves a reference that nobody holds.                *)
LEMMA OpenPipeFailsCounts ==
    ASSUME CountInv, sys_openPipeFails
    PROVE  CountInv'
<1> DEFINE S == FreeEntries(fdTable)
           r == Lowest(S)
<1>1. PICK x \in Pipes : openPipeHalf(x)
    BY DEF sys_openPipeFails
<1> DEFINE c == [ref |-> 1, type |-> "READ", pipe |-> x]
<1>2. /\ live' = live /\ fd' = fd /\ fifoTable' = fifoTable /\ leaks' = leaks \cup {"half"}
      /\ pipe' = pipe /\ fdTable' = [fdTable EXCEPT ![r] = c] /\ Cardinality(S) = 1
    BY <1>1 DEF sys_openPipeFails, openPipeHalf, initFd
<1>3. r \in Globals /\ fdTable[r].ref = 0
    <2>1. S \in SUBSET Globals /\ \A g \in S : fdTable[g].ref = 0
        BY DEF FreeEntries
    <2> HIDE DEF S
    <2>2. S \in SUBSET Nat /\ S # {}
        BY <1>2, <2>1, SlotFacts, FS_EmptySet
    <2>3. r \in S
        BY <2>2, LowestIn
    <2> QED BY <2>1, <2>3
<1>4. c \in FD /\ c.ref = 1
    BY DEF FD, Types
<1> HIDE DEF S, r, c
<1>5. /\ fdTable' \in [Globals -> FD] /\ fdTable'[r].ref = 1
      /\ \A g \in Globals : g # r => fdTable'[g] = fdTable[g]
    BY <1>2, <1>3, <1>4 DEF CountInv, FdTypeOK
<1>6. FdTypeOK' /\ Named' /\ Unlisted' /\ leaks' # {}
    BY <1>2, <1>5 DEF CountInv, FdTypeOK, Named, Unlisted
<1>7. ASSUME NEW g \in Globals
      PROVE  Counts(g)'
    <2>1. Using(g)' = Using(g) /\ Listing(g)' = Listing(g) /\ Counts(g)
        BY <1>2 DEF Using, Listing, CountInv
    <2>2. CASE g # r
        BY <1>5, <1>6, <2>1, <2>2, CountsSame
    <2>3. CASE g = r
        <3>1. Using(g) = {} /\ Listing(g) = {}
            BY <1>3, <2>3, CountFacts
        <3>2. Cardinality({}) = 0
            BY FS_EmptySet
        <3> QED BY <1>5, <1>6, <2>1, <2>3, <3>1, <3>2 DEF Counts
    <2> QED BY <2>2, <2>3
<1> QED BY <1>2, <1>6, <1>7 DEF CountInv

(* closePipe on one pipe.                                                  *)
LEMMA ClosePipeFacts ==
    ASSUME NEW s \in [Pipes -> Pipe], NEW x \in Pipes, NEW type \in Types
    PROVE  LET ends == closePipe(s, x, type)
           IN  /\ ends \in [Pipes -> Pipe] /\ \A y \in Pipes : y # x => ends[y] = s[y]
               /\ ends[x].readOpen = (s[x].readOpen /\ type # "READ")
               /\ ends[x].writeOpen = (s[x].writeOpen /\ type # "WRITE")
               /\ ends[x].allocated = (ends[x].readOpen \/ ends[x].writeOpen)
<1> DEFINE r == s[x].readOpen /\ type # "READ"
           w == s[x].writeOpen /\ type # "WRITE"
           a == r \/ w
           c == [[[s[x] EXCEPT !.readOpen = r] EXCEPT !.writeOpen = w] EXCEPT !.allocated = a]
<1>1. s[x] \in Pipe /\ r \in BOOLEAN /\ w \in BOOLEAN /\ a \in BOOLEAN
    BY DEF Pipe
<1>2. closePipe(s, x, type) =
            [s EXCEPT ![x].readOpen = r, ![x].writeOpen = w, ![x].allocated = a]
    BY DEF closePipe
<1> HIDE DEF r, w, a
<1>3. closePipe(s, x, type) = [s EXCEPT ![x] = c]
    BY <1>1, <1>2
<1>4. c \in Pipe /\ c.readOpen = r /\ c.writeOpen = w /\ c.allocated = a
    BY <1>1 DEF Pipe
<1> HIDE DEF c
<1> QED BY <1>3, <1>4 DEF r, w, a

(* Giving up references.                                                   *)
LEMMA CloseFacts ==
    ASSUME CountInv, NEW drop \in [Globals -> Nat], closeFds(drop)
    PROVE  /\ fdTable' \in [Globals -> FD] /\ pipe' \in [Pipes -> Pipe]
           /\ \A g \in Globals :
                /\ fdTable'[g].ref = IF drop[g] >= fdTable[g].ref THEN 0
                                     ELSE fdTable[g].ref - drop[g]
                /\ fdTable'[g].type = fdTable[g].type
                /\ fdTable'[g].ref > 0 => fdTable'[g].pipe = fdTable[g].pipe
<1>1. ASSUME NEW g \in Globals
      PROVE  /\ Released(fdTable, drop[g], g) \in FD
             /\ Released(fdTable, drop[g], g).ref = IF drop[g] >= fdTable[g].ref THEN 0
                                                    ELSE fdTable[g].ref - drop[g]
             /\ Released(fdTable, drop[g], g).type = fdTable[g].type
             /\ Released(fdTable, drop[g], g).ref > 0
                    => Released(fdTable, drop[g], g).pipe = fdTable[g].pipe
    <2> DEFINE left == IF drop[g] >= fdTable[g].ref THEN 0 ELSE fdTable[g].ref - drop[g]
    <2> DEFINE c == fdTable[g]
               z == IF left = 0 THEN NoPipe ELSE c.pipe
    <2>1. c \in FD /\ left \in Nat
        BY CountFacts
    <2>2. Released(fdTable, drop[g], g) =
            [c EXCEPT !.ref = left, !.pipe = z]
        BY <2>1 DEF Released, FD
    <2> HIDE DEF left, c
    <2>3. z \in Pipes \cup {NoPipe} /\ (left > 0 => z = c.pipe)
        BY <2>1 DEF FD
    <2> HIDE DEF z
    <2>4. /\ Released(fdTable, drop[g], g) \in FD
          /\ Released(fdTable, drop[g], g).ref = left
          /\ Released(fdTable, drop[g], g).type = fdTable[g].type
          /\ left > 0 => Released(fdTable, drop[g], g).pipe = fdTable[g].pipe
        BY <2>1, <2>2, <2>3 DEF FD, c
    <2> QED BY <2>4 DEF left
<1>2. fdTable' = [g \in Globals |-> Released(fdTable, drop[g], g)]
    BY DEF closeFds, ClosedTable
<1>3. pipe' \in [Pipes -> Pipe]
    <2>1. pipe \in [Pipes -> Pipe] /\ "READ" \in Types /\ "WRITE" \in Types
        BY DEF CountInv, FdTypeOK, Types
    <2>2. ASSUME NEW x \in Pipes
          PROVE  ClosedPipes(fdTable, pipe, drop)[x] \in Pipe
        <3> DEFINE a == IF Closing(fdTable, drop, x, "READ") THEN closePipe(pipe, x, "READ") ELSE pipe
                   b == IF Closing(fdTable, drop, x, "WRITE") THEN closePipe(a, x, "WRITE") ELSE a
        <3>1. a \in [Pipes -> Pipe]
            BY <2>1, ClosePipeFacts
        <3> HIDE DEF a
        <3>2. b \in [Pipes -> Pipe]
            BY <2>1, <3>1, ClosePipeFacts
        <3>3. ClosedPipes(fdTable, pipe, drop)[x] = b[x]
            BY DEF ClosedPipes, a
        <3> HIDE DEF b
        <3> QED BY <3>2, <3>3
    <2>3. pipe' = ClosedPipes(fdTable, pipe, drop)
        BY DEF closeFds
    <2>4. pipe' = [x \in Pipes |-> ClosedPipes(fdTable, pipe, drop)[x]]
        BY <2>3 DEF ClosedPipes
    <2> QED BY <2>2, <2>4
<1> QED BY <1>1, <1>2, <1>3

(* One reference is given up where there was one: the count follows.       *)
LEMMA CountsDown ==
    ASSUME CountInv, NEW g \in Globals, leaks' = leaks,
           fdTable'[g].ref = IF 1 >= fdTable[g].ref THEN 0 ELSE fdTable[g].ref - 1,
           \/ \E p \in Using(g) : Using(g)' = Using(g) \ {p} /\ Listing(g)' = Listing(g)
           \/ \E n \in Listing(g) : Using(g)' = Using(g) /\ Listing(g)' = Listing(g) \ {n}
    PROVE  Counts(g)'
<1> DEFINE u == Cardinality(Using(g))
           l == Cardinality(Listing(g))
           c == fdTable[g].ref
<1>1. /\ IsFiniteSet(Using(g)) /\ IsFiniteSet(Listing(g)) /\ u \in Nat /\ l \in Nat /\ c \in Nat
      /\ c >= u + l /\ Counts(g)
    BY CountFacts DEF CountInv
<1>2. \/ Cardinality(Using(g)') = u - 1 /\ u > 0 /\ Cardinality(Listing(g)') = l
      \/ Cardinality(Using(g)') = u /\ l > 0 /\ Cardinality(Listing(g)') = l - 1
    BY <1>1, OneLess
<1>3. leaks = {} => c = u + l
    BY <1>1 DEF Counts
<1> HIDE DEF u, l, c
<1>4. fdTable'[g].ref = c - 1 /\ c > 0
    BY <1>1, <1>2 DEF c
<1>5. /\ c - 1 >= Cardinality(Using(g)') + Cardinality(Listing(g)')
      /\ leaks = {} => c - 1 = Cardinality(Using(g)') + Cardinality(Listing(g)')
    BY <1>1, <1>2, <1>3
<1> QED BY <1>4, <1>5 DEF Counts

(* sys_close of a slot from 3 on.                                          *)
LEMMA CloseCounts ==
    ASSUME CountInv, NEW p \in Pids, NEW i \in Slots, sys_close(p, i)
    PROVE  CountInv'
<1> DEFINE drop == Once({fd[p][i]})
<1>1. /\ p \in live /\ i \in Globals /\ fd[p][i] \in Globals /\ fd[p][i] = i
      /\ closeFds(drop) /\ live' = live /\ fifoTable' = fifoTable /\ leaks' = leaks
      /\ fd' = [fd EXCEPT ![p][fd[p][i]] = None]
      /\ fd \in [Pids -> [Slots -> Slots \cup {None}]]
    <2>1. /\ p \in live /\ i \in Globals /\ fd[p][i] \in Globals /\ closeFds(drop)
          /\ live' = live /\ fifoTable' = fifoTable /\ leaks' = leaks
          /\ fd' = [fd EXCEPT ![p][fd[p][i]] = None]
        BY DEF sys_close, Counted
    <2>2. fd[p][i] \in {i, None} /\ fd \in [Pids -> [Slots -> Slots \cup {None}]]
        BY <2>1, SlotFacts DEF CountInv, Named, FdTypeOK
    <2>3. None \notin Globals
        BY SlotFacts DEF None
    <2> QED BY <2>1, <2>2, <2>3
<1>2. drop \in [Globals -> Nat] /\ \A g \in Globals : drop[g] = IF g = i THEN 1 ELSE 0
    BY <1>1 DEF Once
<1> HIDE DEF drop
<1>3. /\ fdTable' \in [Globals -> FD] /\ pipe' \in [Pipes -> Pipe]
      /\ \A g \in Globals : fdTable'[g].ref = IF drop[g] >= fdTable[g].ref THEN 0
                                              ELSE fdTable[g].ref - drop[g]
    BY <1>1, <1>2, CloseFacts
<1>4. /\ fd' \in [Pids -> [Slots -> Slots \cup {None}]]
      /\ \A q \in Pids : \A j \in Slots : fd'[q][j] = IF q = p /\ j = i THEN None ELSE fd[q][j]
    BY <1>1
<1>5. FdTypeOK' /\ Named' /\ Unlisted'
    BY <1>1, <1>3, <1>4 DEF CountInv, FdTypeOK, Named, Unlisted
<1>6. ASSUME NEW g \in Globals
      PROVE  Counts(g)'
    <2>1. Listing(g)' = Listing(g) /\ Counts(g) /\ g \in Slots /\ \A q \in live : q \in Pids
        BY <1>1, SlotFacts DEF Listing, CountInv, FdTypeOK
    <2>2. Using(g)' = {q \in live : fd'[q][g] = g}
        BY <1>1 DEF Using
    <2>3. CASE g # i
        <3>1. Using(g)' = Using(g)
            BY <1>4, <2>1, <2>2, <2>3 DEF Using
        <3>2. fdTable'[g].ref = fdTable[g].ref
            BY <1>2, <1>3, <2>3, CountFacts
        <3> QED BY <1>1, <2>1, <3>1, <3>2, CountsSame
    <2>4. CASE g = i
        <3>1. Using(g)' = Using(g) \ {p} /\ p \in Using(g)
            BY <1>1, <1>4, <2>1, <2>2, <2>4, SlotFacts DEF Using
        <3> QED BY <1>1, <1>2, <1>3, <2>1, <2>4, <3>1, CountsDown
    <2> QED BY <2>3, <2>4
<1> QED BY <1>1, <1>5, <1>6 DEF CountInv

(* Fifo picks an entry that has the id.                                    *)
LEMMA FifoFacts ==
    ASSUME CountInv, NEW id \in FifoIds, HasFifo(id)
    PROVE  /\ Fifo(id) \in Entries /\ fifoTable[Fifo(id)].id = id /\ id # 0
           /\ fifoTable[Fifo(id)].readfd \in Slots /\ fifoTable[Fifo(id)].writefd \in Slots
<1>1. Fifo(id) \in Entries /\ fifoTable[Fifo(id)].id = id
    BY DEF HasFifo, Fifo
<1>2. id # 0
    BY DescriptorsAssumption
<1> HIDE DEF Fifo
<1> QED BY <1>1, <1>2 DEF CountInv, FdTypeOK

(* rmFifo: the kernel gives up both ends.                                  *)
LEMMA RmFifoCounts ==
    ASSUME CountInv, NEW id \in FifoIds, sys_rmFifo(id)
    PROVE  CountInv'
<1> DEFINE n == Fifo(id)
           r == fifoTable[n].readfd
           w == fifoTable[n].writefd
           drop == Once({r, w})
<1>1. /\ HasFifo(id) /\ closeFds(drop) /\ live' = live /\ fd' = fd /\ leaks' = leaks
      /\ fifoTable' = [fifoTable EXCEPT ![n] = NoFifo]
    BY DEF sys_rmFifo
<1>2. n \in Entries /\ r \in Slots /\ w \in Slots
    BY <1>1, FifoFacts
<1>3. drop \in [Globals -> Nat] /\ \A g \in Globals : drop[g] = IF g \in {r, w} THEN 1 ELSE 0
    BY DEF Once
<1> HIDE DEF drop, n
<1>4. /\ fdTable' \in [Globals -> FD] /\ pipe' \in [Pipes -> Pipe]
      /\ \A g \in Globals : fdTable'[g].ref = IF drop[g] >= fdTable[g].ref THEN 0
                                              ELSE fdTable[g].ref - drop[g]
    BY <1>1, <1>3, CloseFacts
<1>5. /\ fifoTable' \in [Entries -> [id : FifoIds \cup {0}, readfd : Slots, writefd : Slots]]
      /\ fifoTable'[n] = NoFifo /\ \A i \in Entries : i # n => fifoTable'[i] = fifoTable[i]
      /\ NoFifo.readfd = 0 /\ NoFifo.writefd = 0
    <2>1. NoFifo \in [id : FifoIds \cup {0}, readfd : Slots, writefd : Slots]
        BY SlotFacts DEF NoFifo
    <2>2. NoFifo.readfd = 0 /\ NoFifo.writefd = 0
        BY DEF NoFifo
    <2> QED BY <1>1, <1>2, <2>1, <2>2 DEF CountInv, FdTypeOK
<1>6. FdTypeOK' /\ Named' /\ Unlisted'
    BY <1>1, <1>4, <1>5 DEF CountInv, FdTypeOK, Named, Unlisted
<1>7. ASSUME NEW g \in Globals
      PROVE  Counts(g)'
    <2>1. Using(g)' = Using(g) /\ Counts(g) /\ g # 0
        BY <1>1, SlotFacts DEF Using, CountInv
    <2>2. Listing(g)' = {i \in Entries : g \in {fifoTable'[i].readfd, fifoTable'[i].writefd}}
        BY DEF Listing
    <2>3. CASE g \notin {r, w}
        <3>1. Listing(g)' = Listing(g)
            BY <1>2, <1>5, <2>1, <2>2, <2>3 DEF Listing
        <3>2. fdTable'[g].ref = fdTable[g].ref
            BY <1>3, <1>4, <2>3, CountFacts
        <3> QED BY <1>1, <2>1, <3>1, <3>2, CountsSame
    <2>4. CASE g \in {r, w}
        <3>1. Listing(g)' = Listing(g) \ {n} /\ n \in Listing(g)
            BY <1>2, <1>5, <2>1, <2>2, <2>4 DEF Listing
        <3>2. fdTable'[g].ref = IF 1 >= fdTable[g].ref THEN 0 ELSE fdTable[g].ref - 1
            BY <1>3, <1>4, <2>4
        <3> QED BY <1>1, <2>1, <3>1, <3>2, CountsDown
    <2> QED BY <2>3, <2>4
<1> QED BY <1>1, <1>6, <1>7 DEF CountInv

(* openFifo: one reference more.  A process that has the end already holds *)
(* it once, as before.                                                     *)
LEMMA OpenFifoCounts ==
    ASSUME CountInv, NEW p \in Pids, NEW id \in FifoIds, NEW type \in Types,
           sys_openFifo(p, id, type)
    PROVE  CountInv'
<1> DEFINE n == Fifo(id)
           h == IF type = "READ" THEN fifoTable[n].readfd ELSE fifoTable[n].writefd
<1>1. /\ p \in live /\ HasFifo(id) /\ fdTable' = fdDup(fdTable, h) /\ addFd(p, {h})
      /\ leaks' = IF fd[p][h] = None THEN leaks ELSE leaks \cup {"refs"}
      /\ live' = live /\ pipe' = pipe /\ fifoTable' = fifoTable
    BY DEF sys_openFifo
<1>2. n \in Entries /\ h \in Slots /\ h \in {fifoTable[n].readfd, fifoTable[n].writefd}
    BY <1>1, FifoFacts
<1> HIDE DEF h, n
<1>3. /\ fd' \in [Pids -> [Slots -> Slots \cup {None}]] /\ Named'
      /\ \A g \in Globals : Using(g)' = IF g \in {h} THEN Using(g) \cup {p} ELSE Using(g)
    BY <1>1, <1>2, RefAdded
<1>4. h \in Globals => fdTable[h].ref > 0
    <2> SUFFICES ASSUME h \in Globals
                 PROVE  fdTable[h].ref > 0
        OBVIOUS
    <2>1. n \in Listing(h)
        BY <1>2 DEF Listing
    <2> QED BY <2>1, CountFacts
<1>5. /\ fdTable' \in [Globals -> FD]
      /\ \A g \in Globals : fdTable'[g].ref = IF g = h THEN fdTable[g].ref + 1 ELSE fdTable[g].ref
    <2>1. fdTable \in [Globals -> FD]
        BY DEF CountInv, FdTypeOK
    <2>2. CASE h \notin Globals
        BY <1>1, <2>1, <2>2 DEF fdDup, Counted
    <2>3. CASE h \in Globals
        <3>1. fdTable' = [fdTable EXCEPT ![h].ref = @ + 1]
            BY <1>1, <1>4, <2>3 DEF fdDup, Counted
        <3>2. fdTable[h] \in FD /\ fdTable[h].ref + 1 \in Nat
            BY <2>3, CountFacts
        <3> DEFINE m == fdTable[h].ref + 1
                   d == [fdTable[h] EXCEPT !.ref = m]
        <3>3. fdTable' = [fdTable EXCEPT ![h] = d]
            BY <3>1
        <3> HIDE DEF m
        <3>4. d \in FD /\ d.ref = m
            BY <3>2 DEF FD, m
        <3> HIDE DEF d
        <3> QED BY <2>1, <2>3, <3>3, <3>4 DEF m
    <2> QED BY <2>2, <2>3
<1>6. FdTypeOK' /\ Unlisted'
    BY <1>1, <1>3, <1>5 DEF CountInv, FdTypeOK, Unlisted
<1>7. ASSUME NEW g \in Globals
      PROVE  Counts(g)'
    <2>1. Listing(g)' = Listing(g) /\ Counts(g) /\ (leaks' = {} => leaks = {})
        BY <1>1 DEF Listing, CountInv
    <2>2. CASE g # h
        BY <1>3, <1>5, <2>1, <2>2, CountsSame
    <2>3. CASE g = h
        <3> DEFINE u == Cardinality(Using(g))
                   l == Cardinality(Listing(g))
        <3>1. /\ IsFiniteSet(Using(g)) /\ u \in Nat /\ l \in Nat /\ fdTable[g].ref \in Nat
              /\ fdTable[g].ref >= u + l
            BY CountFacts
        <3>2. Cardinality(Using(g)') = IF p \in Using(g) THEN u ELSE u + 1
            BY <1>3, <2>3, <3>1, FS_AddElement
        <3>3. p \in Using(g) => leaks' # {}
            BY <1>1, <2>3, SlotFacts DEF Using
        <3>4. leaks = {} => fdTable[g].ref = u + l
            BY <2>1 DEF Counts
        <3>5. fdTable'[g].ref = fdTable[g].ref + 1 /\ Cardinality(Listing(g)') = l
            BY <1>5, <2>1, <2>3
        <3> HIDE DEF u, l
        <3>6. /\ fdTable'[g].ref >= Cardinality(Using(g)') + Cardinality(Listing(g)')
              /\ leaks' = {} => fdTable'[g].ref = Cardinality(Using(g)') + Cardinality(Listing(g)')
            BY <2>1, <3>1, <3>2, <3>3, <3>4, <3>5
        <3> QED BY <3>6 DEF Counts
    <2> QED BY <2>2, <2>3
<1> QED BY <1>1, <1>3, <1>6, <1>7 DEF CountInv

(* mapStdFds changes slots 0 and 1 only, which are not counted.            *)
LEMMA MapCounts ==
    ASSUME CountInv, NEW p \in Pids, NEW stdin \in Slots, NEW stdout \in Slots,
           mapStdFds(p, stdin, stdout)
    PROVE  CountInv'
<1> DEFINE s == [i \in Slots |-> CASE i = STDIN -> stdin [] i = STDOUT -> stdout
                                   [] OTHER -> fd[p][i]]
<1>1. /\ live' = live /\ fdTable' = fdTable /\ pipe' = pipe /\ fifoTable' = fifoTable
      /\ leaks' = leaks /\ fd' = [fd EXCEPT ![p] = s] /\ p \in live
      /\ fd \in [Pids -> [Slots -> Slots \cup {None}]]
    BY DEF mapStdFds, CountInv, FdTypeOK
<1>2. /\ s \in [Slots -> Slots \cup {None}] /\ \A i \in Slots : i >= 2 => s[i] = fd[p][i]
    BY <1>1, SlotFacts
<1> HIDE DEF s
<1>3. /\ fd' \in [Pids -> [Slots -> Slots \cup {None}]]
      /\ \A q \in Pids : \A i \in Slots : i >= 2 => fd'[q][i] = fd[q][i]
    BY <1>1, <1>2
<1>4. FdTypeOK' /\ Named' /\ Unlisted'
    BY <1>1, <1>3 DEF CountInv, FdTypeOK, Named, Unlisted
<1>5. ASSUME NEW g \in Globals
      PROVE  Counts(g)'
    <2>1. Listing(g)' = Listing(g) /\ Counts(g)
        BY <1>1 DEF Listing, CountInv
    <2>2. g \in Slots /\ g >= 2 /\ \A q \in live : q \in Pids
        BY SlotFacts DEF CountInv, FdTypeOK
    <2>3. Using(g)' = {q \in live : fd'[q][g] = g}
        BY <1>1 DEF Using
    <2>4. Using(g)' = Using(g)
        BY <1>3, <2>2, <2>3 DEF Using
    <2> QED BY <1>1, <2>1, <2>4, CountsSame
<1> QED BY <1>1, <1>4, <1>5 DEF CountInv

(* processCreate: a child takes a reference to everything its creator has, *)
(* and a creation that fails leaves them counted.                          *)
LEMMA CreateCounts ==
    ASSUME CountInv, NEW p \in Pids, NEW q \in Pids, NEW allocated \in BOOLEAN,
           sys_createprocess(p, q, allocated)
    PROVE  CountInv'
<1> DEFINE same(g) == {i \in Slots : fd[p][i] = g}
<1>1. /\ p \in live /\ q \notin live /\ pipe' = pipe /\ fifoTable' = fifoTable
      /\ leaks' = IF allocated /\ ~Mapped(p) THEN leaks ELSE leaks \cup {"refs"}
      /\ fdTable' = forkfd(fdTable, fd[p])
      /\ live' = IF allocated THEN live \cup {q} ELSE live
      /\ fd' = IF allocated THEN [fd EXCEPT ![q] = fd[p]] ELSE fd
      /\ fd \in [Pids -> [Slots -> Slots \cup {None}]] /\ Named /\ live \subseteq Pids
    BY DEF sys_createprocess, CountInv, FdTypeOK
<1>2. /\ fd' \in [Pids -> [Slots -> Slots \cup {None}]] /\ Named' /\ IsFiniteSet(live')
      /\ live' \subseteq Pids
      /\ allocated => fd'[q] = fd[p] /\ \A x \in Pids : x # q => fd'[x] = fd[x]
    <2>1. IsFiniteSet(live \cup {q})
        BY FS_AddElement DEF CountInv
    <2> QED BY <1>1, <2>1 DEF CountInv, Named
<1>3. ASSUME NEW g \in Globals
      PROVE  IsFiniteSet(same(g)) /\ Cardinality(same(g)) \in Nat
    <2>1. same(g) \in SUBSET Slots
        OBVIOUS
    <2> HIDE DEF same
    <2> QED BY <2>1, SlotFacts, FS_Subset, FS_CardinalityType
<1>4. /\ fdTable' \in [Globals -> FD]
      /\ \A g \in Globals : fdTable'[g].ref = IF fdTable[g].ref > 0
                                              THEN fdTable[g].ref + Cardinality(same(g)) ELSE 0
    <2> DEFINE e(g) == IF fdTable[g].ref > 0
                       THEN [fdTable[g] EXCEPT !.ref = @ + Cardinality(same(g))] ELSE fdTable[g]
    <2>1. fdTable' = [g \in Globals |-> e(g)]
        BY <1>1 DEF forkfd
    <2>2. ASSUME NEW g \in Globals
          PROVE  /\ e(g) \in FD
                 /\ e(g).ref = IF fdTable[g].ref > 0
                               THEN fdTable[g].ref + Cardinality(same(g)) ELSE 0
        <3> DEFINE c == Cardinality(same(g))
                   d == fdTable[g]
        <3>1. d \in FD /\ d.ref \in Nat /\ c \in Nat
            BY <1>3, CountFacts
        <3> HIDE DEF c, d
        <3>2. /\ (IF d.ref > 0 THEN [d EXCEPT !.ref = @ + c] ELSE d) \in FD
              /\ (IF d.ref > 0 THEN [d EXCEPT !.ref = @ + c] ELSE d).ref =
                    IF d.ref > 0 THEN d.ref + c ELSE 0
            BY <3>1 DEF FD
        <3> QED BY <3>2 DEF c, d
    <2> HIDE DEF e
    <2> QED BY <2>1, <2>2
<1>5. FdTypeOK' /\ Unlisted'
    BY <1>1, <1>2, <1>4 DEF CountInv, FdTypeOK, Unlisted
<1>6. ASSUME NEW g \in Globals
      PROVE  Counts(g)'
    <2> DEFINE u == Cardinality(Using(g))
               l == Cardinality(Listing(g))
               c == Cardinality(same(g))
               count == fdTable[g].ref
    <2>1. /\ IsFiniteSet(Using(g)) /\ u \in Nat /\ l \in Nat /\ count \in Nat /\ count >= u + l
          /\ c \in Nat /\ (count = 0 => Using(g) = {}) /\ g \in Slots /\ g >= 3
        BY <1>3, CountFacts, SlotFacts
    <2>2. /\ Listing(g)' = Listing(g) /\ (leaks' = {} => leaks = {} /\ allocated /\ ~Mapped(p))
          /\ leaks = {} => count = u + l
        BY <1>1 DEF Listing, CountInv, Counts
    <2>3. Using(g)' = IF allocated /\ fd[p][g] = g THEN Using(g) \cup {q} ELSE Using(g)
        <3>1. Using(g)' = {x \in live' : fd'[x][g] = g}
            BY DEF Using
        <3>2. \A x \in live : x # q /\ x \in Pids
            BY <1>1
        <3>3. CASE allocated
            BY <1>1, <1>2, <3>1, <3>2, <3>3 DEF Using
        <3>4. CASE ~allocated
            BY <1>1, <3>1, <3>4 DEF Using
        <3> QED BY <3>3, <3>4
    <2>4. q \notin Using(g)
        BY <1>1 DEF Using
    <2>5. Cardinality(Using(g)') = IF allocated /\ fd[p][g] = g THEN u + 1 ELSE u
        BY <2>1, <2>3, <2>4, OneMore
    <2>6. fd[p][g] = g => count > 0 /\ c >= 1
        <3> SUFFICES ASSUME fd[p][g] = g
                     PROVE  count > 0 /\ c >= 1
            OBVIOUS
        <3>1. p \in Using(g) /\ g \in same(g)
            BY <1>1, <2>1 DEF Using
        <3>2. c # 0
            <4> HIDE DEF same
            <4> QED BY <1>3, <3>1, FS_EmptySet
        <3> HIDE DEF c, count, same
        <3> QED BY <2>1, <3>1, <3>2
    <2>7. ~Mapped(p) => c = IF fd[p][g] = g THEN 1 ELSE 0
        <3> SUFFICES ASSUME ~Mapped(p)
                     PROVE  c = IF fd[p][g] = g THEN 1 ELSE 0
            OBVIOUS
        <3>1. \A i \in Slots : fd[p][i] = g => i = g
            <4> SUFFICES ASSUME NEW i \in Slots, fd[p][i] = g
                         PROVE  i = g
                OBVIOUS
            <4>1. i # 0 /\ i # 1
                BY DEF Mapped, STDIN, STDOUT
            <4>2. i >= 2 /\ g # None
                BY <2>1, <4>1, SlotFacts
            <4> QED BY <1>1, <4>2 DEF Named
        <3>2. same(g) = IF fd[p][g] = g THEN {g} ELSE {}
            BY <2>1, <3>1
        <3>3. Cardinality({g}) = 1 /\ Cardinality({}) = 0
            BY FS_Singleton, FS_EmptySet
        <3> QED BY <3>2, <3>3
    <2>8. fdTable'[g].ref = (IF count > 0 THEN count + c ELSE 0) /\ Cardinality(Listing(g)') = l
        BY <1>4, <2>2
    <2>9. count = 0 => u = 0
        BY <2>1, FS_EmptySet
    <2> HIDE DEF u, l, c, count
    <2>10. /\ fdTable'[g].ref >= Cardinality(Using(g)') + Cardinality(Listing(g)')
           /\ leaks' = {} => fdTable'[g].ref = Cardinality(Using(g)') + Cardinality(Listing(g)')
        <3>1. CASE fd[p][g] = g
            <4>1. fdTable'[g].ref = count + c /\ count > 0 /\ c >= 1
                BY <2>6, <2>8, <3>1
            <4>2. leaks' = {} => allocated /\ c = 1 /\ count = u + l
                BY <2>2, <2>7, <3>1
            <4>3. \/ allocated /\ Cardinality(Using(g)') = u + 1
                  \/ ~allocated /\ Cardinality(Using(g)') = u
                BY <2>5, <3>1
            <4> QED BY <2>1, <2>8, <4>1, <4>2, <4>3
        <3>2. CASE fd[p][g] # g
            <4>1. Cardinality(Using(g)') = u
                BY <2>5, <3>2
            <4>2. leaks' = {} => c = 0 /\ count = u + l
                BY <2>2, <2>7, <3>2
            <4> QED BY <2>1, <2>8, <4>1, <4>2
        <3> QED BY <3>1, <3>2
    <2> QED BY <2>10 DEF Counts
<1> QED BY <1>2, <1>5, <1>6 DEF CountInv

(* removeTerminated gives up what slots 3 and up hold: each end once.      *)
LEMMA RemoveCounts ==
    ASSUME CountInv, NEW q \in Pids, removeTerminated(q)
    PROVE  CountInv'
<1> DEFINE same(g) == {i \in Globals : fd[q][i] = g}
           drop == [g \in Globals |-> Cardinality(same(g))]
<1>1. /\ q \in live /\ closeFds(drop) /\ live' = live \ {q} /\ fd' = [fd EXCEPT ![q] = NoFds]
      /\ fifoTable' = fifoTable /\ leaks' = leaks
      /\ fd \in [Pids -> [Slots -> Slots \cup {None}]] /\ Named /\ live \subseteq Pids
    BY DEF removeTerminated, CountInv, FdTypeOK
<1>2. \A g \in Globals : drop[g] = IF fd[q][g] = g THEN 1 ELSE 0
    <2> SUFFICES ASSUME NEW g \in Globals
                 PROVE  Cardinality(same(g)) = IF fd[q][g] = g THEN 1 ELSE 0
        OBVIOUS
    <2>1. \A i \in Globals : fd[q][i] = g => i = g
        BY <1>1, SlotFacts DEF Named
    <2>2. same(g) = IF fd[q][g] = g THEN {g} ELSE {}
        BY <2>1
    <2>3. Cardinality({g}) = 1 /\ Cardinality({}) = 0
        BY FS_Singleton, FS_EmptySet
    <2> QED BY <2>2, <2>3
<1>3. drop \in [Globals -> Nat]
    <2>1. \A g \in Globals : drop[g] \in Nat
        BY <1>2
    <2> QED BY <2>1
<1> HIDE DEF drop
<1>4. /\ fdTable' \in [Globals -> FD] /\ pipe' \in [Pipes -> Pipe]
      /\ \A g \in Globals : fdTable'[g].ref = IF drop[g] >= fdTable[g].ref THEN 0
                                              ELSE fdTable[g].ref - drop[g]
    BY <1>1, <1>3, CloseFacts
<1>5. /\ fd' \in [Pids -> [Slots -> Slots \cup {None}]] /\ Named' /\ IsFiniteSet(live')
      /\ live' \subseteq Pids /\ \A p \in Pids : p # q => fd'[p] = fd[p]
    <2>1. IsFiniteSet(live \ {q})
        BY FS_RemoveElement DEF CountInv
    <2>2. NoFds \in [Slots -> Slots \cup {None}] /\ \A i \in Slots : NoFds[i] = None
        BY DEF NoFds
    <2> HIDE DEF NoFds
    <2>3. /\ fd' \in [Pids -> [Slots -> Slots \cup {None}]] /\ fd'[q] = NoFds
          /\ \A p \in Pids : p # q => fd'[p] = fd[p]
        BY <1>1, <2>2
    <2> QED BY <1>1, <2>1, <2>2, <2>3 DEF Named
<1>6. FdTypeOK' /\ Unlisted'
    BY <1>1, <1>4, <1>5 DEF CountInv, FdTypeOK, Unlisted
<1>7. ASSUME NEW g \in Globals
      PROVE  Counts(g)'
    <2>1. Listing(g)' = Listing(g) /\ Counts(g)
        BY <1>1 DEF Listing, CountInv
    <2>2. Using(g)' = {p \in live' : fd'[p][g] = g}
        BY DEF Using
    <2>3. Using(g)' = Using(g) \ {q}
        BY <1>1, <1>5, <2>2 DEF Using
    <2>4. CASE fd[q][g] = g
        <3>1. q \in Using(g)
            BY <1>1, <2>4 DEF Using
        <3>2. fdTable'[g].ref = IF 1 >= fdTable[g].ref THEN 0 ELSE fdTable[g].ref - 1
            BY <1>2, <1>4, <2>4
        <3> QED BY <1>1, <2>1, <2>3, <3>1, <3>2, CountsDown
    <2>5. CASE fd[q][g] # g
        <3>1. Using(g)' = Using(g)
            BY <2>3, <2>5 DEF Using
        <3>2. fdTable'[g].ref = fdTable[g].ref
            BY <1>2, <1>4, <2>5, CountFacts
        <3> QED BY <1>1, <2>1, <3>1, <3>2, CountsSame
    <2> QED BY <2>4, <2>5
<1> QED BY <1>5, <1>6, <1>7 DEF CountInv

---------------------------------------------------------------------------
(* At boot only the console is open, and nobody refers to anything else.   *)
LEMMA CountStart == FdInit => CountInv
<1> SUFFICES ASSUME FdInit
             PROVE  CountInv
    OBVIOUS
<1>1. FdTypeOK /\ Unlisted
    <2>1. fd \in [Pids -> [Slots -> Slots \cup {None}]]
        BY DEF FdInit, NoFds
    <2>2. fifoTable \in [Entries -> [id : FifoIds \cup {0}, readfd : Slots, writefd : Slots]]
        BY SlotFacts DEF FdInit, NoFifo
    <2>3. fdTable \in [Globals -> FD] /\ pipe \in [Pipes -> Pipe]
        BY DEF FdInit, FD, Types, Pipe
    <2> QED BY <2>1, <2>2, <2>3, DescriptorsAssumption DEF FdInit, FdTypeOK, Unlisted
<1>2. IsFiniteSet(live)
    BY FS_Singleton DEF FdInit
<1>3. \A p \in Pids : \A i \in Slots : fd[p][i] = IF p = 1 /\ i <= 2 THEN i ELSE None
    BY DEF FdInit, NoFds
<1>4. Named
    BY <1>3 DEF Named
<1>5. ASSUME NEW g \in Globals
      PROVE  Counts(g)
    <2>1. g \in Slots /\ g >= 3 /\ g # None /\ g \in Nat /\ live \subseteq Pids
        BY <1>1, SlotFacts DEF FdTypeOK
    <2>2. Using(g) = {}
        BY <1>3, <2>1 DEF Using
    <2>3. Listing(g) = {}
        BY <2>1 DEF Listing, FdInit, NoFifo
    <2>4. Cardinality({}) = 0
        BY FS_EmptySet
    <2> QED BY <2>2, <2>3, <2>4 DEF Counts, FdInit
<1> QED BY <1>1, <1>2, <1>4, <1>5 DEF CountInv

(* Every operation keeps the counts.                                       *)
LEMMA CountStep == CountInv /\ [FdNext]_fdVars => CountInv'
<1> SUFFICES ASSUME CountInv, [FdNext]_fdVars
             PROVE  CountInv'
    OBVIOUS
<1>1. CASE UNCHANGED fdVars
    BY <1>1 DEF fdVars, CountInv, FdTypeOK, Named, Unlisted, Counts, Using, Listing
<1>2. STDIN \in Slots /\ STDOUT \in Slots /\ \A g \in Globals : g \in Slots
    BY SlotFacts
<1>3. CASE \E p \in Pids, g \in Globals \cup {STDIN} : mapStdFds(p, g, STDOUT)
    BY <1>2, <1>3, MapCounts
<1>4. CASE \E p \in Pids, g \in Globals : mapStdFds(p, STDIN, g)
    BY <1>2, <1>4, MapCounts
<1> QED BY <1>1, <1>3, <1>4, OpenPipeCounts, OpenPipeFailsCounts, CloseCounts, MkFifoCounts,
           OpenFifoCounts, RmFifoCounts, CreateCounts, RemoveCounts DEF FdNext

(* The counts are right in every state.                                    *)
THEOREM CountsCorrect == FdSpec => []CountInv
<1>1. FdInit => CountInv
    BY CountStart
<1>2. CountInv /\ [FdNext]_fdVars => CountInv'
    BY CountStep
<1> QED BY <1>1, <1>2, PTL DEF FdSpec

(* No end is closed, nor its entry in fdTable reused, while a process or a *)
(* FIFO refers to it, for any number of processes, pipes and entries.      *)
THEOREM HeldOpenCorrect == FdSpec => []HeldOpen
<1>1. CountInv => HeldOpen
    BY DEF CountInv, Counts, HeldOpen, Holders, Using, Listing
<1> QED BY <1>1, CountsCorrect, PTL

(* The count is the number of references exactly, up to the first of the   *)
(* leaks that `leaks' names.                                               *)
THEOREM NoLeakCorrect == FdSpec => []NoLeak
<1>1. CountInv => NoLeak
    BY DEF CountInv, Counts, NoLeak, Holders, Using, Listing
<1> QED BY <1>1, CountsCorrect, PTL

---------------------------------------------------------------------------
(* Entry g is the end of that type of pipe x.                              *)
IsEnd(g, x, type) == fdTable[g].ref > 0 /\ fdTable[g].pipe = x /\ fdTable[g].type = type

(* PipeMatchesEnds without cardinalities.                                  *)
EndsOf(x) ==
    /\ pipe[x].readOpen <=> \E g \in Globals : IsEnd(g, x, "READ")
    /\ pipe[x].writeOpen <=> \E g \in Globals : IsEnd(g, x, "WRITE")
    /\ pipe[x].allocated <=> pipe[x].readOpen \/ pipe[x].writeOpen
    /\ \A type \in Types : \A g, h \in Globals : IsEnd(g, x, type) /\ IsEnd(h, x, type) => g = h

EndInv == "half" \notin leaks => \A x \in Pipes : EndsOf(x)

(* No end is opened or closed.                                             *)
LEMMA EndsSame ==
    ASSUME EndInv, pipe' = pipe, leaks \subseteq leaks',
           \A g \in Globals :
                /\ fdTable'[g].ref > 0 <=> fdTable[g].ref > 0
                /\ fdTable[g].ref > 0 => /\ fdTable'[g].pipe = fdTable[g].pipe
                                         /\ fdTable'[g].type = fdTable[g].type
    PROVE  EndInv'
<1> SUFFICES ASSUME "half" \notin leaks', NEW x \in Pipes
             PROVE  EndsOf(x)'
    BY DEF EndInv
<1>1. \A g \in Globals : \A type \in Types : IsEnd(g, x, type)' <=> IsEnd(g, x, type)
    BY DEF IsEnd
<1>2. EndsOf(x) /\ "READ" \in Types /\ "WRITE" \in Types
    BY DEF EndInv, Types
<1> QED BY <1>1, <1>2 DEF EndsOf

(* openPipe uses a pipe that has no ends yet.                              *)
LEMMA EndsOpened ==
    ASSUME CountInv, EndInv, NEW x \in Pipes, openPipe(x), leaks' = leaks
    PROVE  EndInv'
<1> DEFINE r == ReadEntry
           w == WriteEntry
           d == [allocated |-> TRUE, readOpen |-> TRUE, writeOpen |-> TRUE]
<1>1. /\ r \in Globals /\ w \in Globals /\ r # w
      /\ fdTable[r].ref = 0 /\ fdTable[w].ref = 0
      /\ fdTable'[r].ref = 1 /\ fdTable'[r].type = "READ" /\ fdTable'[r].pipe = x
      /\ fdTable'[w].ref = 1 /\ fdTable'[w].type = "WRITE" /\ fdTable'[w].pipe = x
      /\ \A g \in Globals : g # r /\ g # w => fdTable'[g] = fdTable[g]
    BY OpenFacts
<1> HIDE DEF r, w
<1>2. pipe' = [pipe EXCEPT ![x] = d] /\ ~pipe[x].allocated /\ pipe \in [Pipes -> Pipe]
    BY DEF openPipe, CountInv, FdTypeOK
<1>3. d.allocated /\ d.readOpen /\ d.writeOpen
    OBVIOUS
<1> HIDE DEF d
<1>4. pipe'[x] = d /\ \A y \in Pipes : y # x => pipe'[y] = pipe[y]
    BY <1>2
<1> SUFFICES ASSUME "half" \notin leaks, NEW y \in Pipes
             PROVE  EndsOf(y)'
    BY DEF EndInv
<1>5. EndsOf(y) /\ EndsOf(x) /\ "READ" \in Types /\ "WRITE" \in Types /\ "READ" # "WRITE"
    BY DEF EndInv, Types
<1>6. CASE y # x
    <2>1. \A g \in Globals : \A type \in Types : IsEnd(g, y, type)' <=> IsEnd(g, y, type)
        <3> SUFFICES ASSUME NEW g \in Globals, NEW type \in Types
                     PROVE  IsEnd(g, y, type)' <=> IsEnd(g, y, type)
            OBVIOUS
        <3>1. CASE g = r \/ g = w
            BY <1>1, <1>6, <3>1 DEF IsEnd
        <3>2. CASE g # r /\ g # w
            BY <1>1, <3>2 DEF IsEnd
        <3> QED BY <3>1, <3>2
    <2>2. pipe'[y] = pipe[y]
        BY <1>4, <1>6
    <2> QED BY <1>5, <2>1, <2>2 DEF EndsOf
<1>7. CASE y = x
    <2>1. \A g \in Globals : \A type \in Types : ~IsEnd(g, x, type)
        BY <1>2, <1>5 DEF EndsOf, Types
    <2>2. \A g \in Globals : \A type \in Types :
            IsEnd(g, x, type)' <=> (g = r /\ type = "READ") \/ (g = w /\ type = "WRITE")
        <3> SUFFICES ASSUME NEW g \in Globals, NEW type \in Types
                     PROVE  IsEnd(g, x, type)' <=> \/ g = r /\ type = "READ"
                                                   \/ g = w /\ type = "WRITE"
            OBVIOUS
        <3>1. CASE g = r
            BY <1>1, <3>1 DEF IsEnd
        <3>2. CASE g = w
            BY <1>1, <3>2 DEF IsEnd
        <3>3. CASE g # r /\ g # w
            <4>1. fdTable'[g] = fdTable[g] /\ ~IsEnd(g, x, type)
                BY <1>1, <2>1, <3>3
            <4> QED BY <3>3, <4>1 DEF IsEnd
        <3> QED BY <3>1, <3>2, <3>3
    <2> QED BY <1>1, <1>3, <1>4, <1>5, <1>7, <2>2 DEF EndsOf
<1> QED BY <1>6, <1>7

(* Whatever is closed, an end goes with its entry.                         *)
LEMMA EndsClosed ==
    ASSUME CountInv, EndInv, NEW drop \in [Globals -> Nat], closeFds(drop), leaks' = leaks
    PROVE  EndInv'
<1>1. /\ pipe \in [Pipes -> Pipe] /\ "READ" \in Types /\ "WRITE" \in Types
      /\ "READ" # "WRITE" /\ \A type \in Types : type = "READ" \/ type = "WRITE"
    BY DEF CountInv, FdTypeOK, Types
<1> SUFFICES ASSUME "half" \notin leaks, NEW x \in Pipes
             PROVE  EndsOf(x)'
    BY DEF EndInv
<1> DEFINE cl(type) == Closing(fdTable, drop, x, type)
<1>2. EndsOf(x)
    BY DEF EndInv
<1>3. \A g \in Globals : \A type \in Types :
            IsEnd(g, x, type)' <=> IsEnd(g, x, type) /\ ~(drop[g] >= fdTable[g].ref)
    <2> SUFFICES ASSUME NEW g \in Globals, NEW type \in Types
                 PROVE  IsEnd(g, x, type)' <=> IsEnd(g, x, type) /\ ~(drop[g] >= fdTable[g].ref)
        OBVIOUS
    <2>1. /\ fdTable'[g].ref = IF drop[g] >= fdTable[g].ref THEN 0 ELSE fdTable[g].ref - drop[g]
          /\ fdTable'[g].type = fdTable[g].type
          /\ fdTable'[g].ref > 0 => fdTable'[g].pipe = fdTable[g].pipe
        BY CloseFacts
    <2>2. fdTable[g].ref \in Nat /\ drop[g] \in Nat
        BY CountFacts
    <2>3. fdTable'[g].ref > 0 <=> fdTable[g].ref > 0 /\ ~(drop[g] >= fdTable[g].ref)
        BY <2>1, <2>2
    <2> QED BY <2>1, <2>3 DEF IsEnd
<1>4. \A type \in Types :
            cl(type) <=> \E g \in Globals : IsEnd(g, x, type) /\ drop[g] >= fdTable[g].ref
    <2>1. \A g \in Globals : fdTable[g].ref \in Nat /\ drop[g] \in Nat
        BY CountFacts
    <2> QED BY <2>1 DEF Closing, Ends, IsEnd
<1> HIDE DEF cl
<1>5. \A type \in Types : (\E g \in Globals : IsEnd(g, x, type)')
            <=> (\E g \in Globals : IsEnd(g, x, type)) /\ ~cl(type)
    BY <1>2, <1>3, <1>4 DEF EndsOf
<1>6. /\ pipe'[x].readOpen <=> pipe[x].readOpen /\ ~cl("READ")
      /\ pipe'[x].writeOpen <=> pipe[x].writeOpen /\ ~cl("WRITE")
      /\ pipe'[x].allocated <=> pipe'[x].readOpen \/ pipe'[x].writeOpen
    <2> DEFINE a == IF cl("READ") THEN closePipe(pipe, x, "READ") ELSE pipe
               b == IF cl("WRITE") THEN closePipe(a, x, "WRITE") ELSE a
    <2>1. /\ a \in [Pipes -> Pipe]
          /\ a[x].readOpen <=> pipe[x].readOpen /\ ~cl("READ")
          /\ a[x].writeOpen <=> pipe[x].writeOpen
          /\ a[x].allocated <=> a[x].readOpen \/ a[x].writeOpen
        <3>1. CASE cl("READ")
            BY <1>1, <3>1, ClosePipeFacts
        <3>2. CASE ~cl("READ")
            BY <1>1, <1>2, <3>2 DEF EndsOf
        <3> QED BY <3>1, <3>2
    <2>2. pipe'[x] = b[x]
        BY DEF closeFds, ClosedPipes, cl
    <2> HIDE DEF a
    <2>3. /\ b[x].readOpen <=> a[x].readOpen
          /\ b[x].writeOpen <=> a[x].writeOpen /\ ~cl("WRITE")
          /\ b[x].allocated <=> b[x].readOpen \/ b[x].writeOpen
        <3>1. CASE cl("WRITE")
            BY <1>1, <2>1, <3>1, ClosePipeFacts
        <3>2. CASE ~cl("WRITE")
            BY <2>1, <3>2
        <3> QED BY <3>1, <3>2
    <2> HIDE DEF b
    <2> QED BY <2>1, <2>2, <2>3
<1>7. \A type \in Types : \A g, h \in Globals : IsEnd(g, x, type)' /\ IsEnd(h, x, type)' => g = h
    BY <1>2, <1>3 DEF EndsOf
<1> QED BY <1>1, <1>2, <1>5, <1>6, <1>7 DEF EndsOf

(* fdDup and forkfd count references to ends that are open already.        *)
LEMMA EndsDuplicated ==
    ASSUME CountInv, EndInv, pipe' = pipe, leaks \subseteq leaks', NEW n \in [Globals -> Nat],
           \A g \in Globals : fdTable'[g] = IF fdTable[g].ref > 0
                                            THEN [fdTable[g] EXCEPT !.ref = @ + n[g]]
                                            ELSE fdTable[g]
    PROVE  EndInv'
<1>1. ASSUME NEW g \in Globals
      PROVE  /\ fdTable'[g].ref > 0 <=> fdTable[g].ref > 0
             /\ fdTable'[g].pipe = fdTable[g].pipe /\ fdTable'[g].type = fdTable[g].type
    <2> DEFINE c == fdTable[g]
               m == n[g]
    <2>1. c \in FD /\ c.ref \in Nat /\ m \in Nat
        BY CountFacts
    <2>2. fdTable'[g] = IF c.ref > 0 THEN [c EXCEPT !.ref = @ + m] ELSE c
        OBVIOUS
    <2> HIDE DEF c, m
    <2>3. /\ fdTable'[g].ref > 0 <=> c.ref > 0
          /\ fdTable'[g].pipe = c.pipe /\ fdTable'[g].type = c.type
        BY <2>1, <2>2 DEF FD
    <2> QED BY <2>3 DEF c
<1> QED BY <1>1, EndsSame

(* Every operation keeps pipes and ends together.                          *)
LEMMA EndStep == CountInv /\ EndInv /\ [FdNext]_fdVars => EndInv'
<1> SUFFICES ASSUME CountInv, EndInv, [FdNext]_fdVars
             PROVE  EndInv'
    OBVIOUS
<1>1. ASSUME fdTable' = fdTable, pipe' = pipe, leaks' = leaks
      PROVE  EndInv'
    BY <1>1, EndsSame
<1>2. CASE UNCHANGED fdVars
    BY <1>1, <1>2 DEF fdVars
<1>3. CASE \E p \in Pids : sys_openPipe(p)
    BY <1>3, EndsOpened DEF sys_openPipe
<1>4. CASE \E id \in FifoIds : sys_mkFifo(id)
    BY <1>4, EndsOpened DEF sys_mkFifo
<1>5. CASE sys_openPipeFails
    BY <1>5 DEF sys_openPipeFails, EndInv
<1>6. \A S : Once(S) \in [Globals -> Nat]
    BY DEF Once
<1>7. CASE \E p \in Pids, i \in Slots : sys_close(p, i)
    <2>1. PICK p \in Pids, i \in Slots : sys_close(p, i)
        BY <1>7
    <2> QED BY <1>6, <2>1, EndsClosed DEF sys_close
<1>8. CASE \E id \in FifoIds : sys_rmFifo(id)
    <2>1. PICK id \in FifoIds : sys_rmFifo(id)
        BY <1>8
    <2> QED BY <1>6, <2>1, EndsClosed DEF sys_rmFifo
<1>9. CASE \E q \in Pids : removeTerminated(q)
    <2>1. PICK q \in Pids : removeTerminated(q)
        BY <1>9
    <2> DEFINE drop == [g \in Globals |-> Cardinality({i \in Globals : fd[q][i] = g})]
    <2>2. closeFds(drop) /\ leaks' = leaks
        BY <2>1 DEF removeTerminated
    <2>3. ASSUME NEW g \in Globals
          PROVE  Cardinality({i \in Globals : fd[q][i] = g}) \in Nat
        <3> DEFINE S == {i \in Globals : fd[q][i] = g}
        <3>1. S \in SUBSET Globals
            OBVIOUS
        <3> HIDE DEF S
        <3>2. Cardinality(S) \in Nat
            BY <3>1, SlotFacts, FS_Subset, FS_CardinalityType
        <3> QED BY <3>2 DEF S
    <2>4. drop \in [Globals -> Nat]
        BY <2>3
    <2> HIDE DEF drop
    <2> QED BY <2>2, <2>4, EndsClosed
<1>10. CASE \E p \in Pids, id \in FifoIds, type \in Types : sys_openFifo(p, id, type)
    <2>1. PICK p \in Pids, id \in FifoIds, type \in Types : sys_openFifo(p, id, type)
        BY <1>10
    <2> DEFINE h == IF type = "READ" THEN fifoTable[Fifo(id)].readfd
                    ELSE fifoTable[Fifo(id)].writefd
               n == [g \in Globals |-> IF g = h THEN 1 ELSE 0]
    <2>2. fdTable' = fdDup(fdTable, h) /\ pipe' = pipe /\ leaks \subseteq leaks'
        BY <2>1 DEF sys_openFifo
    <2> HIDE DEF h
    <2>3. n \in [Globals -> Nat]
        OBVIOUS
    <2>4. ASSUME NEW g \in Globals
          PROVE  fdTable'[g] = IF fdTable[g].ref > 0 THEN [fdTable[g] EXCEPT !.ref = @ + n[g]]
                               ELSE fdTable[g]
        <3>1. fdTable \in [Globals -> FD] /\ fdTable[g] \in FD /\ fdTable[g].ref \in Nat
            BY CountFacts DEF CountInv, FdTypeOK
        <3>2. CASE g = h
            BY <2>2, <3>1, <3>2 DEF fdDup, Counted
        <3>3. CASE g # h
            <4>1. fdTable'[g] = fdTable[g] /\ n[g] = 0
                BY <2>2, <3>1, <3>3 DEF fdDup
            <4> DEFINE c == fdTable[g]
            <4> HIDE DEF c, n
            <4>2. c \in FD /\ c.ref + 0 = c.ref /\ [c EXCEPT !.ref = @ + 0] = c
                BY <3>1 DEF FD, c
            <4> QED BY <4>1, <4>2 DEF c
        <3> QED BY <3>2, <3>3
    <2> HIDE DEF n
    <2> QED BY <2>2, <2>3, <2>4, EndsDuplicated
<1>11. CASE \E p, q \in Pids, allocated \in BOOLEAN : sys_createprocess(p, q, allocated)
    <2>1. PICK p \in Pids, q \in Pids, allocated \in BOOLEAN : sys_createprocess(p, q, allocated)
        BY <1>11
    <2> DEFINE n == [g \in Globals |-> Cardinality({i \in Slots : fd[p][i] = g})]
    <2>2. fdTable' = forkfd(fdTable, fd[p]) /\ pipe' = pipe /\ leaks \subseteq leaks'
        BY <2>1 DEF sys_createprocess
    <2>3. ASSUME NEW g \in Globals
          PROVE  Cardinality({i \in Slots : fd[p][i] = g}) \in Nat
        <3> DEFINE S == {i \in Slots : fd[p][i] = g}
        <3>1. S \in SUBSET Slots
            OBVIOUS
        <3> HIDE DEF S
        <3>2. Cardinality(S) \in Nat
            BY <3>1, SlotFacts, FS_Subset, FS_CardinalityType
        <3> QED BY <3>2 DEF S
    <2>4. n \in [Globals -> Nat]
        BY <2>3
    <2>5. \A g \in Globals :
            fdTable'[g] = IF fdTable[g].ref > 0 THEN [fdTable[g] EXCEPT !.ref = @ + n[g]]
                          ELSE fdTable[g]
        BY <2>2 DEF forkfd
    <2> HIDE DEF n
    <2> QED BY <2>2, <2>4, <2>5, EndsDuplicated
<1>12. CASE \/ \E p \in Pids, g \in Globals \cup {STDIN} : mapStdFds(p, g, STDOUT)
            \/ \E p \in Pids, g \in Globals : mapStdFds(p, STDIN, g)
    BY <1>1, <1>12 DEF mapStdFds
<1> QED BY <1>2, <1>3, <1>4, <1>5, <1>7, <1>8, <1>9, <1>10, <1>11, <1>12 DEF FdNext

(* Without half-opened pipes an end is open as long as it has an entry, no *)
(* two entries are the same end, and closePipe frees the pipe with its     *)
(* last end and not before.                                                *)
THEOREM PipesFreedCorrect == FdSpec => [](FdTypeOK /\ PipeMatchesEnds)
<1>1. FdInit => CountInv /\ EndInv
    <2>1. FdInit => EndInv
        BY DEF FdInit, EndInv, EndsOf, IsEnd
    <2> QED BY <2>1, CountStart
<1>2. CountInv /\ EndInv /\ [FdNext]_fdVars => (CountInv /\ EndInv)'
    BY CountStep, EndStep
<1>3. CountInv /\ EndInv => FdTypeOK /\ PipeMatchesEnds
    <2> SUFFICES ASSUME CountInv, EndInv
                 PROVE  FdTypeOK /\ PipeMatchesEnds
        OBVIOUS
    <2> DEFINE End(x, type) == {g \in Globals : /\ fdTable[g].ref > 0
                                                /\ fdTable[g].pipe = x /\ fdTable[g].type = type}
    <2>1. ASSUME NEW x \in Pipes, "half" \notin leaks
          PROVE  /\ pipe[x].readOpen <=> End(x, "READ") # {}
                 /\ pipe[x].writeOpen <=> End(x, "WRITE") # {}
                 /\ pipe[x].allocated <=> pipe[x].readOpen \/ pipe[x].writeOpen
                 /\ Cardinality(End(x, "READ")) <= 1 /\ Cardinality(End(x, "WRITE")) <= 1
        <3>1. EndsOf(x) /\ "READ" \in Types /\ "WRITE" \in Types
            BY <2>1 DEF EndInv, Types
        <3>2. ASSUME NEW S, \A g, h \in S : g = h
              PROVE  Cardinality(S) <= 1
            <4>1. S = {} \/ \E g : S = {g}
                BY <3>2
            <4>2. Cardinality({}) = 0 /\ \A g : Cardinality({g}) = 1
                BY FS_EmptySet, FS_Singleton
            <4>3. Cardinality(S) = 0 \/ Cardinality(S) = 1
                BY <4>1, <4>2, Zenon
            <4> QED BY <4>3
        <3>3. \A g, h \in End(x, "READ") : g = h
            BY <3>1 DEF EndsOf, IsEnd
        <3>4. \A g, h \in End(x, "WRITE") : g = h
            BY <3>1 DEF EndsOf, IsEnd
        <3>5. /\ pipe[x].readOpen <=> End(x, "READ") # {}
              /\ pipe[x].writeOpen <=> End(x, "WRITE") # {}
            BY <3>1 DEF EndsOf, IsEnd
        <3> HIDE DEF End
        <3> QED BY <3>1, <3>2, <3>3, <3>4, <3>5 DEF EndsOf
    <2> QED BY <2>1 DEF PipeMatchesEnds, CountInv
<1> QED BY <1>1, <1>2, <1>3, PTL DEF FdSpec

---------------------------------------------------------------------------
(***************************************************************************)
(* Console.                                                                *)
(*                                                                         *)
(* For every screen and the three fonts: whatever is printed, echoed,      *)
(* deleted or cleared stays inside the frame buffer (FrameBufferKept), and *)
(* the pen is where the line of sys_read says it is (EchoMatchesLine),     *)
(* both until one of the mishaps.                                          *)
(***************************************************************************)

(* The console as it runs, without fairness: the theorems assume no more.  *)
ConsoleSpec == ConsoleInit /\ [][ConsoleNext]_consoleVars

(* Nothing went over a margin and nothing was scrolled in a larger font.   *)
Tidy == mishap \subseteq {"kept"}

(* There is room for one more character in the row of the pen.             *)
PenInv == Tidy => penX + Cell(level) <= width /\ touched <= Pixels

(* A product does not get smaller with a factor.                           *)
LEMMA RowsGrow ==
    ASSUME NEW m \in Nat, NEW n \in Nat, NEW w \in Nat, m <= n
    PROVE  m * w <= n * w /\ m * w \in Nat
<1> DEFINE d == n - m
<1>1. d \in Nat /\ n = m + d
    OBVIOUS
<1>2. n * w = m * w + d * w /\ d * w \in Nat /\ m * w \in Nat
    BY <1>1, SMT
<1> QED
    BY <1>2

(* A pixel of the screen is inside the frame buffer.                       *)
LEMMA PastInside ==
    ASSUME NEW x \in Nat, NEW y \in Nat, x < width, y < height
    PROVE  Past(x, y) \in Nat /\ Past(x, y) <= Pixels
<1> USE ConsoleAssumption
<1>1. y * width \in Nat /\ (y + 1) * width <= height * width
    BY RowsGrow
<1>2. (y + 1) * width = y * width + width
    OBVIOUS
<1>3. height * width = width * height /\ width * height \in Nat
    OBVIOUS
<1> HIDE ConsoleAssumption
<1> QED
    BY <1>1, <1>2, <1>3, ConsoleAssumption DEF Past, Pixels

(* The sizes of a character, in the three fonts.                           *)
LEMMA FontFacts ==
    ASSUME NEW l \in Levels
    PROVE  /\ Cell(l) \in Nat /\ Cell(l) >= 1 /\ 2 * Cell(l) <= width
           /\ Cell(l) < Word16 /\ width + 2 * Cell(l) < Word16
           /\ CHAR_HEIGHT * l \in Nat /\ CHAR_HEIGHT * l >= 1
           /\ CHAR_HEIGHT * l <= 3 * CHAR_HEIGHT /\ CHAR_HEIGHT * l <= 2 * Cell(l)
           /\ l * CHAR_HEIGHT = CHAR_HEIGHT * l
           /\ width \in Nat /\ height \in Nat /\ 3 * CHAR_HEIGHT < height
           /\ Pixels \in Nat /\ CHAR_HEIGHT \in Nat /\ Word16 \in Nat \ {0}
<1>1. CASE l = 1
    BY <1>1, ConsoleAssumption DEF Cell, Pixels
<1>2. CASE l = 2
    BY <1>2, ConsoleAssumption DEF Cell, Pixels
<1>3. CASE l = 3
    BY <1>3, ConsoleAssumption DEF Cell, Pixels
<1> QED
    BY <1>1, <1>2, <1>3 DEF Levels

(* A number below the number of values of a uint16_t is kept.              *)
LEMMA ModSmall ==
    ASSUME NEW n \in Nat, NEW m \in Nat, n < m
    PROVE  n % m = n
    OBVIOUS

(* A remainder is below the divisor.                                       *)
LEMMA ModRange ==
    ASSUME NEW n \in Int, NEW m \in Nat \ {0}
    PROVE  n % m \in 0..(m - 1)
    OBVIOUS

(* Scrolling in the smallest font touches the screen and nothing else.     *)
LEMMA ScrolledFits ==
    ASSUME level \in Levels
    PROVE  Scrolled \in Nat /\ (level = 1 => Scrolled = Pixels)
<1>1. height * level - CHAR_HEIGHT * level \in Nat /\ CHAR_HEIGHT * level \in Nat /\ width \in Nat
  <2>1. CASE level = 1
    BY <2>1, ConsoleAssumption
  <2>2. CASE level = 2
    BY <2>2, ConsoleAssumption
  <2>3. CASE level = 3
    BY <2>3, ConsoleAssumption
  <2> QED
    BY <2>1, <2>2, <2>3 DEF Levels
<1>2. Scrolled \in Nat
    BY <1>1 DEF Scrolled
<1>3. ASSUME level = 1 PROVE Scrolled = Pixels
  <2>1. Scrolled = (height - CHAR_HEIGHT) * width + CHAR_HEIGHT * width
    BY <1>3, ConsoleAssumption DEF Scrolled
  <2> QED
    BY <2>1, ConsoleAssumption DEF Pixels
<1> QED
    BY <1>2, <1>3

(* What can go wrong on the screen; only "kept" leaves the pen in place.   *)
Mishaps == {"wrapped", "kept", "margin", "scroll"}

(* Where an operation may leave the pen.                                   *)
PenFits(pen) ==
    /\ pen.x \in 0..(Word16 - 1) /\ pen.y \in 0..(height - 3 * CHAR_HEIGHT)
    /\ pen.touched \in Nat
    /\ mishap \subseteq pen.mishap /\ pen.mishap \subseteq Mishaps
    /\ pen.mishap \subseteq {"kept"} => pen.x + Cell(level) <= width /\ pen.touched <= Pixels

(* A new line keeps the pen on the screen, and touches nothing else unless *)
(* it scrolls in a larger font.                                            *)
LEMMA NewlineFits ==
    ASSUME ConsoleTypeOK, NEW sofar \in Nat, Tidy => sofar <= Pixels
    PROVE  PenFits(Newline(sofar)) /\ Newline(sofar).x = 0
<1> USE DEF Newline, PenFits, Mishaps
<1>1. level \in Levels /\ mishap \subseteq Mishaps /\ penY \in 0..(height - 3 * CHAR_HEIGHT)
    BY DEF ConsoleTypeOK
<1>2. Cell(level) <= width /\ Pixels \in Nat /\ level * CHAR_HEIGHT \in Nat /\ Word16 \in Nat \ {0}
      /\ height \in Nat /\ CHAR_HEIGHT \in Nat /\ Cell(level) \in Nat /\ width \in Nat
    BY <1>1, FontFacts
<1>3. Scrolled \in Nat /\ (level = 1 => Scrolled = Pixels) /\ (level > 1 \/ level = 1)
    BY <1>1, ScrolledFits DEF Levels
<1>4. CASE FitsBelow(penY)
  <2>1. penY + level * CHAR_HEIGHT \in 0..(height - 3 * CHAR_HEIGHT)
    BY <1>1, <1>2, <1>4 DEF FitsBelow
  <2> QED
    BY <2>1, <1>1, <1>2, <1>4 DEF Tidy
<1>5. CASE ~FitsBelow(penY)
  <2>1. CASE level = 1
    BY <2>1, <1>1, <1>2, <1>3, <1>5 DEF Tidy
  <2>2. CASE level > 1
    BY <2>2, <1>1, <1>2, <1>3, <1>5
  <2> QED
    BY <2>1, <2>2, <1>3
<1> QED
    BY <1>4, <1>5

(* The pixels of a glyph are on the screen, and the pen goes on by a cell, *)
(* or to a new line where there is no room for another one.                *)
LEMMA PrintableFits ==
    ASSUME ConsoleTypeOK, PenInv
    PROVE  /\ PenFits(Printable)
           /\ Tidy => Printable.x = IF penX + 2 * Cell(level) <= width THEN penX + Cell(level) ELSE 0
<1> DEFINE sum == penX + Cell(level)
           x == sum % Word16
<1>1. level \in Levels /\ mishap \subseteq Mishaps
      /\ penX \in 0..(Word16 - 1) /\ penY \in 0..(height - 3 * CHAR_HEIGHT)
    BY DEF ConsoleTypeOK, Mishaps
<1>2. /\ Cell(level) \in Nat /\ Cell(level) >= 1 /\ width + 2 * Cell(level) < Word16
      /\ CHAR_HEIGHT * level \in Nat /\ CHAR_HEIGHT * level >= 1 /\ CHAR_HEIGHT * level <= 3 * CHAR_HEIGHT
      /\ width \in Nat /\ height \in Nat /\ Pixels \in Nat /\ CHAR_HEIGHT \in Nat /\ Word16 \in Nat \ {0}
    BY <1>1, FontFacts
<1>3. x \in 0..(Word16 - 1)
  <2>1. sum \in Int
    BY <1>1, <1>2
  <2> QED
    BY <2>1, <1>2, ModRange
<1>4. Tidy => x = sum
    BY <1>1, <1>2, ModSmall DEF PenInv
<1>5. Glyph(penX, penY) \in Nat /\ (Tidy => Glyph(penX, penY) <= Pixels)
  <2> DEFINE a == penX + Cell(level) - 1
             b == penY + CHAR_HEIGHT * level - 1
  <2>1. a \in Nat /\ b \in Nat /\ b < height /\ (Tidy => a < width)
    BY <1>1, <1>2 DEF PenInv
  <2>2. Past(a, b) \in Nat
    <3>1. b * width \in Nat
      BY <2>1, <1>2, RowsGrow
    <3> QED
      BY <3>1, <2>1 DEF Past
  <2>3. Tidy => Past(a, b) <= Pixels
    BY <2>1, PastInside
  <2> QED
    BY <2>2, <2>3 DEF Glyph
<1>6. PenFits(Newline(Glyph(penX, penY))) /\ Newline(Glyph(penX, penY)).x = 0
    BY <1>5, NewlineFits
<1> HIDE DEF x
<1>7. CASE x > width - Cell(level)
    BY <1>7, <1>6, <1>4, <1>2, <1>1 DEF Printable, x
<1>8. CASE ~(x > width - Cell(level))
  <2>1. Printable = [x |-> x, y |-> penY, touched |-> Glyph(penX, penY), mishap |-> mishap]
    BY <1>8 DEF Printable, x
  <2>2. x + Cell(level) <= width
    BY <1>8, <1>3, <1>2
  <2> QED
    BY <2>1, <2>2, <1>1, <1>2, <1>3, <1>4, <1>5 DEF PenFits, Tidy
<1> QED
    BY <1>7, <1>8

(* The square that is erased is on the screen: it is as wide as a glyph is *)
(* high, which is no more than the two cells right of the pen's new place. *)
LEMMA DeleteFits ==
    ASSUME ConsoleTypeOK, PenInv
    PROVE  /\ PenFits(delete_last_char)
           /\ delete_last_char.mishap = {} =>
                penX >= Cell(level) /\ delete_last_char.x = penX - Cell(level)
<1> DEFINE diff == penX - Cell(level)
           x == diff % Word16
           a == x + CHAR_HEIGHT * level - 1
           b == penY + CHAR_HEIGHT * level - 1
<1>1. level \in Levels /\ mishap \subseteq Mishaps
      /\ penX \in 0..(Word16 - 1) /\ penY \in 0..(height - 3 * CHAR_HEIGHT)
    BY DEF ConsoleTypeOK, Mishaps
<1>2. /\ Cell(level) \in Nat /\ Cell(level) >= 1 /\ width + 2 * Cell(level) < Word16
      /\ CHAR_HEIGHT * level \in Nat /\ CHAR_HEIGHT * level >= 1 /\ CHAR_HEIGHT * level <= 3 * CHAR_HEIGHT
      /\ CHAR_HEIGHT * level <= 2 * Cell(level)
      /\ width \in Nat /\ height \in Nat /\ Pixels \in Nat /\ CHAR_HEIGHT \in Nat /\ Word16 \in Nat \ {0}
    BY <1>1, FontFacts
<1>3. x \in 0..(Word16 - 1)
  <2>1. diff \in Int
    BY <1>1, <1>2
  <2> QED
    BY <2>1, <1>2, ModRange
<1>4. penX >= Cell(level) => x = diff
    BY <1>1, <1>2, ModSmall
<1> HIDE DEF x
<1>5. a \in Nat /\ b \in Nat /\ b < height
    BY <1>1, <1>2, <1>3
<1>6. Past(a, b) \in Nat
  <2>1. b * width \in Nat
    BY <1>5, <1>2, RowsGrow
  <2> QED
    BY <2>1, <1>5 DEF Past
<1>7. ASSUME Tidy, penX >= Cell(level) PROVE x + Cell(level) <= width /\ Past(a, b) <= Pixels
  <2>1. penX + Cell(level) <= width
    BY <1>7 DEF PenInv
  <2>2. x + Cell(level) <= width /\ a < width
    BY <2>1, <1>7, <1>1, <1>2, <1>3, <1>4
  <2> QED
    BY <2>2, <1>5, PastInside
<1>8. CASE penX = 2 * Cell(level)
  <2>1. delete_last_char = [x |-> penX, y |-> penY, touched |-> 0, mishap |-> mishap \cup {"kept"}]
    BY <1>8 DEF delete_last_char
  <2> QED
    BY <2>1, <1>1, <1>2 DEF PenFits, PenInv, Tidy, Mishaps
<1>9. CASE penX # 2 * Cell(level)
  <2>1. delete_last_char = [x |-> x, y |-> penY, touched |-> Past(a, b),
                            mishap |-> IF penX < Cell(level) THEN mishap \cup {"wrapped"} ELSE mishap]
    BY <1>9 DEF delete_last_char, x
  <2>2. CASE penX < Cell(level)
    BY <2>1, <2>2, <1>1, <1>2, <1>3, <1>6 DEF PenFits, Mishaps
  <2>3. CASE penX >= Cell(level)
    <3>1. delete_last_char = [x |-> x, y |-> penY, touched |-> Past(a, b), mishap |-> mishap]
      BY <2>1, <2>3, <1>1, <1>2
    <3> QED
      BY <3>1, <2>3, <1>1, <1>2, <1>3, <1>4, <1>6, <1>7 DEF PenFits, Tidy
  <2> QED
    BY <2>2, <2>3, <1>1, <1>2
<1> QED
    BY <1>8, <1>9

(* A remainder counts up to the modulus and starts over, and counts back.  *)
LEMMA Wraps ==
    ASSUME NEW m \in Nat, NEW c \in Nat \ {0}
    PROVE  /\ m % c \in 0..(c - 1)
           /\ (m + 1) % c = IF (m % c) + 1 = c THEN 0 ELSE (m % c) + 1
           /\ m >= 1 /\ m % c >= 1 => (m - 1) % c = (m % c) - 1
<1> DEFINE q == m \div c
           r == m % c
<1>1. q \in Int /\ r \in 0..(c - 1) /\ m = c * q + r
    OBVIOUS
<1> HIDE DEF q, r
<1>2. ASSUME r + 1 = c PROVE (m + 1) % c = 0
  <2>1. m + 1 = c * (q + 1) + 0
    BY <1>1, <1>2
  <2> QED
    BY <2>1, <1>1
<1>3. ASSUME r + 1 # c PROVE (m + 1) % c = r + 1
  <2>1. m + 1 = c * q + (r + 1) /\ r + 1 \in 0..(c - 1)
    BY <1>1, <1>3
  <2> QED
    BY <2>1, <1>1
<1>4. ASSUME r >= 1 PROVE (m - 1) % c = r - 1
  <2>1. m - 1 = c * q + (r - 1) /\ r - 1 \in 0..(c - 1)
    BY <1>1, <1>4
  <2> QED
    BY <2>1, <1>1
<1>5. (m + 1) % c = IF r + 1 = c THEN 0 ELSE r + 1
    BY <1>2, <1>3
<1> QED
    BY <1>1, <1>4, <1>5 DEF r

(* How many cells of a size a row has.                                     *)
LEMMA CellsOfRow ==
    ASSUME NEW size \in Nat, size >= 1, size <= width
    PROVE  \E c \in 1..width : c * size <= width /\ (c + 1) * size > width
<1> DEFINE q == width \div size
           r == width % size
<1>1. q \in Int /\ r \in 0..(size - 1) /\ width = size * q + r /\ width \in Nat
    BY ConsoleAssumption
<1> HIDE DEF q, r
<1>2. q >= 1
    BY <1>1
<1>3. q * size <= width /\ (q + 1) * size > width
    BY <1>1
<1>4. q <= width
  <2>1. q * 1 <= q * size
    BY <1>1, <1>2
  <2> QED
    BY <2>1, <1>1, <1>3
<1> QED
    BY <1>1, <1>2, <1>3, <1>4

(* A row holds Columns cells of the font, and no more.                     *)
LEMMA ColumnsFacts ==
    ASSUME level \in Levels
    PROVE  /\ Columns \in Nat \ {0}
           /\ Columns * Cell(level) <= width /\ (Columns + 1) * Cell(level) > width
<1>1. \E c \in 1..width : c * Cell(level) <= width /\ (c + 1) * Cell(level) > width
  <2> DEFINE s == Cell(level)
  <2>1. s \in Nat /\ s >= 1 /\ s <= width
    BY FontFacts
  <2> HIDE DEF s
  <2>2. \E c \in 1..width : c * s <= width /\ (c + 1) * s > width
    BY <2>1, CellsOfRow
  <2> QED
    BY <2>2 DEF s
<1>2. Columns \in 1..width /\ Columns * Cell(level) <= width /\ (Columns + 1) * Cell(level) > width
    BY <1>1 DEF Columns
<1> QED
    BY <1>2, FontFacts

(* The cells of the row from the pen on: a pen in the last of them has no  *)
(* room for another, and one before it has.                                *)
LEMMA CellFacts ==
    ASSUME level \in Levels, NEW k \in Nat, k < Columns
    PROVE  /\ k * Cell(level) \in Nat /\ k * Cell(level) + Cell(level) <= width
           /\ k + 1 = Columns <=> k * Cell(level) + 2 * Cell(level) > width
           /\ (k + 1) * Cell(level) = k * Cell(level) + Cell(level)
           /\ k >= 1 => (k - 1) * Cell(level) = k * Cell(level) - Cell(level)
           /\ k * Cell(level) >= Cell(level) => k >= 1
<1> DEFINE s == Cell(level)
<1>1. s \in Nat /\ s >= 1 /\ width \in Nat
    BY FontFacts
<1>2. Columns \in Nat /\ Columns * s <= width /\ (Columns + 1) * s > width
    BY ColumnsFacts
<1> HIDE DEF s
<1>3. k * s \in Nat /\ (k + 1) * s = k * s + s /\ (k + 2) * s = k * s + 2 * s
      /\ (k >= 1 => (k - 1) * s = k * s - s)
    BY <1>1
<1>4. (k + 1) * s <= Columns * s
    BY <1>1, <1>2, RowsGrow
<1>5. ASSUME k + 1 = Columns PROVE k * s + 2 * s > width
    BY <1>5, <1>3, <1>2
<1>6. ASSUME k + 1 # Columns PROVE k * s + 2 * s <= width
  <2>1. k + 2 <= Columns
    BY <1>6, <1>2
  <2>2. (k + 2) * s <= Columns * s
    BY <2>1, <1>1, <1>2, RowsGrow
  <2>3. (k + 2) * s \in Nat /\ Columns * s \in Nat
    BY <1>1, <1>2, RowsGrow
  <2> QED
    BY <2>2, <2>3, <1>1, <1>2, <1>3
<1>7. k * s >= s => k >= 1
    BY <1>1
<1>8. (k + 1) * s \in Nat /\ Columns * s \in Nat
    BY <1>1, <1>2, RowsGrow
<1> QED
    BY <1>1, <1>2, <1>3, <1>4, <1>5, <1>6, <1>7, <1>8 DEF s

---------------------------------------------------------------------------
(* The pen's place in its row, as the line has it.                         *)
Behind == (line.start + line.i) % Columns

(* The inductive invariant: EchoMatchesLine alone says nothing of the room *)
(* the next character has.                                                 *)
ConsoleInv == ConsoleTypeOK /\ PenInv /\ EchoMatchesLine

(* With the level kept, so are the cells and their number.                 *)
LEMMA SameLevel ==
    ASSUME level' = level
    PROVE  Cell(level') = Cell(level) /\ Columns' = Columns
<1>1. Cell(level)' = Cell(level)
    BY DEF Cell
<1> QED
    BY <1>1, Zenon DEF Columns, Cell

(* Types and the pen's room, from where an operation leaves the pen.       *)
LEMMA MoveFits ==
    ASSUME NEW pen, PenFits(pen), Move(pen), level' = level, level \in Levels,
           line' \in [on : BOOLEAN, start : Prompts \cup {0}, i : 0..MaxLine]
    PROVE  ConsoleTypeOK' /\ PenInv'
<1>1. Cell(level') = Cell(level)
    BY DEF Cell
<1> QED
    BY <1>1 DEF PenFits, Move, ConsoleTypeOK, PenInv, Tidy, Mishaps, Pixels

(* No line is read.                                                        *)
LEMMA NoLineType == NoLine \in [on : BOOLEAN, start : Prompts \cup {0}, i : 0..MaxLine]
BY ConsoleAssumption DEF NoLine

(* The line while it is read.                                              *)
LEMMA LineFacts ==
    ASSUME ConsoleTypeOK
    PROVE  /\ line.start \in Nat /\ line.i \in Nat /\ line.on \in BOOLEAN
           /\ line.start + line.i \in Nat
<1>1. Prompts \subseteq Nat /\ MaxLine \in Nat
    BY ConsoleAssumption
<1>2. line.start \in Prompts \cup {0} /\ line.i \in 0..MaxLine /\ line.on \in BOOLEAN
    BY DEF ConsoleTypeOK
<1>3. line.start \in Nat
  <2>1. CASE line.start \in Prompts
    BY <2>1, <1>1, Zenon
  <2>2. CASE line.start = 0
    BY <2>2
  <2> QED
    BY <2>1, <2>2, <1>2
<1> QED
    BY <1>1, <1>2, <1>3

(* What one character more or less does to the place in the row.           *)
LEMMA BehindFacts ==
    ASSUME ConsoleTypeOK
    PROVE  /\ Behind \in Nat /\ Behind < Columns
           /\ (line.start + line.i + 1) % Columns = IF Behind + 1 = Columns THEN 0 ELSE Behind + 1
           /\ line.i > 0 /\ Behind >= 1 => ((line.start + line.i) - 1) % Columns = Behind - 1
<1> DEFINE m == line.start + line.i
           c == Columns
<1>1. m \in Nat /\ c \in Nat \ {0} /\ (line.i > 0 => m >= 1)
    BY LineFacts, ColumnsFacts DEF ConsoleTypeOK
<1> HIDE DEF m, c
<1>2. /\ m % c \in 0..(c - 1)
      /\ (m + 1) % c = IF (m % c) + 1 = c THEN 0 ELSE (m % c) + 1
      /\ m >= 1 /\ m % c >= 1 => (m - 1) % c = (m % c) - 1
    BY <1>1, Wraps
<1>3. m % c \in Nat /\ m % c < c
    BY <1>1, <1>2
<1>4. Behind = m % c
    BY DEF Behind, m, c
<1>5. /\ Behind \in Nat /\ Behind < c
      /\ (m + 1) % c = IF Behind + 1 = c THEN 0 ELSE Behind + 1
      /\ line.i > 0 /\ Behind >= 1 => (m - 1) % c = Behind - 1
    BY <1>1, <1>2, <1>3, <1>4
<1> QED
    BY <1>5 DEF m, c

(* A character that is echoed puts the pen one cell further, or into the   *)
(* next row, as it does the line.                                          *)
LEMMA EchoCharKeeps ==
    ASSUME ConsoleInv, EchoChar
    PROVE  ConsoleInv'
<1> USE DEF ConsoleInv
<1>1. line.on /\ line.i < MaxLine /\ Move(Printable) /\ level' = level
      /\ line' = [line EXCEPT !.i = @ + 1]
    BY DEF EchoChar
<1>2. level \in Levels /\ line \in [on : BOOLEAN, start : Prompts \cup {0}, i : 0..MaxLine]
    BY DEF ConsoleTypeOK
<1>3. line' \in [on : BOOLEAN, start : Prompts \cup {0}, i : 0..MaxLine]
    BY <1>1, <1>2, ConsoleAssumption
<1>4. ConsoleTypeOK' /\ PenInv'
    BY <1>1, <1>2, <1>3, PrintableFits, MoveFits
<1>5. ASSUME mishap' = {} PROVE penX' = ((line.start + line.i + 1) % Columns) * Cell(level)
  <2> DEFINE k == Behind
  <2>1. mishap = {} /\ Tidy
    BY <1>1, <1>5, PrintableFits DEF PenFits, Move, Tidy
  <2>2. penX = k * Cell(level)
    BY <2>1, <1>1 DEF EchoMatchesLine, Behind
  <2>3. k \in Nat /\ k < Columns
      /\ (line.start + line.i + 1) % Columns = IF k + 1 = Columns THEN 0 ELSE k + 1
    BY BehindFacts
  <2>4. penX' = IF penX + 2 * Cell(level) <= width THEN penX + Cell(level) ELSE 0
    BY <1>1, <2>1, PrintableFits DEF Move
  <2> HIDE DEF k
  <2>5. /\ k + 1 = Columns <=> k * Cell(level) + 2 * Cell(level) > width
        /\ (k + 1) * Cell(level) = k * Cell(level) + Cell(level)
        /\ k * Cell(level) \in Nat
    BY <2>3, <1>2, CellFacts
  <2>6. Cell(level) \in Nat /\ width \in Nat /\ Columns \in Nat
    BY <1>2, FontFacts, ColumnsFacts
  <2>7. CASE k + 1 = Columns
    <3>1. penX' = 0 /\ (line.start + line.i + 1) % Columns = 0
      BY <2>7, <2>2, <2>3, <2>4, <2>5, <2>6
    <3> QED
      BY <3>1, <2>6
  <2>8. CASE k + 1 # Columns
    <3>1. penX' = k * Cell(level) + Cell(level) /\ (line.start + line.i + 1) % Columns = k + 1
      BY <2>8, <2>2, <2>3, <2>4, <2>5, <2>6
    <3> QED
      BY <3>1, <2>5
  <2> QED
    BY <2>7, <2>8
<1>6. line'.start + line'.i = line.start + line.i + 1
    BY <1>1, <1>2, LineFacts
<1>7. EchoMatchesLine'
    BY <1>1, <1>5, <1>6, SameLevel DEF EchoMatchesLine
<1> QED
    BY <1>4, <1>7

(* delete_last_char takes the pen one cell back, or to the end of the row  *)
(* before.                                                                 *)
LEMMA EchoBackspaceKeeps ==
    ASSUME ConsoleInv, EchoBackspace
    PROVE  ConsoleInv'
<1> USE DEF ConsoleInv
<1>1. line.on /\ line.i > 0 /\ Move(delete_last_char) /\ level' = level
      /\ line' = [line EXCEPT !.i = @ - 1]
    BY DEF EchoBackspace
<1>2. level \in Levels /\ line \in [on : BOOLEAN, start : Prompts \cup {0}, i : 0..MaxLine]
    BY DEF ConsoleTypeOK
<1>3. line' \in [on : BOOLEAN, start : Prompts \cup {0}, i : 0..MaxLine]
    BY <1>1, <1>2, ConsoleAssumption
<1>4. ConsoleTypeOK' /\ PenInv'
    BY <1>1, <1>2, <1>3, DeleteFits, MoveFits
<1>5. ASSUME mishap' = {} PROVE penX' = (((line.start + line.i) - 1) % Columns) * Cell(level)
  <2> DEFINE k == Behind
  <2>1. mishap = {} /\ penX >= Cell(level) /\ penX' = penX - Cell(level)
    BY <1>1, <1>5, DeleteFits DEF PenFits, Move
  <2>2. penX = k * Cell(level)
    BY <2>1, <1>1 DEF EchoMatchesLine, Behind
  <2>3. k \in Nat /\ k < Columns
    BY BehindFacts
  <2>4. k >= 1 /\ (k - 1) * Cell(level) = penX'
    <3> HIDE DEF k
    <3>1. /\ k >= 1 => (k - 1) * Cell(level) = k * Cell(level) - Cell(level)
          /\ k * Cell(level) >= Cell(level) => k >= 1
      BY <2>3, <1>2, CellFacts
    <3> QED
      BY <3>1, <2>1, <2>2
  <2>5. ((line.start + line.i) - 1) % Columns = k - 1
    BY <1>1, <2>4, BehindFacts
  <2> QED
    BY <2>4, <2>5
<1>6. line'.start + line'.i = (line.start + line.i) - 1
    BY <1>1, <1>2, LineFacts
<1>7. EchoMatchesLine'
    BY <1>1, <1>5, <1>6, SameLevel DEF EchoMatchesLine
<1> QED
    BY <1>4, <1>7

(* An operation that leaves the line leaves nothing to compare.            *)
LEMMA LineLeft ==
    ASSUME line' = NoLine
    PROVE  EchoMatchesLine'
BY DEF NoLine, EchoMatchesLine

(* Other output leaves the pen in a row and ends the comparison with the   *)
(* line.                                                                   *)
LEMMA OutputKeeps ==
    ASSUME ConsoleInv, PrintChar \/ PrintNewline \/ EchoEnter
    PROVE  ConsoleInv'
<1> USE DEF ConsoleInv
<1>1. level \in Levels /\ level' = level /\ line' = NoLine
    BY DEF ConsoleTypeOK, PrintChar, PrintNewline, EchoEnter
<1>2. PICK pen : Move(pen) /\ PenFits(pen)
  <2>1. CASE PrintChar
    BY <2>1, PrintableFits DEF PrintChar
  <2>2. CASE PrintNewline \/ EchoEnter
    <3>1. Pixels \in Nat
      BY <1>1, FontFacts
    <3>2. PenFits(Newline(0))
      BY <3>1, NewlineFits
    <3> QED
      BY <2>2, <3>2 DEF PrintNewline, EchoEnter
  <2> QED
    BY <2>1, <2>2
<1>3. ConsoleTypeOK' /\ PenInv'
    BY <1>1, <1>2, MoveFits, NoLineType
<1> QED
    BY <1>1, <1>3, LineLeft

(* Clearing the screen and a change of the font put the pen into a row.    *)
LEMMA ScreenKeeps ==
    ASSUME ConsoleInv, ngc_paint_screen \/ \E l \in Levels : changeFontSize(l)
    PROVE  ConsoleInv'
<1> USE DEF ConsoleInv
<1>1. level \in Levels /\ line' = NoLine /\ mishap \subseteq Mishaps /\ touched \in Nat
      /\ penX \in 0..(Word16 - 1) /\ penY \in 0..(height - 3 * CHAR_HEIGHT)
    BY DEF ConsoleTypeOK, ngc_paint_screen, changeFontSize, Mishaps
<1>2. CASE ngc_paint_screen
  <2>1. penX' = 0 /\ penY' = 0 /\ touched' = Pixels /\ level' = level /\ mishap' = mishap
    BY <1>2 DEF ngc_paint_screen
  <2>2. Pixels \in Nat /\ Cell(level) <= width /\ 3 * CHAR_HEIGHT < height /\ Cell(level) \in Nat
        /\ Word16 \in Nat \ {0} /\ height \in Nat /\ CHAR_HEIGHT \in Nat /\ width \in Nat
    BY <1>1, FontFacts
  <2>3. Cell(level)' = Cell(level) /\ Pixels' = Pixels
    BY <2>1 DEF Cell, Pixels
  <2>4. PenInv'
    BY <2>1, <2>2, <2>3 DEF PenInv
  <2>5. ConsoleTypeOK'
    BY <1>1, <2>1, <2>2, NoLineType DEF ConsoleTypeOK, Mishaps
  <2> QED
    BY <1>1, <2>4, <2>5, LineLeft
<1>3. ASSUME NEW l \in Levels, changeFontSize(l) PROVE ConsoleInv'
  <2>1. /\ level' = l /\ penX' = penX /\ penY' = penY /\ touched' = touched
        /\ mishap' = IF penX > width - Cell(l) THEN mishap \cup {"margin"} ELSE mishap
    BY <1>3 DEF changeFontSize
  <2>2. Cell(l) \in Nat /\ width \in Nat
    BY FontFacts
  <2>3. Cell(level)' = Cell(l) /\ Pixels' = Pixels
    BY <2>1 DEF Cell, Pixels
  <2>4. ASSUME Tidy' PROVE penX' + Cell(level)' <= width /\ touched' <= Pixels'
    <3>1. ~(penX > width - Cell(l)) /\ mishap' = mishap
      BY <2>1, <2>4 DEF Tidy
    <3> QED
      BY <3>1, <1>1, <2>1, <2>2, <2>3, <2>4 DEF PenInv, Tidy
  <2>5. ConsoleTypeOK'
    BY <1>1, <2>1, NoLineType DEF ConsoleTypeOK, Mishaps
  <2> QED
    BY <1>1, <2>4, <2>5, LineLeft DEF PenInv
<1> QED
    BY <1>2, <1>3

(* The line begins behind the prompt, in the row of the pen.               *)
LEMMA BeginLineKeeps ==
    ASSUME ConsoleInv, NEW n \in Prompts, BeginLine(n)
    PROVE  ConsoleInv'
<1> USE DEF ConsoleInv
<1>1. /\ penX = n * Cell(level) /\ line' = [on |-> TRUE, start |-> n, i |-> 0]
      /\ penX' = penX /\ penY' = penY /\ level' = level /\ touched' = touched /\ mishap' = mishap
    BY DEF BeginLine
<1>2. level \in Levels /\ n \in Nat
    BY ConsoleAssumption DEF ConsoleTypeOK
<1>3. line' \in [on : BOOLEAN, start : Prompts \cup {0}, i : 0..MaxLine]
    BY <1>1, ConsoleAssumption
<1>4. Cell(level') = Cell(level) /\ Columns' = Columns
    BY <1>1, SameLevel
<1>5. ConsoleTypeOK'
    BY <1>1, <1>3 DEF ConsoleTypeOK
<1>6. PenInv'
    BY <1>1, <1>4 DEF PenInv, Tidy, Pixels
<1>7. ASSUME mishap = {} PROVE (n + 0) % Columns = n
  <2>1. n * Cell(level) + Cell(level) <= width
    BY <1>7, <1>1 DEF PenInv, Tidy
  <2>2. Cell(level) \in Nat /\ Cell(level) >= 1 /\ width \in Nat /\ Columns \in Nat \ {0}
        /\ (Columns + 1) * Cell(level) > width
    BY <1>2, FontFacts, ColumnsFacts
  <2>3. n < Columns
    <3>1. SUFFICES ASSUME Columns + 1 <= n + 1 PROVE FALSE
      BY <1>2, <2>2
    <3> DEFINE c == Columns + 1
               s == Cell(level)
    <3>2. c \in Nat /\ c <= n + 1 /\ s \in Nat
      BY <3>1, <2>2
    <3>3. c * s > width
      BY <2>2
    <3> HIDE DEF c, s
    <3>4. c * s <= (n + 1) * s /\ c * s \in Nat
      BY <3>2, <1>2, RowsGrow
    <3>5. (n + 1) * s = n * s + s /\ n * s \in Nat
      BY <3>2, <1>2
    <3>6. n * s + s <= width
      BY <2>1 DEF s
    <3> QED
      BY <3>2, <3>3, <3>4, <3>5, <3>6, <2>2
  <2>4. n % Columns = n
    BY <2>2, <2>3, <1>2, ModSmall
  <2> QED
    BY <2>4, <1>2
<1>8. line'.start = n /\ line'.i = 0
    BY <1>1
<1>9. EchoMatchesLine'
    BY <1>1, <1>4, <1>7, <1>8 DEF EchoMatchesLine
<1> QED
    BY <1>5, <1>6, <1>9

(* Every operation of the console keeps ConsoleInv.                        *)
LEMMA ConsoleInvHolds == ConsoleSpec => []ConsoleInv
<1>1. ConsoleInit => ConsoleInv
  <2> SUFFICES ASSUME ConsoleInit PROVE ConsoleInv
    OBVIOUS
  <2>1. level = 1 /\ 1 \in Levels
    BY DEF ConsoleInit, Levels
  <2>2. Cell(level) <= width /\ 3 * CHAR_HEIGHT < height /\ Cell(level) \in Nat /\ Pixels \in Nat
        /\ Word16 \in Nat \ {0} /\ height \in Nat /\ CHAR_HEIGHT \in Nat /\ width \in Nat
    BY <2>1, FontFacts
  <2>3. ConsoleTypeOK /\ PenInv
    BY <2>1, <2>2, NoLineType DEF ConsoleInit, ConsoleTypeOK, PenInv
  <2>4. EchoMatchesLine
    BY DEF ConsoleInit, NoLine, EchoMatchesLine
  <2> QED
    BY <2>3, <2>4 DEF ConsoleInv
<1>2. ASSUME ConsoleInv, ConsoleNext PROVE ConsoleInv'
    BY <1>2, OutputKeeps, ScreenKeeps, BeginLineKeeps, EchoCharKeeps, EchoBackspaceKeeps DEF ConsoleNext
<1>3. ASSUME ConsoleInv, UNCHANGED consoleVars PROVE ConsoleInv'
  <2>1. /\ penX' = penX /\ penY' = penY /\ level' = level /\ line' = line
        /\ touched' = touched /\ mishap' = mishap
    BY <1>3 DEF consoleVars
  <2>2. Cell(level') = Cell(level) /\ Columns' = Columns
    BY <2>1, SameLevel
  <2> QED
    BY <1>3, <2>1, <2>2 DEF ConsoleInv, ConsoleTypeOK, PenInv, Tidy, Pixels, EchoMatchesLine
<1> QED
    BY <1>1, <1>2, <1>3, PTL DEF ConsoleSpec

(* Nothing is written behind the frame buffer, whatever is printed, erased *)
(* and painted in whatever fonts, unless the pen left the screen on one of *)
(* its sides or a larger font was scrolled (ngc_printChar,                 *)
(* delete_last_char, ngc_printNewline).                                    *)
THEOREM FrameBufferCorrect == ConsoleSpec => []FrameBufferKept
<1>1. ConsoleInv => FrameBufferKept
    BY DEF ConsoleInv, PenInv, Tidy, FrameBufferKept
<1> QED
    BY <1>1, ConsoleInvHolds, PTL

(* The pen stands behind what the line holds, for lines of any length over *)
(* any number of rows: sys_read_handler's echo shows what will be read.    *)
THEOREM EchoCorrect == ConsoleSpec => []EchoMatchesLine
<1>1. ConsoleInv => EchoMatchesLine
    BY DEF ConsoleInv
<1> QED
    BY <1>1, ConsoleInvHolds, PTL

---------------------------------------------------------------------------
(***************************************************************************)
(* Snakes.                                                                 *)
(*                                                                         *)
(* For every screen on which new snakes fit, and every length: a head that *)
(* is alive at the end of a round is free (LiveHeadsFree), and food lies   *)
(* under no snake (FoodFree).                                              *)
(***************************************************************************)

(* The game as it runs, without fairness: the theorems assume no more.     *)
SnakesSpec == SnakesInit /\ [][SnakesNext]_snakeVars

(* A segment, wherever it is.                                              *)
Squares == Int \X Int

(* A player.                                                               *)
Snake == [direction : Directions, state : BOOLEAN, body : Seq(Squares), grown : BOOLEAN]

(* A snake that is alive or in the game has a head; between games none is  *)
(* alive.                                                                  *)
SnakesTyped ==
    /\ phase \in {"over", "key", "first", "second"} /\ playersChoice \in {1, 2}
    /\ player \in [Players -> Snake]
    /\ \A p \in Players :
        /\ player[p].state => player[p].body # <<>> /\ phase # "over"
        /\ phase # "over" /\ p <= playersChoice => player[p].body # <<>>

(* The head of q is inside the borders.                                    *)
Within(q) == ~outOfBorders(q)

(* The head of q is on no other segment of q.                              *)
Uncurled(q) == \A i \in 2..Len(q.body) : q.body[1] # q.body[i]

(* Player 1 was judged: it hit nothing.                                    *)
FirstClear(pl) == pl[1].state =>
    /\ Within(pl[1]) /\ Uncurled(pl[1])
    /\ pl[2].state => \A i \in 1..Len(pl[2].body) : pl[1].body[1] # pl[2].body[i]

(* Both were judged.                                                       *)
BothClear(pl) ==
    /\ \A p \in Players : pl[p].state => Within(pl[p]) /\ Uncurled(pl[p])
    /\ pl[1].state /\ pl[2].state =>
        /\ \A i \in 1..Len(pl[1].body) : pl[2].body[1] # pl[1].body[i]
        /\ \A i \in 1..Len(pl[2].body) :
            pl[1].body[1] = pl[2].body[i] => i = Len(pl[2].body) /\ pl[2].grown

(* The inductive invariant: LiveHeadsFree at the end of a round needs what *)
(* the verdict on player 1 left for the move of player 2.                  *)
SnakesInv ==
    /\ SnakesTyped
    /\ OnePlayer
    /\ phase = "second" => FirstClear(player)
    /\ phase = "key" => BothClear(player)

---------------------------------------------------------------------------
(* The square ahead of a square.                                           *)
LEMMA FromSquare ==
    ASSUME NEW c \in Squares, NEW d \in Directions
    PROVE  From(c, d) \in Squares
<1>1. Word64 \in Nat \ {0}
    BY SnakesAssumption
<1>2. c[1] \in Int /\ c[2] \in Int
    BY DEF Squares
<1>3. Ahead[d][1] \in Int /\ Ahead[d][2] \in Int
    BY DEF Ahead, Directions
<1> DEFINE x == c[1] + Ahead[d][1]
           y == c[2] + Ahead[d][2]
<1>4. x \in Int /\ y \in Int
    BY <1>2, <1>3
<1> HIDE DEF x, y
<1>5. x % Word64 \in Int /\ y % Word64 \in Int
    BY <1>1, <1>4
<1> QED
    BY <1>5 DEF From, Squares, x, y

(* A snake after its segments moved up behind a new head, and after it was *)
(* fed.                                                                    *)
LEMMA NotEmpty ==
    ASSUME NEW S, NEW s \in Seq(S), s # <<>>
    PROVE  Len(s) \in Nat \ {0}
OBVIOUS

(* Every segment is where the one in front of it was.                      *)
LEMMA ShiftFacts ==
    ASSUME NEW body \in Seq(Squares), body # <<>>, NEW head \in Squares
    PROVE  /\ Shift(body, head) \in Seq(Squares) /\ Len(Shift(body, head)) = Len(body)
           /\ Shift(body, head) # <<>> /\ Shift(body, head)[1] = head
           /\ \A i \in 2..Len(body) : Shift(body, head)[i] = body[i - 1]
<1>1. DOMAIN body = 1..Len(body) /\ Len(body) \in Nat \ {0}
    BY NotEmpty
<1> DEFINE s == Shift(body, head)
<1>2. s = [i \in 1..Len(body) |-> IF i = 1 THEN head ELSE body[i - 1]]
    BY <1>1 DEF Shift
<1>3. ASSUME NEW i \in 1..Len(body), i # 1 PROVE i - 1 \in 1..Len(body)
    BY <1>1, <1>3
<1>4. ASSUME NEW i \in 1..Len(body) PROVE s[i] \in Squares
    BY <1>2, <1>3, <1>4
<1> QED
    BY <1>1, <1>2, <1>4

(* A snake q that was r before a move in direction d.                      *)
Moved(q, r, d) ==
    /\ q \in Snake /\ q.direction = d /\ q.state = r.state /\ q.body # <<>>
    /\ Len(q.body) # Len(r.body) => Len(q.body) = Len(r.body) + 1 /\ q.grown = TRUE
    /\ \A i \in 2..Len(r.body) : q.body[i] = r.body[i - 1]

(* updatePosition moves a snake, and increaseSnake adds one segment behind *)
(* it or none.                                                             *)
LEMMA MovedHead ==
    ASSUME NEW r \in Snake, r.body # <<>>, NEW d \in Directions
    PROVE  LET moved == [r EXCEPT !.direction = d, !.body = Shift(@, From(r.body[1], d)), !.grown = FALSE]
           IN  Moved(moved, r, d) /\ Moved(increaseSnake(moved), r, d)
<1> DEFINE head == From(r.body[1], d)
           b == Shift(r.body, head)
           moved == [r EXCEPT !.direction = d, !.body = Shift(@, head), !.grown = FALSE]
<1>1. r.body \in Seq(Squares) /\ r.body[1] \in Squares /\ Len(r.body) \in Nat \ {0}
  <2>1. r.body \in Seq(Squares)
    BY DEF Snake
  <2>2. Len(r.body) \in Nat \ {0}
    BY <2>1, NotEmpty
  <2> QED
    BY <2>1, <2>2
<1>2. head \in Squares
    BY <1>1, FromSquare
<1> HIDE DEF head
<1>3. /\ b \in Seq(Squares) /\ Len(b) = Len(r.body) /\ b # <<>>
      /\ \A i \in 2..Len(r.body) : b[i] = r.body[i - 1]
    BY <1>1, <1>2, ShiftFacts
<1>4. moved = [direction |-> d, state |-> r.state, body |-> b, grown |-> FALSE]
  <2>1. moved = [r EXCEPT !.direction = d, !.body = b, !.grown = FALSE]
    OBVIOUS
  <2> HIDE DEF b, moved
  <2> QED
    BY <2>1, <1>3 DEF Snake
<1> HIDE DEF b, moved
<1>5. moved \in Snake
    BY <1>3, <1>4 DEF Snake
<1>6. Moved(moved, r, d)
    BY <1>3, <1>4, <1>5 DEF Moved
<1>7. Moved(increaseSnake(moved), r, d)
  <2>1. CASE Len(moved.body) < MAX_LENGTH
    <3> DEFINE tail == addNewTail(moved)
               c == Append(b, tail)
    <3>1. tail \in Squares
      <4>1. Last(moved.body) \in Squares /\ Opposite[moved.direction] \in Directions
        <5>1. Len(b) \in 1..Len(b)
          BY <1>1, <1>3
        <5>2. b[Len(b)] \in Squares
          BY <5>1, <1>3
        <5> QED
          BY <5>2, <1>4 DEF Last, Opposite, Directions
      <4> QED
        BY <4>1, FromSquare DEF addNewTail
    <3>2. increaseSnake(moved) = [direction |-> d, state |-> r.state, body |-> c, grown |-> TRUE]
      <4>1. increaseSnake(moved) = [moved EXCEPT !.body = Append(@, tail), !.grown = TRUE]
        BY <2>1 DEF increaseSnake
      <4>2. [moved EXCEPT !.body = Append(@, tail), !.grown = TRUE] = [moved EXCEPT !.body = c, !.grown = TRUE]
        BY <1>4
      <4> HIDE DEF c
      <4> QED
        BY <4>1, <4>2, <1>4
    <3> HIDE DEF tail
    <3>3. /\ c \in Seq(Squares) /\ Len(c) = Len(r.body) + 1 /\ c # <<>>
          /\ \A i \in 2..Len(r.body) : c[i] = b[i]
      BY <3>1, <1>1, <1>3
    <3> HIDE DEF c
    <3>4. increaseSnake(moved) \in Snake
      BY <3>2, <3>3 DEF Snake
    <3> QED
      BY <3>2, <3>3, <3>4, <1>3 DEF Moved
  <2>2. CASE ~(Len(moved.body) < MAX_LENGTH)
    BY <2>2, <1>6 DEF increaseSnake
  <2> QED
    BY <2>1, <2>2
<1> QED
    BY <1>6, <1>7 DEF moved, head

(* The players new that were pl before p moved in direction d.             *)
MovedOne(new, pl, p, d) ==
    /\ new \in [Players -> Snake]
    /\ Moved(new[p], pl[p], d)
    /\ \A q \in Players : q # p => new[q] = pl[q]

(* Only the snake that is moved moves.                                     *)
LEMMA MovesFacts ==
    ASSUME NEW pl \in [Players -> Snake], NEW f, NEW p \in Players, NEW d \in Directions,
           pl[p].body # <<>>, NEW m \in Moves(pl, f, p, d)
    PROVE  MovedOne(m[1], pl, p, d)
<1> DEFINE head == From(pl[p].body[1], d)
           moved == [pl[p] EXCEPT !.direction = d, !.body = Shift(@, head), !.grown = FALSE]
<1>1. Moved(moved, pl[p], d) /\ Moved(increaseSnake(moved), pl[p], d)
    BY MovedHead
<1>2. m[1] = [pl EXCEPT ![p] = moved] \/ m[1] = [pl EXCEPT ![p] = increaseSnake(moved)]
  <2> DEFINE fed == [pl EXCEPT ![p] = increaseSnake(moved)]
  <2>1. Moves(pl, f, p, d) = IF head = f THEN {<<fed, g>> : g \in setFood(fed)}
                             ELSE {<<[pl EXCEPT ![p] = moved], f>>}
    BY DEF Moves
  <2> HIDE DEF fed, head, moved
  <2>2. CASE head = f
    <3>1. PICK g \in setFood(fed) : m = <<fed, g>>
      BY <2>1, <2>2
    <3> QED
      BY <3>1 DEF fed
  <2>3. CASE head # f
    BY <2>1, <2>3
  <2> QED
    BY <2>2, <2>3
<1>3. moved \in Snake /\ increaseSnake(moved) \in Snake
    BY <1>1 DEF Moved
<1> HIDE DEF moved
<1> QED
    BY <1>1, <1>2, <1>3 DEF MovedOne

(* A verdict changes who is alive and nothing else.                        *)
Verdict(new, pl, p) ==
    /\ new \in [Players -> Snake]
    /\ \A q \in Players :
         /\ new[q].body = pl[q].body /\ new[q].grown = pl[q].grown
         /\ new[q].state => pl[q].state
    /\ new[p].state =>
         /\ Within(pl[p]) /\ ~HeadOn(pl)
         /\ ~checkCollision(pl[p], pl[p]) /\ ~checkCollision(pl[p], pl[Other(p)])
    /\ new[Other(p)].state <=> pl[Other(p)].state /\ (Within(pl[p]) => ~HeadOn(pl))

(* The verdict on p, which is alive.                                       *)
LEMMA JudgedFacts ==
    ASSUME NEW pl \in [Players -> Snake], NEW p \in Players, pl[p].state = TRUE
    PROVE  Verdict(Judged(pl, p), pl, p)
<1>1. Other(p) \in Players /\ Other(p) # p
    BY DEF Other, Players
<1> DEFINE hit == checkCollision(pl[p], pl[p]) \/ checkCollision(pl[p], pl[Other(p)])
           mark(q, b) == [pl[q] EXCEPT !.state = b]
<1>2. ASSUME NEW q \in Players, NEW b \in BOOLEAN
      PROVE  /\ mark(q, b) \in Snake /\ mark(q, b).body = pl[q].body
             /\ mark(q, b).grown = pl[q].grown /\ mark(q, b).state = b
    BY DEF Snake
<1>3. CASE ~Within(pl[p])
  <2>1. Judged(pl, p) = [pl EXCEPT ![p] = mark(p, FALSE)]
    BY <1>3 DEF Judged, Within
  <2>2. /\ mark(p, FALSE) \in Snake /\ mark(p, FALSE).body = pl[p].body
        /\ mark(p, FALSE).grown = pl[p].grown /\ mark(p, FALSE).state = FALSE
    BY <1>2
  <2> HIDE DEF mark
  <2>3. \A q \in Players : Judged(pl, p)[q] = IF q = p THEN mark(p, FALSE) ELSE pl[q]
    BY <2>1
  <2>4. Judged(pl, p) \in [Players -> Snake]
    BY <2>1, <2>2
  <2> QED
    BY <1>1, <1>3, <2>2, <2>3, <2>4 DEF Verdict
<1>4. CASE Within(pl[p]) /\ HeadOn(pl)
  <2>1. Judged(pl, p) = [q \in Players |-> mark(q, FALSE)]
    BY <1>4 DEF Judged, Within
  <2>2. \A q \in Players : /\ mark(q, FALSE) \in Snake /\ mark(q, FALSE).body = pl[q].body
                           /\ mark(q, FALSE).grown = pl[q].grown /\ mark(q, FALSE).state = FALSE
    BY <1>2
  <2> HIDE DEF mark
  <2>3. \A q \in Players : Judged(pl, p)[q] = mark(q, FALSE)
    BY <2>1
  <2>4. Judged(pl, p) \in [Players -> Snake]
    BY <2>1, <2>2
  <2> QED
    BY <1>1, <1>4, <2>2, <2>3, <2>4 DEF Verdict
<1>5. CASE Within(pl[p]) /\ ~HeadOn(pl)
  <2>1. PICK b \in BOOLEAN : b = ~hit
    <3>1. CASE hit
      BY <3>1
    <3>2. CASE ~hit
      BY <3>2
    <3> QED
      BY <3>1, <3>2
  <2> DEFINE m == mark(p, b)
  <2>2. /\ m \in Snake /\ m.body = pl[p].body /\ m.grown = pl[p].grown /\ m.state = b
    BY <1>2
  <2>3. Judged(pl, p) = [pl EXCEPT ![p] = m]
    BY <1>5, <2>1 DEF Judged, Within
  <2> HIDE DEF mark, m
  <2>4. \A q \in Players : Judged(pl, p)[q] = IF q = p THEN m ELSE pl[q]
    BY <2>3
  <2>5. Judged(pl, p) \in [Players -> Snake]
    BY <2>2, <2>3
  <2> QED
    BY <1>1, <1>5, <2>1, <2>2, <2>4, <2>5 DEF Verdict
<1> QED
    BY <1>3, <1>4, <1>5

---------------------------------------------------------------------------
(* The players after a move of p that was judged.                          *)
LEMMA MoveOnFacts ==
    ASSUME SnakesTyped, phase # "over", NEW p \in Players, NEW from, NEW to, MoveOn(p, from, to),
           player[p].state = TRUE
    PROVE  \E pl \in [Players -> Snake] :
            /\ MovedOne(pl, player, p, player[p].direction)
            /\ pl[p].state = TRUE
            /\ Verdict(player', pl, p)
<1>1. PICK m \in Moves(player, food, p, player[p].direction) : player' = Judged(m[1], p)
    BY DEF MoveOn
<1>2. player \in [Players -> Snake] /\ player[p].body # <<>> /\ player[p].direction \in Directions
    BY DEF SnakesTyped, Snake
<1>3. MovedOne(m[1], player, p, player[p].direction)
    BY <1>1, <1>2, MovesFacts, Zenon
<1>4. m[1] \in [Players -> Snake] /\ m[1][p].state = TRUE
    BY <1>3 DEF Moved, MovedOne
<1>5. Verdict(player', m[1], p)
    BY <1>1, <1>4, JudgedFacts, Zenon
<1> QED
    BY <1>3, <1>4, <1>5

(* A move and its verdict keep the types.                                  *)
LEMMA MoveOnTyped ==
    ASSUME SnakesTyped, phase # "over", NEW p \in Players, NEW from, NEW to \in {"first", "second", "key"},
           MoveOn(p, from, to)
    PROVE  SnakesTyped'
<1>1. phase' = to /\ playersChoice' = playersChoice
    BY DEF MoveOn
<1>2. CASE player[p].state = TRUE
  <2>1. PICK pl \in [Players -> Snake] :
            /\ MovedOne(pl, player, p, player[p].direction)
            /\ pl[p].state = TRUE
            /\ Verdict(player', pl, p)
    BY <1>2, MoveOnFacts
  <2>2. /\ player' \in [Players -> Snake]
        /\ \A q \in Players : player'[q].body = pl[q].body /\ (player'[q].state => pl[q].state)
    BY <2>1 DEF Verdict
  <2>3. pl[p].body # <<>> /\ \A q \in Players : q # p => pl[q] = player[q]
    BY <2>1 DEF Moved, MovedOne
  <2> QED
    BY <1>1, <2>2, <2>3, <2>1 DEF SnakesTyped
<1>3. CASE player[p].state # TRUE
  <2>1. player[p].state = FALSE
    BY <1>3 DEF SnakesTyped, Snake
  <2>2. player' = player
    BY <2>1 DEF MoveOn
  <2> QED
    BY <1>1, <2>2 DEF SnakesTyped
<1> QED
    BY <1>2, <1>3

(* There are two players.                                                  *)
LEMMA TwoPlayers ==
    /\ 1 \in Players /\ 2 \in Players /\ Other(1) = 2 /\ Other(2) = 1
    /\ \A p \in Players : p = 1 \/ p = 2
BY DEF Players, Other

(* A head that did not collide is on no segment of the other snake but its *)
(* head, and the heads are not on each other.                              *)
LEMMA Missed ==
    ASSUME NEW q \in Snake, NEW r \in Snake, r.state, ~checkCollision(q, r)
    PROVE  \A i \in 2..Len(r.body) : q.body[1] # r.body[i]
BY DEF checkCollision

(* A segment is the head or behind it.                                     *)
LEMMA BodyIndices ==
    ASSUME NEW q \in Snake, q.body # <<>>
    PROVE  Len(q.body) \in Nat \ {0} /\ \A i \in 1..Len(q.body) : i = 1 \/ i \in 2..Len(q.body)
<1>1. q.body \in Seq(Squares)
    BY DEF Snake
<1>2. Len(q.body) \in Nat \ {0}
    BY <1>1, NotEmpty
<1> QED
    BY <1>2

(* After the verdict on player 1 it is clear of everything alive.          *)
LEMMA FirstMoves ==
    ASSUME SnakesTyped, phase = "first", MoveOn(1, "first", "second")
    PROVE  FirstClear(player')
<1>1. CASE player[1].state = TRUE
  <2>1. PICK pl \in [Players -> Snake] :
            /\ MovedOne(pl, player, 1, player[1].direction)
            /\ pl[1].state = TRUE
            /\ Verdict(player', pl, 1)
    BY <1>1, MoveOnFacts, TwoPlayers
  <2> DEFINE new == player'
  <2>2. SUFFICES ASSUME new[1].state
                 PROVE  /\ Within(new[1]) /\ Uncurled(new[1])
                        /\ new[2].state => \A i \in 1..Len(new[2].body) : new[1].body[1] # new[2].body[i]
    BY DEF FirstClear
  <2>3. /\ \A q \in Players : new[q].body = pl[q].body /\ (new[q].state => pl[q].state)
        /\ Within(pl[1]) /\ ~HeadOn(pl)
        /\ ~checkCollision(pl[1], pl[1]) /\ ~checkCollision(pl[1], pl[2])
    BY <2>1, <2>2, TwoPlayers DEF Verdict
  <2> HIDE DEF new
  <2>4. Within(new[1])
    BY <2>3, TwoPlayers DEF Within, outOfBorders
  <2>5. Uncurled(new[1])
    BY <2>1, <2>3, Missed, TwoPlayers DEF Uncurled
  <2>6. ASSUME new[2].state, NEW i \in 1..Len(new[2].body) PROVE new[1].body[1] # new[2].body[i]
    <3>1. pl[2].state /\ pl[2] \in Snake /\ pl[2] = player[2] /\ new[2].body = pl[2].body
          /\ new[1].body = pl[1].body
      BY <2>1, <2>3, <2>6, TwoPlayers DEF MovedOne
    <3>2. pl[2].body # <<>>
      BY <3>1, TwoPlayers DEF SnakesTyped
    <3>3. i = 1 \/ i \in 2..Len(pl[2].body)
      BY <3>1, <3>2, <2>6, BodyIndices
    <3>4. CASE i = 1
      BY <3>1, <3>4, <2>1, <2>3 DEF HeadOn
    <3>5. CASE i \in 2..Len(pl[2].body)
      BY <3>1, <3>5, <2>1, <2>3, Missed, TwoPlayers
    <3> QED
      BY <3>3, <3>4, <3>5
  <2> QED
    BY <2>4, <2>5, <2>6
<1>2. CASE player[1].state # TRUE
  <2>1. player[1].state = FALSE
    BY <1>2, TwoPlayers DEF SnakesTyped, Snake
  <2> QED
    BY <2>1 DEF MoveOn, FirstClear
<1> QED
    BY <1>1, <1>2

(* The verdict on player 2 leaves both clear, but for a segment that grew  *)
(* behind player 2 after player 1 was judged.                              *)
LEMMA SecondMoves ==
    ASSUME SnakesTyped, phase = "second", FirstClear(player), MoveOn(2, "second", "key")
    PROVE  BothClear(player')
<1>1. CASE player[2].state = TRUE
  <2>1. PICK pl \in [Players -> Snake] :
            /\ MovedOne(pl, player, 2, player[2].direction)
            /\ pl[2].state = TRUE
            /\ Verdict(player', pl, 2)
    BY <1>1, MoveOnFacts, TwoPlayers
  <2> DEFINE new == player'
  <2>2. /\ pl[1] = player[1] /\ new[1].body = player[1].body
        /\ new[2].body = pl[2].body /\ new[2].grown = pl[2].grown
        /\ new[1].state => player[1].state
    BY <2>1, TwoPlayers DEF Verdict, MovedOne
  <2>3. new[2].state =>
            /\ Within(pl[2]) /\ ~HeadOn(pl)
            /\ ~checkCollision(pl[2], pl[2]) /\ ~checkCollision(pl[2], pl[1])
    BY <2>1, TwoPlayers DEF Verdict
  <2> HIDE DEF new
  <2>4. new[1].state => Within(new[1]) /\ Uncurled(new[1])
    BY <2>2 DEF FirstClear, Within, outOfBorders, Uncurled
  <2>5. new[2].state => Within(new[2]) /\ Uncurled(new[2])
    <3>1. new[2].state => Within(new[2])
      BY <2>2, <2>3 DEF Within, outOfBorders
    <3>2. new[2].state => Uncurled(new[2])
      BY <2>1, <2>2, <2>3, Missed, TwoPlayers DEF Uncurled
    <3> QED
      BY <3>1, <3>2
  <2>6. ASSUME new[1].state, new[2].state
        PROVE  /\ \A i \in 1..Len(new[1].body) : new[2].body[1] # new[1].body[i]
               /\ \A i \in 1..Len(new[2].body) :
                    new[1].body[1] = new[2].body[i] => i = Len(new[2].body) /\ new[2].grown
    <3>1. /\ player[1].state /\ player[1] \in Snake /\ player[1].body # <<>>
          /\ pl[1] = player[1] /\ pl[2] \in Snake /\ pl[2].body # <<>>
          /\ player[2] \in Snake /\ player[2].body # <<>>
          /\ Moved(pl[2], player[2], player[2].direction)
      BY <2>1, <2>2, <2>6, <1>1, TwoPlayers DEF SnakesTyped, MovedOne, Moved
    <3>2. pl[1].body[1] # pl[2].body[1]
      BY <3>1, <2>1, <2>3, <2>6 DEF HeadOn
    <3>3. ASSUME NEW i \in 1..Len(player[1].body) PROVE pl[2].body[1] # player[1].body[i]
      <4>1. i = 1 \/ i \in 2..Len(player[1].body)
        BY <3>1, BodyIndices
      <4>2. CASE i = 1
        BY <4>2, <3>1, <3>2
      <4>3. CASE i \in 2..Len(player[1].body)
        BY <4>3, <3>1, <2>3, <2>6, Missed
      <4> QED
        BY <4>1, <4>2, <4>3
    <3>4. ASSUME NEW i \in 1..Len(pl[2].body), player[1].body[1] = pl[2].body[i]
          PROVE  i = Len(pl[2].body) /\ pl[2].grown
      <4>1. Len(pl[2].body) \in Nat \ {0} /\ Len(player[2].body) \in Nat \ {0}
        BY <3>1, BodyIndices
      <4>2. i # 1
        BY <3>1, <3>2, <3>4
      <4>3. \A j \in 1..Len(player[2].body) : player[1].body[1] # player[2].body[j]
        BY <3>1, <1>1 DEF FirstClear
      <4>4. i \notin 2..Len(player[2].body)
        <5>1. SUFFICES ASSUME i \in 2..Len(player[2].body) PROVE FALSE
          OBVIOUS
        <5>2. pl[2].body[i] = player[2].body[i - 1]
          BY <5>1, <3>1 DEF Moved
        <5>3. i - 1 \in 1..Len(player[2].body)
          BY <5>1, <4>1
        <5> QED
          BY <5>2, <5>3, <4>3, <3>4
      <4>5. Len(player[2].body) # Len(pl[2].body)
        BY <4>1, <4>2, <4>4
      <4>6. Len(pl[2].body) = Len(player[2].body) + 1 /\ pl[2].grown = TRUE
        BY <4>5, <3>1 DEF Moved
      <4> QED
        BY <4>1, <4>2, <4>4, <4>6
    <3> QED
      BY <2>2, <3>1, <3>3, <3>4
  <2> QED
    BY <2>4, <2>5, <2>6, TwoPlayers DEF BothClear, new
<1>2. CASE player[2].state # TRUE
  <2>1. player[2].state = FALSE
    BY <1>2, TwoPlayers DEF SnakesTyped, Snake
  <2>2. player' = player
    BY <2>1 DEF MoveOn
  <2> QED
    BY <2>1, <2>2, TwoPlayers DEF BothClear, FirstClear
<1> QED
    BY <1>1, <1>2

(* A new snake lies in a row, with its head in front.                      *)
LEMMA BodyFacts ==
    ASSUME NEW h \in Squares, NEW n \in {-1, 1}
    PROVE  /\ Body(h, n) \in Seq(Squares) /\ Len(Body(h, n)) = Length /\ Body(h, n) # <<>>
           /\ \A i \in 1..Length : Body(h, n)[i] = <<h[1] + n * (i - 1), h[2]>>
           /\ Body(h, n)[1] = h
<1>1. Length \in Nat \ {0} /\ h[1] \in Int /\ h[2] \in Int /\ h = <<h[1], h[2]>>
    BY SnakesAssumption DEF Squares
<1> DEFINE b == Body(h, n)
<1>2. b = [i \in 1..Length |-> <<h[1] + n * (i - 1), h[2]>>]
    BY DEF Body
<1>3. ASSUME NEW i \in 1..Length PROVE <<h[1] + n * (i - 1), h[2]>> \in Squares
  <2>1. h[1] + n * (i - 1) \in Int
    <3>1. CASE n = 1
      BY <1>1, <3>1
    <3>2. CASE n = -1
      BY <1>1, <3>2
    <3> QED
      BY <3>1, <3>2
  <2> QED
    BY <2>1, <1>1 DEF Squares
<1>4. b \in [1..Length -> Squares]
    BY <1>2, <1>3
<1>5. b \in Seq(Squares) /\ Len(b) = Length
    BY <1>1, <1>4
<1>6. \A i \in 1..Length : b[i] = <<h[1] + n * (i - 1), h[2]>>
    BY <1>2
<1>7. b[1] = h
  <2>1. b[1] = <<h[1] + n * 0, h[2]>>
    BY <1>1, <1>6
  <2> QED
    BY <2>1, <1>1
<1> QED
    BY <1>1, <1>5, <1>6, <1>7

(* The positions the players start from: the heads are inside the borders, *)
(* and the bodies lie on different sides of the middle.                    *)
LEMMA StartFacts ==
    LET q == Columns_ \div 4
        r == Rows_ \div 2
    IN  /\ q \in Int /\ r \in Int /\ r \in MinY..(Rows_ - 2)
        /\ q \in MinX..(Columns_ - 2) /\ (Columns_ - q) \in MinX..(Columns_ - 2)
        /\ q < Columns_ - q
<1>1. /\ Columns_ \in Nat \ {0} /\ Rows_ \in Nat \ {0} /\ MinX \in Nat /\ MinY \in Nat
      /\ Columns_ \div 4 >= MinX /\ Columns_ \div 4 >= 2 /\ Rows_ \div 2 \in MinY..(Rows_ - 2)
    BY SnakesAssumption
<1>2. Columns_ \div 4 \in Int /\ 4 * (Columns_ \div 4) <= Columns_ /\ Rows_ \div 2 \in Int
    BY <1>1
<1> QED
    BY <1>1, <1>2

(* A new snake is inside the borders and not curled.                       *)
LEMMA NewSnake ==
    ASSUME NEW h \in Squares, NEW n \in {-1, 1}, NEW d \in Directions,
           h[1] \in MinX..(Columns_ - 2), h[2] \in MinY..(Rows_ - 2)
    PROVE  LET q == [direction |-> d, state |-> TRUE, grown |-> FALSE, body |-> Body(h, n)]
           IN  q \in Snake /\ q.body # <<>> /\ Within(q) /\ Uncurled(q)
<1> DEFINE q == [direction |-> d, state |-> TRUE, grown |-> FALSE, body |-> Body(h, n)]
<1>1. /\ Body(h, n) \in Seq(Squares) /\ Len(Body(h, n)) = Length /\ Body(h, n) # <<>>
      /\ \A i \in 1..Length : Body(h, n)[i] = <<h[1] + n * (i - 1), h[2]>>
      /\ Body(h, n)[1] = h
    BY BodyFacts
<1>2. q \in Snake
    BY <1>1 DEF Snake
<1>3. Within(q)
    BY <1>1 DEF Within, outOfBorders
<1>4. Uncurled(q)
  <2>1. SUFFICES ASSUME NEW i \in 2..Length PROVE h # Body(h, n)[i]
    BY <1>1 DEF Uncurled
  <2>2. i \in 1..Length /\ h[1] \in Int
    BY SnakesAssumption DEF Squares
  <2>3. Body(h, n)[i] = <<h[1] + n * (i - 1), h[2]>>
    BY <2>2, <1>1
  <2>4. h[1] + n * (i - 1) # h[1]
    <3>1. CASE n = 1
      BY <2>2, <3>1
    <3>2. CASE n = -1
      BY <2>2, <3>2
    <3> QED
      BY <3>1, <3>2
  <2> QED
    BY <2>3, <2>4
<1> QED
    BY <1>1, <1>2, <1>3, <1>4

(* A new game starts with clear snakes, and alone with player 2 dead.      *)
LEMMA GameStarts ==
    ASSUME SnakesInv, NEW choice \in {1, 2}, play_snakes(choice)
    PROVE  SnakesInv'
<1> DEFINE h1 == <<Columns_ \div 4, Rows_ \div 2>>
           h2 == <<Columns_ - Columns_ \div 4, Rows_ \div 2>>
           first  == [direction |-> "right", state |-> TRUE, grown |-> FALSE, body |-> Body(h1, -1)]
           second == [direction |-> "left", state |-> TRUE, grown |-> FALSE, body |-> Body(h2, 1)]
<1>1. /\ phase = "over" /\ phase' = "key" /\ playersChoice' = choice
      /\ player' = IF choice = 2 THEN <<first, second>> ELSE <<first, player[2]>>
    BY DEF play_snakes, setPlayers
<1>2. /\ h1 \in Squares /\ h2 \in Squares
      /\ h1[1] \in MinX..(Columns_ - 2) /\ h1[2] \in MinY..(Rows_ - 2)
      /\ h2[1] \in MinX..(Columns_ - 2) /\ h2[2] \in MinY..(Rows_ - 2)
      /\ h1[1] < h2[1] /\ h1[1] \in Int /\ h2[1] \in Int
    BY StartFacts, SnakesAssumption DEF Squares
<1> HIDE DEF h1, h2
<1>3. /\ first \in Snake /\ first.body # <<>> /\ Within(first) /\ Uncurled(first)
      /\ second \in Snake /\ second.body # <<>> /\ Within(second) /\ Uncurled(second)
    BY <1>2, NewSnake DEF Directions
<1>4. /\ \A i \in 1..Length : second.body[1] # first.body[i] /\ first.body[1] # second.body[i]
      /\ Len(first.body) = Length /\ Len(second.body) = Length
  <2>1. /\ Len(Body(h1, -1)) = Length /\ Body(h1, -1)[1] = h1
        /\ \A i \in 1..Length : Body(h1, -1)[i] = <<h1[1] + (-1) * (i - 1), h1[2]>>
    BY <1>2, BodyFacts
  <2>2. /\ Len(Body(h2, 1)) = Length /\ Body(h2, 1)[1] = h2
        /\ \A i \in 1..Length : Body(h2, 1)[i] = <<h2[1] + 1 * (i - 1), h2[2]>>
    BY <1>2, BodyFacts
  <2>3. ASSUME NEW i \in 1..Length
        PROVE  h2 # Body(h1, -1)[i] /\ h1 # Body(h2, 1)[i]
    <3>1. i \in Int /\ i >= 1
      BY SnakesAssumption
    <3>2. h1[1] + (-1) * (i - 1) # h2[1] /\ h2[1] + 1 * (i - 1) # h1[1]
      BY <3>1, <1>2
    <3> QED
      BY <3>2, <2>1, <2>2
  <2> QED
    BY <2>1, <2>2, <2>3
<1>5. player \in [Players -> Snake] /\ player[2] \in Snake /\ player[2].state = FALSE
    BY <1>1, TwoPlayers DEF SnakesInv, SnakesTyped, Snake
<1>6. first.state = TRUE /\ second.state = TRUE
    OBVIOUS
<1> HIDE DEF first, second
<1>7. player' \in [Players -> Snake] /\ player'[1] = first /\ player'[2] \in {second, player[2]}
      /\ (choice = 2 => player'[2] = second) /\ (choice # 2 => player'[2] = player[2])
    BY <1>1, <1>3, <1>5 DEF Players
<1>8. SnakesTyped'
  <2>1. choice = 2 \/ ~(2 <= choice)
    OBVIOUS
  <2> QED
    BY <1>1, <1>3, <1>5, <1>6, <1>7, <2>1, TwoPlayers DEF SnakesTyped
<1>9. BothClear(player')
    BY <1>3, <1>4, <1>5, <1>7, TwoPlayers DEF BothClear
<1>10. OnePlayer'
    BY <1>1, <1>5, <1>7 DEF OnePlayer
<1> QED
    BY <1>1, <1>8, <1>9, <1>10 DEF SnakesInv

(* A key that turns a snake moves it before the round does.                *)
LEMMA Turned ==
    ASSUME SnakesInv, NEW p \in Players, NEW d \in Directions, Turn(p, d)
    PROVE  SnakesInv'
<1>1. /\ phase = "key" /\ phase' = "first" /\ playersChoice' = playersChoice /\ p <= playersChoice
      /\ \E m \in Moves(player, food, p, d) : player' = m[1]
    BY DEF Turn
<1>2. player \in [Players -> Snake] /\ player[p].body # <<>>
    BY <1>1 DEF SnakesInv, SnakesTyped
<1>3. PICK m \in Moves(player, food, p, d) : player' = m[1]
    BY <1>1
<1>4. MovedOne(player', player, p, d)
    BY <1>2, <1>3, MovesFacts, Zenon
<1>5. /\ player' \in [Players -> Snake] /\ player'[p].body # <<>> /\ player'[p].state = player[p].state
      /\ \A q \in Players : q # p => player'[q] = player[q]
    BY <1>4 DEF MovedOne, Moved
<1>6. SnakesTyped'
    BY <1>1, <1>5 DEF SnakesInv, SnakesTyped
<1>7. OnePlayer'
    BY <1>1, <1>5, TwoPlayers DEF SnakesInv, OnePlayer
<1> QED
    BY <1>1, <1>6, <1>7 DEF SnakesInv

(* Nobody comes alive by a move.                                           *)
LEMMA MoveOnAlone ==
    ASSUME SnakesInv, phase # "over", NEW p \in Players, NEW from, NEW to \in {"first", "second", "key"},
           MoveOn(p, from, to)
    PROVE  OnePlayer'
<1>1. playersChoice' = playersChoice
    BY DEF MoveOn
<1>2. SUFFICES ASSUME playersChoice = 1 PROVE ~player'[2].state
    BY <1>1 DEF OnePlayer
<1>3. ~player[2].state
    BY <1>2 DEF SnakesInv, OnePlayer
<1>4. CASE player[p].state = TRUE
  <2>1. PICK pl \in [Players -> Snake] :
            /\ MovedOne(pl, player, p, player[p].direction)
            /\ pl[p].state = TRUE
            /\ Verdict(player', pl, p)
    BY <1>4, MoveOnFacts DEF SnakesInv
  <2>2. p = 1
    BY <1>3, <1>4, TwoPlayers
  <2>3. pl[2] = player[2] /\ (player'[2].state => pl[2].state)
    BY <2>1, <2>2, TwoPlayers DEF MovedOne, Verdict
  <2> QED
    BY <1>3, <2>3
<1>5. CASE player[p].state # TRUE
  <2>1. player[p].state = FALSE
    BY <1>5 DEF SnakesInv, SnakesTyped, Snake
  <2>2. player' = player
    BY <2>1 DEF MoveOn
  <2> QED
    BY <1>3, <2>2
<1> QED
    BY <1>4, <1>5

(* Every step of the game keeps SnakesInv.                                 *)
LEMMA SnakesInvHolds == SnakesSpec => []SnakesInv
<1>1. SnakesInit => SnakesInv
  <2>1. SUFFICES ASSUME SnakesInit PROVE SnakesInv
    OBVIOUS
  <2>2. NoPlayer \in Snake /\ NoPlayer.state = FALSE
    BY DEF NoPlayer, Snake, Directions
  <2>3. player \in [Players -> Snake] /\ \A p \in Players : player[p] = NoPlayer
    BY <2>1, <2>2 DEF SnakesInit, Players
  <2> QED
    BY <2>1, <2>2, <2>3 DEF SnakesInit, SnakesInv, SnakesTyped, OnePlayer
<1>2. SnakesInv /\ [SnakesNext]_snakeVars => SnakesInv'
  <2>1. SUFFICES ASSUME SnakesInv, [SnakesNext]_snakeVars PROVE SnakesInv'
    OBVIOUS
  <2>2. ASSUME NEW choice \in {1, 2}, play_snakes(choice) PROVE SnakesInv'
    BY <2>1, <2>2, GameStarts
  <2>3. ASSUME NEW p \in Players, NEW d \in Directions, Turn(p, d) PROVE SnakesInv'
    BY <2>1, <2>3, Turned
  <2>4. CASE KeepOn
    BY <2>1, <2>4 DEF KeepOn, SnakesInv, SnakesTyped, OnePlayer
  <2>5. CASE GameOver
    BY <2>1, <2>5, TwoPlayers DEF GameOver, SomebodyAlive, SnakesInv, SnakesTyped, OnePlayer
  <2>6. CASE MoveOn(1, "first", "second")
    <3>1. phase = "first" /\ phase' = "second"
      BY <2>6 DEF MoveOn
    <3>2. SnakesTyped /\ FirstClear(player')
      BY <2>1, <2>6, <3>1, FirstMoves DEF SnakesInv
    <3>3. SnakesTyped' /\ OnePlayer'
      BY <2>1, <2>6, <3>1, <3>2, TwoPlayers, MoveOnTyped, MoveOnAlone
    <3> QED
      BY <3>1, <3>2, <3>3 DEF SnakesInv
  <2>7. CASE MoveOn(2, "second", "key")
    <3>1. phase = "second" /\ phase' = "key"
      BY <2>7 DEF MoveOn
    <3>2. SnakesTyped /\ BothClear(player')
      BY <2>1, <2>7, <3>1, SecondMoves DEF SnakesInv
    <3>3. SnakesTyped' /\ OnePlayer'
      BY <2>1, <2>7, <3>1, <3>2, TwoPlayers, MoveOnTyped, MoveOnAlone
    <3> QED
      BY <3>1, <3>2, <3>3 DEF SnakesInv
  <2>8. CASE UNCHANGED snakeVars
    BY <2>1, <2>8 DEF snakeVars, SnakesInv, SnakesTyped, OnePlayer
  <2> QED
    BY <2>1, <2>2, <2>3, <2>4, <2>5, <2>6, <2>7, <2>8 DEF SnakesNext
<1> QED
    BY <1>1, <1>2, PTL DEF SnakesSpec

(* Snakes: at the end of a round the head of a live snake is inside the    *)
(* borders and on no live snake, except that the tail of player 2 may have *)
(* grown under player 1.                                                   *)
THEOREM LiveHeadsFreeCorrect == SnakesSpec => []LiveHeadsFree
<1>1. SnakesInv => LiveHeadsFree
  <2>1. SUFFICES ASSUME SnakesInv, phase = "key",
                        NEW p \in Players, player[p].state, NEW q \in Players, player[q].state
                 PROVE  /\ ~outOfBorders(player[p])
                        /\ \A i \in 1..Len(player[q].body) :
                              player[p].body[1] = player[q].body[i]
                                  => \/ p = q /\ i = 1
                                     \/ p = 1 /\ q = 2 /\ i = Len(player[q].body) /\ player[q].grown
    BY DEF LiveHeadsFree
  <2>2. BothClear(player) /\ player[q] \in Snake /\ player[q].body # <<>>
    BY <2>1 DEF SnakesInv, SnakesTyped
  <2>3. ~outOfBorders(player[p])
    BY <2>1, <2>2 DEF BothClear, Within
  <2>4. ASSUME NEW i \in 1..Len(player[q].body), player[p].body[1] = player[q].body[i]
        PROVE  \/ p = q /\ i = 1
               \/ p = 1 /\ q = 2 /\ i = Len(player[q].body) /\ player[q].grown
    <3>1. CASE p = q
      <4>1. Uncurled(player[p])
        BY <2>1, <2>2 DEF BothClear
      <4> QED
        BY <3>1, <4>1, <2>2, <2>4, BodyIndices DEF Uncurled
    <3>2. CASE p = 1 /\ q = 2
      BY <3>2, <2>1, <2>2, <2>4 DEF BothClear
    <3>3. CASE p = 2 /\ q = 1
      BY <3>3, <2>1, <2>2, <2>4 DEF BothClear
    <3> QED
      BY <3>1, <3>2, <3>3, TwoPlayers
  <2> QED
    BY <2>3, <2>4
<1>2. SnakesSpec => []SnakesInv
    BY SnakesInvHolds
<1> QED
    BY <1>1, <1>2, PTL

(* Food lies on no snake.                                                  *)
FoodClear(f, pl) == \A p \in Players : f \notin Cells(pl[p])

(* The elements of a sequence.                                             *)
LEMMA CellsOf ==
    ASSUME NEW s \in Seq(Squares)
    PROVE  ToSet(s) = {s[i] : i \in 1..Len(s)}
BY DEF ToSet

(* The cells of a snake that moved are its cells before and its new head.  *)
LEMMA FoodStaysFree ==
    ASSUME NEW pl \in [Players -> Snake], NEW f, NEW p \in Players, NEW d \in Directions,
           pl[p].body # <<>>, NEW m \in Moves(pl, f, p, d), FoodClear(f, pl)
    PROVE  FoodClear(m[2], m[1])
<1> DEFINE head == From(pl[p].body[1], d)
           b == Shift(pl[p].body, head)
           moved == [pl[p] EXCEPT !.direction = d, !.body = Shift(@, head), !.grown = FALSE]
           fed == [pl EXCEPT ![p] = increaseSnake(moved)]
<1>1. Moves(pl, f, p, d) = IF head = f THEN {<<fed, g>> : g \in setFood(fed)}
                           ELSE {<<[pl EXCEPT ![p] = moved], f>>}
    BY DEF Moves
<1>2. CASE head = f
  <2>1. PICK g \in setFood(fed) : m = <<fed, g>>
    BY <1>1, <1>2
  <2>2. g \notin Cells(fed[1]) /\ g \notin Cells(fed[2])
    BY <2>1, TwoPlayers DEF setFood, checkInSnake
  <2> HIDE DEF fed
  <2> QED
    BY <2>1, <2>2, TwoPlayers DEF FoodClear
<1>3. CASE head # f
  <2>1. m = <<[pl EXCEPT ![p] = moved], f>>
    BY <1>1, <1>3
  <2>2. pl[p].body \in Seq(Squares) /\ pl[p].body[1] \in Squares /\ Len(pl[p].body) \in Nat \ {0}
    <3>1. pl[p] \in Snake /\ pl[p].body \in Seq(Squares)
      BY DEF Snake
    <3> QED
      BY <3>1, BodyIndices
  <2>3. head \in Squares
    BY <2>2, FromSquare
  <2> HIDE DEF head
  <2>4. b \in Seq(Squares) /\ Len(b) = Len(pl[p].body) /\ b[1] = head
        /\ \A i \in 2..Len(pl[p].body) : b[i] = pl[p].body[i - 1]
    BY <2>2, <2>3, ShiftFacts
  <2>5. moved.body = b
    BY DEF Snake
  <2>6. f \notin ToSet(b)
    <3>1. f \notin ToSet(pl[p].body)
      BY DEF FoodClear, Cells
    <3>2. SUFFICES ASSUME NEW i \in 1..Len(pl[p].body), b[i] = f PROVE FALSE
      BY <2>4, CellsOf
    <3> HIDE DEF b
    <3>3. i # 1
      BY <1>3, <2>4, <3>2
    <3>4. i \in 2..Len(pl[p].body) /\ i - 1 \in 1..Len(pl[p].body)
      BY <2>2, <3>2, <3>3
    <3>5. f = pl[p].body[i - 1]
      BY <2>4, <3>2, <3>4
    <3> QED
      BY <2>2, <3>1, <3>4, <3>5, CellsOf
  <2> HIDE DEF b, moved
  <2>7. /\ m[2] = f /\ m[1][p].body = b
        /\ \A q \in Players : q # p => m[1][q] = pl[q]
    BY <2>1, <2>5
  <2> QED
    BY <2>6, <2>7 DEF FoodClear, Cells
<1> QED
    BY <1>2, <1>3

(* Snakes: food lies under no snake, alive or dead or left from the game   *)
(* before.                                                                 *)
THEOREM FoodFreeCorrect == SnakesSpec => []FoodFree
<1>1. SnakesInit => FoodFree
    BY DEF SnakesInit, FoodFree
<1>2. SnakesInv /\ FoodFree /\ [SnakesNext]_snakeVars => FoodFree'
  <2>1. SUFFICES ASSUME SnakesInv, FoodFree, [SnakesNext]_snakeVars PROVE FoodFree'
    OBVIOUS
  <2>2. phase # "over" => FoodClear(food, player)
    BY <2>1 DEF FoodFree, FoodClear
  <2>3. SUFFICES phase' # "over" => FoodClear(food', player')
    BY DEF FoodFree, FoodClear
  <2>4. player \in [Players -> Snake]
    BY <2>1 DEF SnakesInv, SnakesTyped
  <2>5. ASSUME NEW choice \in {1, 2}, play_snakes(choice) PROVE FoodClear(food', player')
    BY <2>5 DEF play_snakes, setFood, checkInSnake, FoodClear
  <2>6. ASSUME NEW p \in Players, NEW d \in Directions, Turn(p, d) PROVE FoodClear(food', player')
    <3>1. PICK m \in Moves(player, food, p, d) : player' = m[1] /\ food' = m[2]
      BY <2>6 DEF Turn
    <3>2. phase = "key" /\ player[p].body # <<>>
      BY <2>1, <2>6 DEF Turn, SnakesInv, SnakesTyped
    <3>3. FoodClear(m[2], m[1])
      BY <2>2, <2>4, <3>1, <3>2, FoodStaysFree, Zenon
    <3> QED
      BY <3>1, <3>3
  <2>7. ASSUME NEW p \in Players, NEW from \in {"first", "second"}, NEW to, MoveOn(p, from, to)
        PROVE  FoodClear(food', player')
    <3>1. phase # "over" /\ FoodClear(food, player)
      BY <2>2, <2>7 DEF MoveOn
    <3>2. CASE player[p].state = TRUE
      <4>1. PICK m \in Moves(player, food, p, player[p].direction) :
                    player' = Judged(m[1], p) /\ food' = m[2]
        BY <2>7, <3>2 DEF MoveOn
      <4>2. player[p].body # <<>> /\ player[p].direction \in Directions
        BY <2>1, <3>2 DEF SnakesInv, SnakesTyped, Snake
      <4>3. MovedOne(m[1], player, p, player[p].direction)
        BY <2>4, <4>1, <4>2, MovesFacts, Zenon
      <4>4. m[1] \in [Players -> Snake] /\ m[1][p].state = TRUE
        BY <3>2, <4>3 DEF Moved, MovedOne
      <4>5. Verdict(player', m[1], p)
        BY <4>1, <4>4, JudgedFacts, Zenon
      <4>6. FoodClear(m[2], m[1])
        BY <2>4, <3>1, <4>1, <4>2, FoodStaysFree, Zenon
      <4>7. \A q \in Players : player'[q].body = m[1][q].body
        BY <4>5 DEF Verdict
      <4> QED
        BY <4>1, <4>6, <4>7 DEF FoodClear, Cells
    <3>3. CASE player[p].state # TRUE
      <4>1. player[p].state = FALSE
        BY <2>4, <3>3 DEF Snake
      <4> QED
        BY <2>7, <3>1, <4>1 DEF MoveOn
    <3> QED
      BY <3>2, <3>3
  <2>8. CASE KeepOn
    BY <2>2, <2>8 DEF KeepOn
  <2>9. CASE GameOver
    BY <2>9 DEF GameOver
  <2>10. CASE UNCHANGED snakeVars
    BY <2>2, <2>10 DEF snakeVars
  <2> QED
    BY <2>1, <2>5, <2>6, <2>7, <2>8, <2>9, <2>10, TwoPlayers DEF SnakesNext
<1>3. SnakesSpec => []SnakesInv
    BY SnakesInvHolds
<1> QED
    BY <1>1, <1>2, <1>3, PTL DEF SnakesSpec

---------------------------------------------------------------------------
(* Snakes in one piece.                                                    *)

(* A coordinate wraps at both ends of its type, and nowhere else.          *)
LEMMA OneStep ==
    ASSUME NEW x \in 0..(Word64 - 1)
    PROVE  /\ x % Word64 = x
           /\ (x + 1) % Word64 = IF x = Word64 - 1 THEN 0 ELSE x + 1
           /\ (x - 1) % Word64 = IF x = 0 THEN Word64 - 1 ELSE x - 1
<1>1. Word64 \in Nat /\ Word64 > 0
    BY SnakesAssumption
<1> DEFINE w == Word64
<1>2. w \in Nat /\ w > 0 /\ x \in 0..(w - 1)
    BY <1>1
<1> HIDE DEF w
<1>3. \A y \in 0..(w - 1) : y % w = y
    BY <1>2
<1>4. w % w = 0
    BY <1>2
<1>5. (0 - 1) % w = w - 1
    BY <1>2
<1>6. (x + 1) % w = IF x = w - 1 THEN 0 ELSE x + 1
    <2>1. CASE x = w - 1
        <3>1. x + 1 = w
            BY <2>1, <1>2
        <3> QED BY <2>1, <3>1, <1>4
    <2>2. CASE x # w - 1
        <3>1. x + 1 \in 0..(w - 1)
            BY <2>2, <1>2
        <3> QED BY <2>2, <3>1, <1>3
    <2> QED BY <2>1, <2>2
<1>7. (x - 1) % w = IF x = 0 THEN w - 1 ELSE x - 1
    <2>1. CASE x = 0
        BY <2>1, <1>5
    <2>2. CASE x # 0
        <3>1. x - 1 \in 0..(w - 1)
            BY <2>2, <1>2
        <3> QED BY <2>2, <3>1, <1>3
    <2> QED BY <2>1, <2>2
<1> QED BY <1>2, <1>3, <1>6, <1>7 DEF w

(* A step and the opposite step lead back.                                 *)
LEMMA StepBack ==
    ASSUME NEW c \in Coordinates, NEW d \in Directions
    PROVE  /\ From(c, d) \in Coordinates /\ Opposite[d] \in Directions
           /\ From(From(c, d), Opposite[d]) = c
<1> DEFINE x == c[1]
           y == c[2]
           up(n) == IF n = Word64 - 1 THEN 0 ELSE n + 1
           down(n) == IF n = 0 THEN Word64 - 1 ELSE n - 1
<1>1. Word64 \in Nat /\ Word64 > 0
    BY SnakesAssumption
<1>2. x \in 0..(Word64 - 1) /\ y \in 0..(Word64 - 1) /\ c = <<x, y>>
    BY DEF Coordinates
<1>3. ASSUME NEW n \in 0..(Word64 - 1)
      PROVE  /\ up(n) \in 0..(Word64 - 1) /\ down(n) \in 0..(Word64 - 1)
             /\ up(down(n)) = n /\ down(up(n)) = n
    BY <1>1
<1>4. ASSUME NEW a \in 0..(Word64 - 1), NEW b \in 0..(Word64 - 1)
      PROVE  /\ From(<<a, b>>, "up") = <<a, down(b)>> /\ From(<<a, b>>, "down") = <<a, up(b)>>
             /\ From(<<a, b>>, "left") = <<down(a), b>> /\ From(<<a, b>>, "right") = <<up(a), b>>
    <2>1. /\ a % Word64 = a /\ (a + 1) % Word64 = up(a) /\ (a - 1) % Word64 = down(a)
          /\ b % Word64 = b /\ (b + 1) % Word64 = up(b) /\ (b - 1) % Word64 = down(b)
        BY OneStep
    <2>2. /\ a + 0 = a /\ b + 0 = b /\ a + (-1) = a - 1 /\ b + (-1) = b - 1
        BY <1>1
    <2>3. /\ From(<<a, b>>, "up") = <<(a + 0) % Word64, (b + (-1)) % Word64>>
          /\ From(<<a, b>>, "down") = <<(a + 0) % Word64, (b + 1) % Word64>>
          /\ From(<<a, b>>, "left") = <<(a + (-1)) % Word64, (b + 0) % Word64>>
          /\ From(<<a, b>>, "right") = <<(a + 1) % Word64, (b + 0) % Word64>>
        BY DEF From, Ahead
    <2> HIDE DEF up, down
    <2> QED BY <2>1, <2>2, <2>3
<1> HIDE DEF x, y, up, down
<1>5. Opposite[d] \in Directions
    BY DEF Opposite, Directions
<1>6. CASE d = "up"
    <2>1. Opposite[d] = "down"
        BY <1>6 DEF Opposite, Directions
    <2>2. From(c, d) = <<x, down(y)>>
        BY <1>6, <1>2, <1>4
    <2>3. From(<<x, down(y)>>, "down") = <<x, y>>
        BY <1>2, <1>3, <1>4
    <2> QED BY <1>2, <1>3, <1>5, <2>1, <2>2, <2>3 DEF Coordinates
<1>7. CASE d = "down"
    <2>1. Opposite[d] = "up"
        BY <1>7 DEF Opposite, Directions
    <2>2. From(c, d) = <<x, up(y)>>
        BY <1>7, <1>2, <1>4
    <2>3. From(<<x, up(y)>>, "up") = <<x, y>>
        BY <1>2, <1>3, <1>4
    <2> QED BY <1>2, <1>3, <1>5, <2>1, <2>2, <2>3 DEF Coordinates
<1>8. CASE d = "left"
    <2>1. Opposite[d] = "right"
        BY <1>8 DEF Opposite, Directions
    <2>2. From(c, d) = <<down(x), y>>
        BY <1>8, <1>2, <1>4
    <2>3. From(<<down(x), y>>, "right") = <<x, y>>
        BY <1>2, <1>3, <1>4
    <2> QED BY <1>2, <1>3, <1>5, <2>1, <2>2, <2>3 DEF Coordinates
<1>9. CASE d = "right"
    <2>1. Opposite[d] = "left"
        BY <1>9 DEF Opposite, Directions
    <2>2. From(c, d) = <<up(x), y>>
        BY <1>9, <1>2, <1>4
    <2>3. From(<<up(x), y>>, "left") = <<x, y>>
        BY <1>2, <1>3, <1>4
    <2> QED BY <1>2, <1>3, <1>5, <2>1, <2>2, <2>3 DEF Coordinates
<1> QED BY <1>6, <1>7, <1>8, <1>9 DEF Directions

(* Every segment is next to the one in front of it.                        *)
Chain(body) == \A i \in 2..Len(body) : \E d \in Directions : body[i] = From(body[i - 1], d)

Whole(q) == q.body \in Seq(Coordinates) /\ Len(q.body) <= MAX_LENGTH /\ Chain(q.body)

(* A snake that moves pulls every segment to where the one in front was,   *)
(* and its head is one step from where it was.                             *)
LEMMA ShiftWhole ==
    ASSUME NEW body \in Seq(Coordinates), body # <<>>, Chain(body), NEW d \in Directions
    PROVE  LET s == Shift(body, From(body[1], d))
           IN  s \in Seq(Coordinates) /\ Len(s) = Len(body) /\ s # <<>> /\ Chain(s)
<1> DEFINE head == From(body[1], d)
           s == Shift(body, head)
<1>1. DOMAIN body = 1..Len(body) /\ Len(body) \in Nat \ {0} /\ body[1] \in Coordinates
    BY NotEmpty
<1>2. head \in Coordinates /\ Opposite[d] \in Directions /\ From(head, Opposite[d]) = body[1]
    BY <1>1, StepBack
<1> HIDE DEF head
<1>3. s = [i \in 1..Len(body) |-> IF i = 1 THEN head ELSE body[i - 1]]
    BY <1>1 DEF Shift
<1>4. ASSUME NEW i \in 1..Len(body), i # 1 PROVE i - 1 \in 1..Len(body)
    BY <1>1, <1>4
<1>5. ASSUME NEW i \in 1..Len(body) PROVE s[i] \in Coordinates
    BY <1>2, <1>3, <1>4, <1>5
<1>6. s \in Seq(Coordinates) /\ Len(s) = Len(body) /\ s # <<>>
    BY <1>1, <1>3, <1>5
<1>7. Chain(s)
    <2> SUFFICES ASSUME NEW i \in 2..Len(body) PROVE \E e \in Directions : s[i] = From(s[i - 1], e)
        BY <1>6 DEF Chain
    <2>1. i \in 1..Len(body) /\ i - 1 \in 1..Len(body) /\ i # 1
        BY <1>1
    <2>2. s[i] = body[i - 1] /\ s[i - 1] = IF i - 1 = 1 THEN head ELSE body[(i - 1) - 1]
        BY <1>3, <2>1
    <2>3. CASE i = 2
        <3>1. i - 1 = 1
            BY <2>3
        <3> QED BY <1>2, <2>2, <3>1
    <2>4. CASE i # 2
        <3>1. i - 1 \in 2..Len(body) /\ i - 1 # 1
            BY <2>1, <2>4
        <3>2. PICK e \in Directions : body[i - 1] = From(body[(i - 1) - 1], e)
            BY <3>1 DEF Chain
        <3> QED BY <2>2, <3>1, <3>2
    <2> QED BY <2>3, <2>4
<1> QED BY <1>6, <1>7 DEF head

(* A segment that is added is next to the last one.                        *)
LEMMA GrownWhole ==
    ASSUME NEW body \in Seq(Coordinates), body # <<>>, Chain(body), NEW d \in Directions
    PROVE  LET s == Append(body, From(Last(body), d))
           IN  s \in Seq(Coordinates) /\ Len(s) = Len(body) + 1 /\ Chain(s)
<1> DEFINE tail == From(Last(body), d)
           s == Append(body, tail)
           n == Len(body)
<1>1. n \in Nat \ {0} /\ body[n] \in Coordinates /\ tail = From(body[n], d)
    <2>1. n \in Nat \ {0}
        BY NotEmpty
    <2>2. n \in 1..Len(body)
        BY <2>1
    <2> QED BY <2>1, <2>2 DEF Last
<1>2. tail \in Coordinates
    BY <1>1, StepBack
<1> HIDE DEF tail
<1>3. /\ s \in Seq(Coordinates) /\ Len(s) = n + 1 /\ s[n + 1] = tail
      /\ \A i \in 1..n : s[i] = body[i]
    BY <1>1, <1>2
<1> HIDE DEF s
<1>4. Chain(s)
    <2> SUFFICES ASSUME NEW i \in 2..(n + 1) PROVE \E e \in Directions : s[i] = From(s[i - 1], e)
        BY <1>3 DEF Chain
    <2>1. CASE i = n + 1
        <3>1. i - 1 = n /\ n \in 1..n
            BY <1>1, <2>1
        <3>2. s[i] = tail /\ s[i - 1] = body[n]
            BY <1>3, <2>1, <3>1
        <3> QED BY <1>1, <3>2
    <2>2. CASE i # n + 1
        <3>1. i \in 2..n /\ i \in 1..n /\ i - 1 \in 1..n
            BY <1>1, <2>2
        <3>2. PICK e \in Directions : body[i] = From(body[i - 1], e)
            BY <3>1 DEF Chain
        <3> QED BY <1>3, <3>1, <3>2
    <2> QED BY <2>1, <2>2
<1> QED BY <1>3, <1>4 DEF s, n, tail

(* What a move leaves of a whole snake r.                                  *)
LEMMA MovedWhole ==
    ASSUME NEW r \in Snake, Whole(r), r.body # <<>>, NEW d \in Directions
    PROVE  LET moved == [r EXCEPT !.direction = d, !.body = Shift(@, From(r.body[1], d)), !.grown = FALSE]
           IN  Whole(moved) /\ Whole(increaseSnake(moved))
<1> DEFINE b == Shift(r.body, From(r.body[1], d))
           moved == [r EXCEPT !.direction = d, !.body = Shift(@, From(r.body[1], d)), !.grown = FALSE]
<1>1. r.body \in Seq(Coordinates) /\ Len(r.body) <= MAX_LENGTH /\ Chain(r.body)
    BY DEF Whole
<1>2. b \in Seq(Coordinates) /\ Len(b) = Len(r.body) /\ b # <<>> /\ Chain(b)
    BY <1>1, ShiftWhole
<1>3. moved = [direction |-> d, state |-> r.state, body |-> b, grown |-> FALSE]
    <2>1. moved = [r EXCEPT !.direction = d, !.body = b, !.grown = FALSE]
        OBVIOUS
    <2> HIDE DEF b, moved
    <2> QED BY <2>1 DEF Snake
<1> HIDE DEF b, moved
<1>4. Whole(moved)
    BY <1>1, <1>2, <1>3 DEF Whole
<1>5. Whole(increaseSnake(moved))
    <2>1. CASE Len(moved.body) < MAX_LENGTH
        <3> DEFINE c == Append(b, From(Last(b), Opposite[d]))
        <3>1. Opposite[d] \in Directions
            BY DEF Opposite, Directions
        <3>2. c \in Seq(Coordinates) /\ Len(c) = Len(b) + 1 /\ Chain(c)
            BY <3>1, <1>2, GrownWhole
        <3>3. increaseSnake(moved) = [moved EXCEPT !.body = c, !.grown = TRUE]
            <4>1. increaseSnake(moved) = [moved EXCEPT !.body = Append(@, addNewTail(moved)), !.grown = TRUE]
                BY <2>1 DEF increaseSnake
            <4>2. addNewTail(moved) = From(Last(b), Opposite[d])
                BY <1>3 DEF addNewTail
            <4> QED BY <4>1, <4>2, <1>3
        <3> HIDE DEF c
        <3>4. increaseSnake(moved).body = c
            BY <3>3, <1>3
        <3>5. Len(c) <= MAX_LENGTH
            <4>1. Len(b) < MAX_LENGTH /\ Len(b) \in Nat /\ MAX_LENGTH \in Nat
                <5>1. moved.body = b
                    BY <1>3
                <5>2. Len(b) \in Nat
                    BY <1>2
                <5>3. MAX_LENGTH \in Nat
                    BY SnakesAssumption
                <5> QED BY <2>1, <5>1, <5>2, <5>3
            <4>2. Len(c) = Len(b) + 1
                BY <3>2
            <4> HIDE DEF b
            <4> QED BY <4>1, <4>2
        <3> QED BY <3>2, <3>4, <3>5 DEF Whole
    <2>2. CASE ~(Len(moved.body) < MAX_LENGTH)
        BY <2>2, <1>4 DEF increaseSnake
    <2> QED BY <2>1, <2>2
<1> QED BY <1>4, <1>5 DEF moved

(* Food is put on the screen.                                              *)
LEMMA FoodOnScreen ==
    ASSUME NEW pl, NEW g \in setFood(pl)
    PROVE  g \in Coordinates
<1>1. /\ Columns_ \in Nat \ {0} /\ Rows_ \in Nat \ {0} /\ FoodX \in Nat /\ FoodY \in Nat
      /\ Word64 \in Nat /\ Columns_ < Word64 /\ Rows_ < Word64
    BY SnakesAssumption
<1>2. PICK seed \in 0..(Columns_ * Rows_ - 1) : g = Place(seed)
    BY DEF setFood, Places_
<1>3. seed \in Nat
    <2>1. Columns_ * Rows_ \in Int
        BY <1>1
    <2> QED BY <2>1
<1> DEFINE x == seed % Columns_
           y == seed % Rows_
<1>4. x \in Nat /\ y \in Nat
    BY <1>1, <1>3
<1>5. g = <<IF x <= FoodX THEN x + FoodX ELSE x, IF y <= FoodY THEN y + FoodY ELSE y>>
    BY <1>2 DEF Place
<1> HIDE DEF x, y
<1>6. g[1] \in Nat /\ g[2] \in Nat /\ g = <<g[1], g[2]>>
    BY <1>1, <1>4, <1>5
<1>7. g[1] < Columns_ /\ g[2] < Rows_
    BY DEF setFood
<1> QED BY <1>1, <1>6, <1>7 DEF Coordinates

AllWhole(pl) == \A q \in Players : Whole(pl[q])

LEMMA MovesWhole ==
    ASSUME NEW pl \in [Players -> Snake], NEW f \in Coordinates, NEW p \in Players,
           NEW d \in Directions, pl[p].body # <<>>, AllWhole(pl), NEW m \in Moves(pl, f, p, d)
    PROVE  AllWhole(m[1]) /\ m[2] \in Coordinates
<1> DEFINE head == From(pl[p].body[1], d)
           moved == [pl[p] EXCEPT !.direction = d, !.body = Shift(@, head), !.grown = FALSE]
           fed == [pl EXCEPT ![p] = increaseSnake(moved)]
<1>1. pl[p] \in Snake /\ Whole(pl[p])
    BY DEF AllWhole
<1>2. Whole(moved) /\ Whole(increaseSnake(moved))
    BY <1>1, MovedWhole
<1>3. Moves(pl, f, p, d) = IF head = f THEN {<<fed, g>> : g \in setFood(fed)}
                           ELSE {<<[pl EXCEPT ![p] = moved], f>>}
    BY DEF Moves
<1> HIDE DEF moved, head
<1>4. CASE head = f
    <2>1. PICK g \in setFood(fed) : m = <<fed, g>>
        BY <1>3, <1>4
    <2>2. g \in Coordinates
        <3> HIDE DEF fed
        <3> QED BY FoodOnScreen
    <2> QED BY <1>2, <2>1, <2>2 DEF AllWhole
<1>5. CASE head # f
    BY <1>2, <1>3, <1>5 DEF AllWhole
<1> QED BY <1>4, <1>5

(* A new snake lies in one row of the screen.                              *)
LEMMA NewWhole ==
    ASSUME NEW h \in Squares, NEW n \in {-1, 1}, h[2] \in 0..(Word64 - 1),
           n = -1 => h[1] \in (Length - 1)..(Word64 - 1),
           n = 1 => h[1] \in 0..(Word64 - Length)
    PROVE  Body(h, n) \in Seq(Coordinates) /\ Len(Body(h, n)) <= MAX_LENGTH /\ Chain(Body(h, n))
<1> DEFINE b == Body(h, n)
<1>1. /\ Length \in Nat \ {0} /\ Length <= MAX_LENGTH /\ Word64 \in Nat \ {0}
      /\ h[1] \in Int
    BY SnakesAssumption DEF Squares
<1>2. /\ b \in Seq(Squares) /\ Len(b) = Length
      /\ \A i \in 1..Length : b[i] = <<h[1] + n * (i - 1), h[2]>>
    BY BodyFacts
<1> HIDE DEF b
<1> DEFINE place(i) == h[1] + n * (i - 1)
<1>3. ASSUME NEW i \in 1..Length PROVE place(i) \in 0..(Word64 - 1)
    <2>1. CASE n = -1
        BY <2>1, <1>1
    <2>2. CASE n = 1
        BY <2>2, <1>1
    <2> QED BY <2>1, <2>2
<1>4. ASSUME NEW i \in 2..Length PROVE place(i) = place(i - 1) + n
    <2>1. CASE n = -1
        BY <2>1, <1>1
    <2>2. CASE n = 1
        BY <2>2, <1>1
    <2> QED BY <2>1, <2>2
<1>5. \A i \in 1..Length : b[i] = <<place(i), h[2]>>
    BY <1>2
<1> HIDE DEF place
<1>6. ASSUME NEW i \in 1..Length PROVE b[i] \in Coordinates
    <2>1. b[i] = <<place(i), h[2]>> /\ place(i) \in 0..(Word64 - 1)
        BY <1>3, <1>5
    <2> QED BY <2>1 DEF Coordinates
<1>7. b \in Seq(Coordinates)
    BY <1>1, <1>2, <1>6
<1>8. ASSUME NEW i \in 2..Length PROVE \E d \in Directions : b[i] = From(b[i - 1], d)
    <2>1. i \in 1..Length /\ i - 1 \in 1..Length
        BY <1>1
    <2>2. /\ b[i] = <<place(i), h[2]>> /\ b[i - 1] = <<place(i - 1), h[2]>>
          /\ place(i) \in 0..(Word64 - 1) /\ place(i) = place(i - 1) + n
        BY <2>1, <1>3, <1>4, <1>5
    <2>3. place(i) % Word64 = place(i) /\ (h[2] + 0) % Word64 = h[2]
        <3>1. h[2] + 0 = h[2]
            BY <1>1
        <3> QED BY <3>1, <2>2, OneStep
    <2>4. From(b[i - 1], IF n = 1 THEN "right" ELSE "left") = <<(place(i - 1) + n) % Word64, (h[2] + 0) % Word64>>
        BY <2>2 DEF From, Ahead
    <2>5. From(b[i - 1], IF n = 1 THEN "right" ELSE "left") = b[i]
        BY <2>2, <2>3, <2>4
    <2> QED BY <2>5 DEF Directions
<1> QED BY <1>1, <1>2, <1>7, <1>8 DEF Chain, b

(* The inductive invariant of HangsTogether: it does not depend on who is  *)
(* alive, but on the heads that SnakesTyped says there are.                *)
WholeInv == turns \in 0..MaxTurns /\ food \in Coordinates /\ AllWhole(player)

LEMMA WholeGameStarts ==
    ASSUME SnakesInv, WholeInv, NEW choice \in {1, 2}, play_snakes(choice)
    PROVE  WholeInv'
<1> DEFINE h1 == <<Columns_ \div 4, Rows_ \div 2>>
           h2 == <<Columns_ - Columns_ \div 4, Rows_ \div 2>>
           first  == [direction |-> "right", state |-> TRUE, grown |-> FALSE, body |-> Body(h1, -1)]
           second == [direction |-> "left", state |-> TRUE, grown |-> FALSE, body |-> Body(h2, 1)]
<1>1. /\ player' = IF choice = 2 THEN <<first, second>> ELSE <<first, player[2]>>
      /\ food' \in setFood(player') /\ turns' = turns
    BY DEF play_snakes, setPlayers
<1>2. /\ h1 \in Squares /\ h2 \in Squares /\ h1[2] \in 0..(Word64 - 1) /\ h2[2] \in 0..(Word64 - 1)
      /\ h1[1] \in (Length - 1)..(Word64 - 1) /\ h2[1] \in 0..(Word64 - Length)
    <2> DEFINE q == Columns_ \div 4
               r == Rows_ \div 2
    <2>1. /\ Columns_ \in Nat \ {0} /\ Rows_ \in Nat \ {0} /\ Length \in Nat \ {0} /\ MinY \in Nat
          /\ Word64 \in Nat /\ Word64 > 2 * Columns_ /\ Word64 > 2 * Rows_ /\ q >= Length - 1
        BY SnakesAssumption
    <2>2. q \in Int /\ r \in Int /\ r \in MinY..(Rows_ - 2) /\ q <= Columns_ - 2 /\ q < Columns_ - q
        BY StartFacts
    <2> HIDE DEF q, r
    <2>3. /\ r \in 0..(Word64 - 1) /\ q \in (Length - 1)..(Word64 - 1)
          /\ (Columns_ - q) \in 0..(Word64 - Length) /\ Columns_ - q \in Int
        BY <2>1, <2>2
    <2> QED BY <2>2, <2>3 DEF Squares, q, r
<1> HIDE DEF h1, h2
<1>3. Whole(first) /\ Whole(second)
    <2>1. /\ Body(h1, -1) \in Seq(Coordinates) /\ Len(Body(h1, -1)) <= MAX_LENGTH /\ Chain(Body(h1, -1))
        BY <1>2, NewWhole
    <2>2. /\ Body(h2, 1) \in Seq(Coordinates) /\ Len(Body(h2, 1)) <= MAX_LENGTH /\ Chain(Body(h2, 1))
        BY <1>2, NewWhole
    <2> QED BY <2>1, <2>2 DEF Whole
<1>4. Whole(player[2])
    BY TwoPlayers DEF WholeInv, AllWhole
<1> HIDE DEF first, second
<1>5. AllWhole(player')
    BY <1>1, <1>3, <1>4, TwoPlayers DEF AllWhole
<1>6. food' \in Coordinates
    BY <1>1, FoodOnScreen
<1> QED BY <1>1, <1>5, <1>6 DEF WholeInv

LEMMA WholeInvHolds == SnakesSpec => []WholeInv
<1>1. SnakesInit => WholeInv
    <2> SUFFICES ASSUME SnakesInit PROVE WholeInv
        OBVIOUS
    <2>1. food \in Coordinates /\ turns \in 0..MaxTurns
        BY SnakesAssumption DEF SnakesInit, Coordinates
    <2>2. Whole(NoPlayer)
        <3>1. /\ NoPlayer.body = <<>> /\ <<>> \in Seq(Coordinates) /\ Len(<<>>) = 0
              /\ MAX_LENGTH \in Nat /\ 2..0 = {}
            BY SnakesAssumption DEF NoPlayer
        <3> QED BY <3>1 DEF Whole, Chain
    <2> QED BY <2>1, <2>2, TwoPlayers DEF SnakesInit, WholeInv, AllWhole
<1>2. SnakesInv /\ WholeInv /\ [SnakesNext]_snakeVars => WholeInv'
    <2> SUFFICES ASSUME SnakesInv, WholeInv, [SnakesNext]_snakeVars PROVE WholeInv'
        OBVIOUS
    <2>1. player \in [Players -> Snake] /\ AllWhole(player) /\ food \in Coordinates
        BY DEF SnakesInv, SnakesTyped, WholeInv
    <2>2. ASSUME NEW choice \in {1, 2}, play_snakes(choice) PROVE WholeInv'
        BY <2>2, WholeGameStarts
    <2>3. ASSUME NEW p \in Players, NEW d \in Directions, Turn(p, d) PROVE WholeInv'
        <3>1. PICK m \in Moves(player, food, p, d) : player' = m[1] /\ food' = m[2]
            BY <2>3 DEF Turn
        <3>2. player[p].body # <<>> /\ turns' \in 0..MaxTurns
            BY <2>3, SnakesAssumption DEF Turn, SnakesInv, SnakesTyped, WholeInv
        <3>3. AllWhole(m[1]) /\ m[2] \in Coordinates
            BY <2>1, <3>1, <3>2, MovesWhole, Zenon
        <3> QED BY <3>1, <3>2, <3>3 DEF WholeInv
    <2>4. ASSUME NEW p \in Players, NEW from \in {"first", "second"}, NEW to, MoveOn(p, from, to)
          PROVE  WholeInv'
        <3>1. turns' = turns
            BY <2>4 DEF MoveOn
        <3>2. CASE player[p].state = TRUE
            <4>1. PICK m \in Moves(player, food, p, player[p].direction) :
                        player' = Judged(m[1], p) /\ food' = m[2]
                BY <2>4, <3>2 DEF MoveOn
            <4>2. player[p].body # <<>> /\ player[p].direction \in Directions
                BY <3>2 DEF SnakesInv, SnakesTyped, Snake
            <4>3. MovedOne(m[1], player, p, player[p].direction)
                BY <2>1, <4>1, <4>2, MovesFacts, Zenon
            <4>4. m[1] \in [Players -> Snake] /\ m[1][p].state = TRUE
                BY <3>2, <4>3 DEF Moved, MovedOne
            <4>5. Verdict(player', m[1], p)
                BY <4>1, <4>4, JudgedFacts, Zenon
            <4>6. AllWhole(m[1]) /\ m[2] \in Coordinates
                BY <2>1, <4>1, <4>2, MovesWhole, Zenon
            <4>7. \A q \in Players : player'[q].body = m[1][q].body
                BY <4>5 DEF Verdict
            <4>8. AllWhole(player')
                BY <4>6, <4>7 DEF AllWhole, Whole
            <4> QED BY <3>1, <4>1, <4>6, <4>8 DEF WholeInv
        <3>3. CASE player[p].state # TRUE
            <4>1. player[p].state = FALSE
                BY <2>1, <3>3 DEF Snake
            <4>2. player' = player /\ food' = food
                BY <2>4, <4>1 DEF MoveOn
            <4> QED BY <3>1, <4>2 DEF WholeInv
        <3> QED BY <3>2, <3>3
    <2>5. CASE KeepOn
        BY <2>5 DEF KeepOn, WholeInv
    <2>6. CASE GameOver
        BY <2>6 DEF GameOver, WholeInv
    <2>7. CASE UNCHANGED snakeVars
        BY <2>7 DEF snakeVars, WholeInv
    <2> QED BY <2>2, <2>3, <2>4, <2>5, <2>6, <2>7, TwoPlayers DEF SnakesNext
<1> QED BY <1>1, <1>2, SnakesInvHolds, PTL DEF SnakesSpec

(* Snakes: in all games and whatever is eaten, a snake has its type and    *)
(* fits into its arrays, every segment is next to the one in front of it,  *)
(* and nobody but player 1 lives in a game of one.                         *)
THEOREM SnakesWholeCorrect == SnakesSpec => [](SnakesTypeOK /\ HangsTogether /\ OnePlayer)
<1>1. SnakesInv /\ WholeInv => SnakesTypeOK /\ HangsTogether /\ OnePlayer
    <2> SUFFICES ASSUME SnakesInv, WholeInv PROVE SnakesTypeOK /\ HangsTogether /\ OnePlayer
        OBVIOUS
    <2>1. ASSUME NEW p \in Players
          PROVE  /\ player[p].direction \in Directions /\ player[p].state \in BOOLEAN
                 /\ Len(player[p].body) <= MAX_LENGTH /\ Cells(player[p]) \subseteq Coordinates
        <3>1. player[p] \in Snake /\ Whole(player[p])
            BY DEF SnakesInv, SnakesTyped, WholeInv, AllWhole
        <3>2. ToSet(player[p].body) \subseteq Coordinates
            BY <3>1 DEF Whole, ToSet
        <3> QED BY <3>1, <3>2 DEF Snake, Whole, Cells
    <2>2. SnakesTypeOK
        BY <2>1 DEF SnakesTypeOK, SnakesInv, SnakesTyped, WholeInv
    <2>3. HangsTogether
        BY DEF HangsTogether, WholeInv, AllWhole, Whole, Chain
    <2> QED BY <2>2, <2>3 DEF SnakesInv
<1> QED BY <1>1, SnakesInvHolds, WholeInvHolds, PTL

==============================================================================
