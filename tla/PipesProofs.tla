---------------------------- MODULE PipesProofs ----------------------------
(***************************************************************************)
(* Proofs about Pipes: the ring buffer as a channel and who is inside when *)
(* it is freed, whatever the processes do, and who sleeps inside, as long  *)
(* as the users of the pipe are woken by each other only.                  *)
(***************************************************************************)
EXTENDS Pipes, SemaphoresProofs, WellFoundedInduction

(* What the assumptions on the constants say.                              *)
LEMMA PipeConstants ==
    /\ PIPE_BUFFER \in Nat /\ PIPE_BUFFER >= 1
    /\ Index \in Nat /\ Index > PIPE_BUFFER + 1 /\ Index % PIPE_BUFFER = 0
    /\ SemIds = {writequeue, readqueue} /\ writequeue # readqueue
    /\ User # writequeue /\ User # readqueue
    /\ \A n \in ReadCounts \cup WriteCounts : n \in Nat /\ n >= 1
    /\ Writers \subseteq Pids /\ Garbage \subseteq Pids \cup {0}
    /\ \A p \in Pids : p \in Nat /\ p # 0
    /\ \A id \in Foreign : id \in Nat /\ id \notin SemIds
<1>1. User \notin SemIds
    BY SemConstants
<1>2. \A p \in Pids : p \in Nat /\ p # 0
    BY Constants1
<1> QED BY <1>1, <1>2, PipesAssumption

---------------------------------------------------------------------------
(* Division with remainder, by any positive N.                             *)
LEMMA MultStep ==
    ASSUME NEW N \in Nat, N >= 1, NEW d \in Int, d >= 1
    PROVE  N * d >= N
OBVIOUS

(* The remainder is the only one there is.                                 *)
LEMMA DivUnique ==
    ASSUME NEW N \in Nat, N >= 1, NEW x \in Int, NEW q \in Int, NEW b \in 0..(N - 1),
           x = N * q + b
    PROVE  x % N = b
<1> DEFINE d == x \div N
           m == x % N
<1>1. d \in Int /\ m \in 0..(N - 1) /\ x = N * d + m
    OBVIOUS
<1> HIDE DEF d, m
<1>2. N * q + b = N * d + m
    BY <1>1
<1>3. N * (q - d) = m - b
    BY <1>1, <1>2
<1>4. CASE q - d >= 1
    <2>1. N * (q - d) >= N
        BY <1>1, <1>4, MultStep
    <2> QED BY <1>1, <1>3, <2>1
<1>5. CASE d - q >= 1
    <2>1. N * (d - q) >= N
        BY <1>1, <1>5, MultStep
    <2>2. N * (d - q) = b - m
        BY <1>1, <1>2
    <2> QED BY <1>1, <2>1, <2>2
<1>6. CASE q = d
    BY <1>1, <1>2, <1>6 DEF m
<1> QED BY <1>1, <1>4, <1>5, <1>6

(* A multiple of N makes no difference.                                    *)
LEMMA ModPeriod ==
    ASSUME NEW N \in Nat, N >= 1, NEW M \in Nat, M % N = 0, NEW x \in Int
    PROVE  (x - M) % N = x % N
<1> DEFINE d == x \div N
           b == x % N
           e == M \div N
<1>1. d \in Int /\ b \in 0..(N - 1) /\ x = N * d + b
    OBVIOUS
<1>2. e \in Int /\ M = N * e
    OBVIOUS
<1> HIDE DEF d, b, e
<1>3. x - M = N * (d - e) + b
    BY <1>1, <1>2
<1>4. x - M \in Int /\ d - e \in Int
    BY <1>1, <1>2
<1>5. (x - M) % N = b
    BY <1>1, <1>3, <1>4, DivUnique
<1> QED BY <1>5 DEF b

(* Numbers less than N apart have different remainders.                    *)
LEMMA ModApart ==
    ASSUME NEW N \in Nat, N >= 1, NEW x \in Int, NEW y \in Int, 0 < y - x, y - x < N
    PROVE  x % N # y % N
<1> DEFINE d == x \div N
           b == x % N
           c == b + (y - x)
<1>1. d \in Int /\ b \in 0..(N - 1) /\ x = N * d + b
    OBVIOUS
<1> HIDE DEF d, b
<1>2. CASE c < N
    <2>1. y = N * d + c /\ c \in 0..(N - 1) /\ d \in Int
        BY <1>1, <1>2
    <2> HIDE DEF c
    <2>2. y % N = c
        BY <2>1, DivUnique
    <2> QED BY <1>1, <2>2 DEF b, c
<1>3. CASE c >= N
    <2>1. y = N * (d + 1) + (c - N) /\ c - N \in 0..(N - 1) /\ d + 1 \in Int
        BY <1>1, <1>3
    <2> DEFINE e == c - N
    <2>2. y % N = e
        <3>1. y = N * (d + 1) + e /\ e \in 0..(N - 1) /\ d + 1 \in Int
            BY <2>1
        <3> HIDE DEF e
        <3> QED BY <3>1, DivUnique
    <2> QED BY <1>1, <2>2 DEF b
<1> QED BY <1>1, <1>2, <1>3

---------------------------------------------------------------------------
(* The ring.  An index that has gone around its type once at most, and the *)
(* place of the byte it stands for.                                        *)
Place(n) == n % PIPE_BUFFER

(* An index after it has wrapped around, if it has.                        *)
LEMMA IndexWrap ==
    ASSUME NEW n \in Int, 0 <= n, n < Index + Index
    PROVE  /\ n % Index = IF n < Index THEN n ELSE n - Index
           /\ n % Index \in 0..(Index - 1)
           /\ Place(n % Index) = Place(n)
<1>1. Index \in Nat /\ Index >= 1 /\ PIPE_BUFFER \in Nat /\ PIPE_BUFFER >= 1
    BY PipeConstants
<1>2. CASE n < Index
    BY <1>1, <1>2
<1>3. CASE n >= Index
    <2>1. n % Index = n - Index /\ n - Index \in 0..(Index - 1)
        <3>1. n = Index * 1 + (n - Index) /\ n - Index \in 0..(Index - 1)
            BY <1>1, <1>3
        <3> QED BY <1>1, <3>1, DivUnique
    <2>2. (n - Index) % PIPE_BUFFER = n % PIPE_BUFFER
        BY <1>1, PipeConstants, ModPeriod
    <2> QED BY <1>1, <1>3, <2>1, <2>2 DEF Place
<1> QED BY <1>1, <1>2, <1>3

(* The fields of a pipe.                                                   *)
LEMMA PipeFields ==
    ASSUME NEW s \in PipeRecord
    PROVE  /\ s.buf \in [0..(PIPE_BUFFER - 1) -> (Pids \X Nat) \cup {EOF}]
           /\ s.readIdx \in 0..(Index - 1) /\ s.writeIdx \in 0..(Index - 1)
           /\ s.readIdx \in Int /\ s.writeIdx \in Int
           /\ s.readOpen \in BOOLEAN /\ s.writeOpen \in BOOLEAN
           /\ s.readPID \in Pids \cup {0} /\ s.writePID \in Pids \cup {0}
BY PipeConstants DEF PipeRecord

(* The number of bytes in the ring, and where they are.                    *)
LEMMA LevelFacts ==
    ASSUME NEW s \in PipeRecord
    PROVE  /\ Level(s) \in 0..(Index - 1) /\ Level(s) \in Int
           /\ s.writeIdx = IF s.readIdx + Level(s) < Index THEN s.readIdx + Level(s)
                           ELSE (s.readIdx + Level(s)) - Index
           /\ s.writeIdx = Add(s.readIdx, Level(s))
           /\ Place(s.writeIdx) = Place(s.readIdx + Level(s))
<1>1. Index \in Nat /\ Index >= 1
    BY PipeConstants
<1> DEFINE r == s.readIdx
           w == s.writeIdx
           l == IF w >= r THEN w - r ELSE (w - r) + Index
           n == w - r
<1>2. r \in 0..(Index - 1) /\ w \in 0..(Index - 1)
    BY PipeFields
<1>3. n \in Int /\ l \in 0..(Index - 1) /\ w = IF r + l < Index THEN r + l ELSE (r + l) - Index
    BY <1>1, <1>2
<1>4. n % Index = l
    <2>1. CASE w >= r
        <3>1. n = Index * 0 + l
            BY <1>1, <1>2, <2>1
        <3> HIDE DEF n, l
        <3> QED BY <1>1, <1>3, <3>1, DivUnique
    <2>2. CASE w < r
        <3>1. n = Index * (-1) + l /\ -1 \in Int
            BY <1>1, <1>2, <2>2
        <3> HIDE DEF n, l
        <3> QED BY <1>1, <1>3, <3>1, DivUnique
    <2> QED BY <1>2, <2>1, <2>2
<1>5. Level(s) = l
    BY <1>4 DEF Level
<1> HIDE DEF l, n
<1> DEFINE m == r + l
<1>6. m \in Int /\ 0 <= m /\ m < Index + Index
    BY <1>1, <1>2, <1>3
<1> HIDE DEF m
<1>7. m % Index = (IF m < Index THEN m ELSE m - Index) /\ Place(m % Index) = Place(m)
    BY <1>6, IndexWrap
<1>8. w = m % Index
    BY <1>3, <1>7 DEF m
<1> QED BY <1>3, <1>5, <1>7, <1>8 DEF m, Add

(* A byte of the ring in terms of its place.                               *)
LEMMA AtPlace ==
    ASSUME NEW s \in PipeRecord, NEW j \in 0..Index
    PROVE  At(s, j) = s.buf[Place(s.readIdx + j)] /\ Place(s.readIdx + j) \in 0..(PIPE_BUFFER - 1)
<1>1. Index \in Nat /\ PIPE_BUFFER \in Nat /\ PIPE_BUFFER >= 1
    BY PipeConstants
<1> DEFINE n == s.readIdx + j
<1>2. n \in Int /\ 0 <= n /\ n < Index + Index
    BY <1>1, PipeFields
<1> HIDE DEF n
<1>3. Place(n % Index) = Place(n)
    BY <1>2, IndexWrap
<1>4. Place(n) \in 0..(PIPE_BUFFER - 1)
    BY <1>1, <1>2 DEF Place
<1> QED BY <1>3, <1>4 DEF At, Add, Place, n

(* Empty and full, in terms of the level.                                  *)
LEMMA FullFacts ==
    ASSUME NEW s \in PipeRecord
    PROVE  (Empty(s) <=> Level(s) = 0) /\ (Full(s) <=> Level(s) = PIPE_BUFFER)
<1>1. Index \in Nat /\ PIPE_BUFFER \in Nat /\ PIPE_BUFFER >= 1 /\ Index > PIPE_BUFFER
    BY PipeConstants
<1> DEFINE n == s.readIdx + PIPE_BUFFER
           l == Level(s)
<1>2. n \in Int /\ 0 <= n /\ n < Index + Index
    BY <1>1, PipeFields
<1>3. /\ l \in 0..(Index - 1)
      /\ s.writeIdx = IF s.readIdx + l < Index THEN s.readIdx + l ELSE (s.readIdx + l) - Index
    BY LevelFacts
<1> HIDE DEF l
<1>4. Empty(s) <=> l = 0
    BY <1>1, <1>3, PipeFields DEF Empty
<1> HIDE DEF n
<1>5. n % Index = IF n < Index THEN n ELSE n - Index
    BY <1>2, IndexWrap
<1>6. Full(s) <=> s.writeIdx = n % Index
    BY DEF Full, Add, n
<1>7. Full(s) <=> l = PIPE_BUFFER
    <2> DEFINE r == s.readIdx
               w == s.writeIdx
    <2>1. r \in Int /\ r >= 0 /\ r < Index /\ l \in Int /\ l >= 0 /\ l < Index
        BY <1>1, <1>3, PipeFields
    <2>2. /\ w = IF r + l < Index THEN r + l ELSE (r + l) - Index
          /\ n % Index = IF r + PIPE_BUFFER < Index THEN r + PIPE_BUFFER
                        ELSE (r + PIPE_BUFFER) - Index
        BY <1>3, <1>5 DEF n
    <2>3. Full(s) <=> w = n % Index
        BY <1>6
    <2> HIDE DEF r, w
    <2> QED BY <1>1, <2>1, <2>2, <2>3
<1> QED BY <1>4, <1>7 DEF l

(* A byte that is put behind the others; only a ring with one byte too     *)
(* many loses its first one to it.                                         *)
LEMMA PutByteFacts ==
    ASSUME NEW s \in PipeRecord, NEW b \in (Pids \X Nat) \cup {EOF}, Level(s) <= PIPE_BUFFER
    PROVE  LET t == PutByte(s, b)
           IN  /\ t \in PipeRecord /\ Level(t) = Level(s) + 1
               /\ t.readIdx = s.readIdx /\ t.readOpen = s.readOpen /\ t.writeOpen = s.writeOpen
               /\ t.readPID = s.readPID /\ t.writePID = s.writePID
               /\ \A j \in 0..(Level(s) - 1) :
                    At(t, j) = IF Level(s) = PIPE_BUFFER /\ j = 0 THEN b ELSE At(s, j)
               /\ At(t, Level(s)) = b
<1>1. /\ Index \in Nat /\ PIPE_BUFFER \in Nat /\ PIPE_BUFFER >= 1 /\ Index > PIPE_BUFFER + 1
    BY PipeConstants
<1> DEFINE l == Level(s)
           r == s.readIdx
           w == s.writeIdx
           x == Place(w)
           n == Add(w, 1)
           B == [0..(PIPE_BUFFER - 1) -> (Pids \X Nat) \cup {EOF}]
           u == [s.buf EXCEPT ![x] = b]
           t == PutByte(s, b)
<1>2. /\ r \in 0..(Index - 1) /\ w \in 0..(Index - 1) /\ l \in Int /\ l >= 0 /\ l <= PIPE_BUFFER
      /\ w = IF r + l < Index THEN r + l ELSE (r + l) - Index
      /\ x = Place(r + l)
    BY PipeFields, LevelFacts
<1>3. x \in 0..(PIPE_BUFFER - 1)
    BY <1>1, <1>2 DEF Place
<1>4. u \in B /\ \A i \in 0..(PIPE_BUFFER - 1) : u[i] = IF i = x THEN b ELSE s.buf[i]
    BY <1>3, PipeFields
<1>5. n \in 0..(Index - 1) /\ n = IF w + 1 < Index THEN w + 1 ELSE (w + 1) - Index
    <2> DEFINE m == w + 1
    <2>1. m \in Int /\ 0 <= m /\ m < Index + Index
        BY <1>1, <1>2
    <2> HIDE DEF m
    <2>2. m % Index \in 0..(Index - 1) /\ m % Index = IF m < Index THEN m ELSE m - Index
        BY <2>1, IndexWrap
    <2> QED BY <2>2 DEF m, Add
<1>6. t = [s EXCEPT !.buf = u, !.writeIdx = n]
    BY DEF PutByte, Place, PipeRecord
<1> HIDE DEF u, n, B, t
<1>7. /\ t \in PipeRecord /\ t.buf = u /\ t.writeIdx = n /\ t.readIdx = r
      /\ t.readOpen = s.readOpen /\ t.writeOpen = s.writeOpen
      /\ t.readPID = s.readPID /\ t.writePID = s.writePID
    BY <1>4, <1>5, <1>6 DEF PipeRecord, B
<1>8. Level(t) = l + 1
    <2>1. /\ Level(t) \in 0..(Index - 1)
          /\ n = IF r + Level(t) < Index THEN r + Level(t) ELSE (r + Level(t)) - Index
        BY <1>7, LevelFacts
    <2> HIDE DEF l, r, w, x
    <2> QED BY <1>1, <1>2, <1>5, <2>1
<1>9. ASSUME NEW j \in 0..l
      PROVE  At(t, j) = IF j = l \/ (l = PIPE_BUFFER /\ j = 0) THEN b ELSE At(s, j)
    <2>1. j \in 0..Index
        BY <1>1, <1>2
    <2>2. /\ At(t, j) = u[Place(r + j)] /\ At(s, j) = s.buf[Place(r + j)]
          /\ Place(r + j) \in 0..(PIPE_BUFFER - 1)
        BY <1>7, <2>1, AtPlace
    <2>3. CASE j = l
        BY <1>2, <1>4, <2>2, <2>3
    <2>4. CASE l = PIPE_BUFFER /\ j = 0
        <3> DEFINE y == r + l
        <3>1. y \in Int
            BY <1>1, <1>2
        <3> HIDE DEF y
        <3>2. (y - PIPE_BUFFER) % PIPE_BUFFER = y % PIPE_BUFFER
            <4>1. PIPE_BUFFER % PIPE_BUFFER = 0
                BY <1>1
            <4> QED BY <1>1, <3>1, <4>1, ModPeriod
        <3>3. y - PIPE_BUFFER = r + j
            BY <1>1, <1>2, <2>4 DEF y
        <3>4. Place(r + j) = x
            BY <1>2, <3>2, <3>3 DEF Place, y
        <3> QED BY <1>4, <2>2, <2>4, <3>4
    <2>5. CASE j # l /\ ~(l = PIPE_BUFFER /\ j = 0)
        <3>1. r + j \in Int /\ r + l \in Int /\ 0 < (r + l) - (r + j) /\ (r + l) - (r + j) < PIPE_BUFFER
            BY <1>1, <1>2, <2>5
        <3>2. Place(r + j) # x
            BY <1>1, <1>2, <3>1, ModApart DEF Place
        <3> QED BY <1>4, <2>2, <2>5, <3>2
    <2> QED BY <2>3, <2>4, <2>5
<1>10. /\ At(t, l) = b
       /\ \A j \in 0..(l - 1) : At(t, j) = IF l = PIPE_BUFFER /\ j = 0 THEN b ELSE At(s, j)
    <2>1. l \in 0..l /\ \A j \in 0..(l - 1) : j \in 0..l /\ j # l
        BY <1>2
    <2> QED BY <1>9, <2>1
<1> QED BY <1>7, <1>8, <1>10 DEF t

(* The bytes a read takes: as many as asked for, or as there are, or as    *)
(* there are in front of the end.                                          *)
LEMMA TakenFacts ==
    ASSUME NEW s \in PipeRecord, NEW n \in Nat
    PROVE  LET m == Taken(s, n)
           IN  /\ m \in 0..n /\ m <= Level(s)
               /\ \A j \in 0..(m - 1) : At(s, j) # EOF
               /\ m = n \/ m = Level(s) \/ At(s, m) = EOF
<1> DEFINE P(m) == m = n \/ m = Level(s) \/ At(s, m) = EOF
           S == {m \in 0..n : m <= Level(s) /\ P(m)}
           below == OpToRel(<, Nat)
<1>1. Level(s) \in Nat
    BY LevelFacts, PipeConstants
<1>2. S # {} /\ S \subseteq Nat
    <2>1. CASE n <= Level(s)
        BY <1>1, <2>1
    <2>2. CASE Level(s) <= n
        BY <1>1, <2>2
    <2> QED BY <1>1, <2>1, <2>2
<1>3. \E g \in S : \A h \in S : ~(<<h, g>> \in below)
    <2>1. IsWellFoundedOn(below, Nat)
        BY NatLessThanWellFounded
    <2> HIDE DEF below, S
    <2> QED BY <1>2, <2>1, WFMin, Zenon
<1>4. \A g, h \in Nat : <<h, g>> \in below <=> h < g
    BY DEF OpToRel
<1> HIDE DEF below
<1>5. PICK g \in S : \A h \in S : ~(<<h, g>> \in below)
    BY <1>3
<1>6. ASSUME NEW j \in 0..(g - 1) PROVE At(s, j) # EOF
    <2>1. g \in Nat /\ g \in 0..n /\ g <= Level(s) /\ j \in Nat /\ j \in 0..n /\ j <= Level(s) /\ j < g
        BY <1>1, <1>2, <1>5
    <2>2. <<j, g>> \in below
        BY <1>4, <2>1
    <2>3. j \notin S
        BY <1>5, <2>2
    <2> QED BY <2>1, <2>3
<1>7. \E m \in 0..n : /\ m <= Level(s)
                      /\ \A j \in 0..(m - 1) : At(s, j) # EOF
                      /\ m = n \/ m = Level(s) \/ At(s, m) = EOF
    BY <1>5, <1>6
<1> QED BY <1>7 DEF Taken

(* The first bytes are taken out.                                          *)
LEMMA TakeFacts ==
    ASSUME NEW s \in PipeRecord, NEW m \in 0..Level(s), Level(s) <= PIPE_BUFFER + 1
    PROVE  LET t == [s EXCEPT !.readPID = 0, !.readIdx = Add(@, m)]
           IN  /\ t \in PipeRecord /\ Level(t) = Level(s) - m
               /\ t.writeIdx = s.writeIdx /\ t.readOpen = s.readOpen
               /\ t.writeOpen = s.writeOpen /\ t.readPID = 0 /\ t.writePID = s.writePID
               /\ \A j \in 0..(Level(s) - m) : At(t, j) = At(s, m + j)
<1>1. Index \in Nat /\ PIPE_BUFFER \in Nat /\ Index > PIPE_BUFFER + 1
    BY PipeConstants
<1> DEFINE l == Level(s)
           r == s.readIdx
           w == s.writeIdx
           n == Add(r, m)
           t == [s EXCEPT !.readPID = 0, !.readIdx = n]
<1>2. /\ r \in 0..(Index - 1) /\ w \in 0..(Index - 1) /\ l \in Int /\ l >= 0 /\ l < Index
      /\ m \in Int /\ m >= 0 /\ m <= l /\ l <= PIPE_BUFFER + 1
      /\ w = IF r + l < Index THEN r + l ELSE (r + l) - Index
    <2>1. /\ l \in 0..(Index - 1) /\ r \in 0..(Index - 1) /\ w \in 0..(Index - 1)
          /\ w = IF r + l < Index THEN r + l ELSE (r + l) - Index
        BY PipeFields, LevelFacts
    <2>2. m \in 0..l /\ l <= PIPE_BUFFER + 1
        OBVIOUS
    <2> HIDE DEF l, r, w
    <2> QED BY <1>1, <2>1, <2>2
<1>3. n \in 0..(Index - 1) /\ n = IF r + m < Index THEN r + m ELSE (r + m) - Index
    <2> DEFINE y == r + m
    <2>1. y \in Int /\ 0 <= y /\ y < Index + Index
        BY <1>1, <1>2
    <2> HIDE DEF y
    <2>2. y % Index \in 0..(Index - 1) /\ y % Index = IF y < Index THEN y ELSE y - Index
        BY <2>1, IndexWrap
    <2> QED BY <2>2 DEF y, Add
<1> HIDE DEF n
<1>4. /\ t \in PipeRecord /\ t.buf = s.buf /\ t.writeIdx = w /\ t.readIdx = n
      /\ t.readOpen = s.readOpen /\ t.writeOpen = s.writeOpen
      /\ t.readPID = 0 /\ t.writePID = s.writePID
    <2> DEFINE B == [0..(PIPE_BUFFER - 1) -> (Pids \X Nat) \cup {EOF}]
    <2>1. PipeRecord = [buf : B, readIdx : 0..(Index - 1), writeIdx : 0..(Index - 1),
                        readOpen : BOOLEAN, writeOpen : BOOLEAN,
                        readPID : Pids \cup {0}, writePID : Pids \cup {0}]
        BY DEF PipeRecord
    <2> HIDE DEF B
    <2> QED BY <1>3, <2>1
<1> HIDE DEF t
<1>5. Level(t) = l - m
    <2>1. /\ Level(t) \in 0..(Index - 1)
          /\ w = IF n + Level(t) < Index THEN n + Level(t) ELSE (n + Level(t)) - Index
        BY <1>4, LevelFacts
    <2> HIDE DEF l, r, w
    <2> QED BY <1>1, <1>2, <1>3, <2>1
<1>6. ASSUME NEW j \in 0..(l - m)
      PROVE  At(t, j) = At(s, m + j)
    <2>1. j \in 0..Index /\ m + j \in 0..Index /\ j \in Int
        BY <1>1, <1>2
    <2>2. At(t, j) = s.buf[Place(n + j)] /\ At(s, m + j) = s.buf[Place(r + (m + j))]
        BY <1>4, <2>1, AtPlace
    <2> DEFINE y == r + (m + j)
    <2>3. y \in Int /\ (n + j = y \/ n + j = y - Index)
        BY <1>1, <1>2, <1>3, <2>1
    <2> HIDE DEF y
    <2>4. (y - Index) % PIPE_BUFFER = y % PIPE_BUFFER
        BY <2>3, PipeConstants, ModPeriod
    <2>5. Place(n + j) = Place(y)
        BY <2>3, <2>4 DEF Place
    <2> QED BY <2>2, <2>5 DEF y
<1> QED BY <1>4, <1>5, <1>6 DEF t, n

---------------------------------------------------------------------------
(* What a place of the buffer may hold.                                    *)
Cell == (Pids \X Nat) \cup {EOF}

(* Every byte of the ring is one.                                          *)
LEMMA AtType ==
    ASSUME NEW s \in PipeRecord, NEW j \in 0..Index
    PROVE  At(s, j) \in Cell
<1> DEFINE i == Place(s.readIdx + j)
<1>1. At(s, j) = s.buf[i] /\ i \in 0..(PIPE_BUFFER - 1)
    BY AtPlace
<1> HIDE DEF i
<1>2. s.buf \in [0..(PIPE_BUFFER - 1) -> Cell]
    BY PipeFields DEF Cell
<1> QED BY <1>1, <1>2

(* The bytes in the ring as a sequence.                                    *)
LEMMA ContentsSeq ==
    ASSUME pipe \in PipeRecord
    PROVE  /\ Contents \in Seq(Cell) /\ Len(Contents) = Level(pipe)
           /\ \A j \in 1..Level(pipe) : Contents[j] = At(pipe, j - 1)
<1> DEFINE n == Level(pipe)
<1>1. n \in Nat /\ n \in 0..(Index - 1) /\ Index \in Nat
    BY LevelFacts, PipeConstants
<1>2. ASSUME NEW j \in 1..n PROVE At(pipe, j - 1) \in Cell
    <2>1. j - 1 \in 0..Index
        BY <1>1, <1>2
    <2> QED BY <2>1, AtType
<1> HIDE DEF n
<1>3. Contents = [j \in 1..n |-> At(pipe, j - 1)]
    BY DEF Contents, n
<1>4. Contents \in Seq(Cell) /\ Len(Contents) = n
    BY <1>1, <1>2, <1>3
<1>5. \A j \in 1..n : Contents[j] = At(pipe, j - 1)
    BY <1>3
<1> QED BY <1>4, <1>5 DEF n

(* The same of the state a step leads to.                                  *)
LEMMA ContentsNext ==
    ASSUME pipe' \in PipeRecord
    PROVE  /\ Contents' \in Seq(Cell) /\ Len(Contents') = Level(pipe')
           /\ \A j \in 1..Level(pipe') : Contents'[j] = At(pipe', j - 1)
<1> DEFINE n == Level(pipe')
<1>1. n \in Nat /\ n \in 0..(Index - 1) /\ Index \in Nat
    BY LevelFacts, PipeConstants
<1>2. ASSUME NEW j \in 1..n PROVE At(pipe', j - 1) \in Cell
    <2>1. j - 1 \in 0..Index
        BY <1>1, <1>2
    <2> QED BY <2>1, AtType
<1> HIDE DEF n
<1>3. Contents' = [j \in 1..n |-> At(pipe', j - 1)]
    BY DEF Contents, n
<1>4. Contents' \in Seq(Cell) /\ Len(Contents') = n
    BY <1>1, <1>2, <1>3
<1>5. \A j \in 1..n : Contents'[j] = At(pipe', j - 1)
    BY <1>3
<1> QED BY <1>4, <1>5 DEF n

(* Appending a byte.                                                       *)
LEMMA Appended ==
    ASSUME pipe \in PipeRecord, pipe' \in PipeRecord, NEW b \in Cell,
           Level(pipe') = Level(pipe) + 1, At(pipe', Level(pipe)) = b,
           \A j \in 0..(Level(pipe) - 1) : At(pipe', j) = At(pipe, j)
    PROVE  Contents' = Append(Contents, b)
<1> DEFINE n == Level(pipe)
           c == Contents
           d == Contents'
<1>1. n \in Nat /\ c \in Seq(Cell) /\ Len(c) = n /\ d \in Seq(Cell) /\ Len(d) = n + 1
    BY ContentsSeq, ContentsNext, LevelFacts, PipeConstants
<1>2. /\ \A j \in 1..n : c[j] = At(pipe, j - 1)
      /\ \A j \in 1..(n + 1) : d[j] = At(pipe', j - 1)
    BY ContentsSeq, ContentsNext
<1>3. ASSUME NEW j \in 1..(n + 1) PROVE d[j] = IF j = n + 1 THEN b ELSE c[j]
    <2>1. CASE j = n + 1
        BY <1>1, <1>2, <2>1
    <2>2. CASE j # n + 1
        <3>1. j \in 1..n /\ j - 1 \in 0..(n - 1)
            BY <1>1, <2>2
        <3> QED BY <1>2, <2>2, <3>1
    <2> QED BY <2>1, <2>2
<1> HIDE DEF n, c, d
<1>4. d = Append(c, b)
    BY <1>1, <1>3
<1> QED BY <1>4 DEF c, d

(* Taking the first m bytes.                                               *)
LEMMA Dropped ==
    ASSUME pipe \in PipeRecord, pipe' \in PipeRecord, NEW m \in 0..Level(pipe),
           Level(pipe') = Level(pipe) - m,
           \A j \in 0..(Level(pipe) - m) : At(pipe', j) = At(pipe, m + j)
    PROVE  /\ Contents' = SubSeq(Contents, m + 1, Len(Contents))
           /\ m = 0 => Contents' = Contents
<1> DEFINE n == Level(pipe)
           c == Contents
           d == Contents'
<1>1. /\ n \in Nat /\ m \in Nat /\ m <= n /\ c \in Seq(Cell) /\ Len(c) = n
      /\ d \in Seq(Cell) /\ Len(d) = n - m
    BY ContentsSeq, ContentsNext, LevelFacts, PipeConstants
<1>2. /\ \A j \in 1..n : c[j] = At(pipe, j - 1)
      /\ \A j \in 1..(n - m) : d[j] = At(pipe', j - 1)
    BY ContentsSeq, ContentsNext
<1>3. ASSUME NEW j \in 1..(n - m) PROVE d[j] = c[m + j]
    <2>1. j - 1 \in 0..(n - m) /\ m + j \in 1..n /\ (m + j) - 1 = m + (j - 1)
        BY <1>1
    <2> QED BY <1>2, <2>1
<1> HIDE DEF n, c, d
<1>4. d = SubSeq(c, m + 1, Len(c))
    BY <1>1, <1>3
<1>5. m = 0 => d = c
    BY <1>1, <1>3
<1> QED BY <1>4, <1>5 DEF c, d

---------------------------------------------------------------------------
(* The pipe as every step leaves it.  A frame in the pipe is that of a     *)
(* process that holds the end it uses, and sleeps where semWait says.      *)
CallState(p) ==
    /\ call[p].at \in {"rsem", "read", "empty"} => p \in holders["READ"]
    /\ call[p].at \in {"wsem", "write", "full"} =>
            /\ p \in holders["WRITE"]
            /\ call[p].count \in WriteCounts /\ call[p].i \in 1..call[p].count
    /\ frame[p] \in {User, readqueue, writequeue}
    /\ frame[p] = readqueue <=> call[p].at = "rsem"
    /\ frame[p] = writequeue <=> call[p].at = "wsem"

(* An end is open while somebody holds it, and the queues exist while one  *)
(* end is open.                                                            *)
EndsState ==
    /\ holders \in [{"READ", "WRITE"} -> SUBSET (Pids \cup {Leaked})]
    /\ pipe.readOpen <=> holders["READ"] # {}
    /\ pipe.writeOpen <=> holders["WRITE"] # {}
    /\ \A id \in SemIds : sems[id].exists <=> (pipe.readOpen \/ pipe.writeOpen)

(* One byte more than the buffer has room for is the end of the data, over *)
(* the first byte.                                                         *)
RingState ==
    /\ Level(pipe) <= PIPE_BUFFER + 1
    /\ pipe.writeOpen => Level(pipe) <= PIPE_BUFFER
    /\ Level(pipe) = PIPE_BUFFER + 1 => At(pipe, 0) = EOF

PipeState ==
    /\ SemState /\ pipe \in PipeRecord /\ call \in [Pids -> PipeCall]
    /\ trouble \subseteq {"garbage", "surplus"}
    /\ \A p \in Pids : CallState(p)
    /\ EndsState /\ RingState

(* What it says of the property.                                           *)
LEMMA PipeStateInside ==
    PipeState => NotFreedInside
<1> SUFFICES ASSUME PipeState PROVE NotFreedInside
    OBVIOUS
<1>1. PipeTypeOK
    <2>1. SemTypeOK
        BY DEF PipeState, SemState, SemTypeOK, TypeOK, IInv, Core
    <2> QED BY <2>1 DEF PipeState, EndsState, PipeTypeOK
<1>2. ASSUME Freed, NEW p \in Pids PROVE call[p].at = "user" /\ frame[p] = User
    <2>1. holders["READ"] = {} /\ holders["WRITE"] = {}
        BY <1>2 DEF Freed, PipeState, EndsState
    <2>2. call[p].at \in {"user", "rsem", "read", "empty", "wsem", "write", "full"}
        BY DEF PipeState, PipeCall
    <2> QED BY <2>1, <2>2 DEF PipeState, CallState
<1> QED BY <1>1, <1>2 DEF NotFreedInside

(* One frame changes.                                                      *)
LEMMA OneFrame ==
    ASSUME PipeState, NEW p \in Pids, NEW c \in PipeCall, call' = [call EXCEPT ![p] = c]
    PROVE  /\ call' \in [Pids -> PipeCall] /\ call'[p] = c
           /\ \A q \in Pids : q # p => call'[q] = call[q]
BY DEF PipeState

(* A frame in terms of its fields.                                         *)
LEMMA FrameFields ==
    ASSUME NEW c \in PipeCall
    PROVE  /\ c.i \in Nat /\ c.count \in Nat
           /\ \A at \in {"user", "rsem", "read", "empty", "wsem", "write", "full"} :
                /\ [c EXCEPT !.at = at] \in PipeCall
                /\ [c EXCEPT !.at = at].at = at
                /\ [c EXCEPT !.at = at].i = c.i /\ [c EXCEPT !.at = at].count = c.count
                /\ \A i, n \in Nat : LET d == [at |-> at, i |-> i, count |-> n]
                                     IN  d \in PipeCall /\ d.at = at /\ d.i = i /\ d.count = n
           /\ NoCall \in PipeCall /\ NoCall.at = "user"
BY DEF PipeCall, NoCall

(* Steps of a process inside the pipe leave the ends alone.                *)
LEMMA KeepsPipe ==
    ASSUME PipeState, SemState', holders' = holders, trouble' \subseteq {"garbage", "surplus"},
           pipe' \in PipeRecord, pipe'.readOpen = pipe.readOpen, pipe'.writeOpen = pipe.writeOpen,
           \A id \in SemIds : sems'[id].exists = sems[id].exists, RingState',
           call' \in [Pids -> PipeCall], NEW p \in Pids, CallState(p)',
           \A q \in Pids : q # p => call'[q] = call[q] /\ frame'[q] = frame[q]
    PROVE  PipeState'
<1>1. \A q \in Pids : CallState(q)'
    BY DEF PipeState, CallState
<1>2. EndsState'
    BY DEF PipeState, EndsState
<1> QED BY <1>1, <1>2 DEF PipeState

(* semPost of an id, by a reader of any id.                                *)
LEMMA PostedFacts ==
    ASSUME SemState, NEW id, sems' = Posted(id)
    PROVE  \/ /\ Exists(id) /\ id \in SemIds
              /\ Became(id, TRUE, (sems[id].value + 1) % Word, sems[id].activeQueue,
                        popBlockedQueue(sems[id].blockedQueue))
           \/ ~Exists(id) /\ sems' = sems
<1>1. CASE ~Exists(id)
    BY <1>1 DEF Posted
<1>2. CASE Exists(id)
    <2> DEFINE c == sems[id]
               v == (c.value + 1) % Word
               q == popBlockedQueue(c.blockedQueue)
               d == [c EXCEPT !.value = v, !.blockedQueue = q]
    <2>1. id \in SemIds /\ c.exists /\ c \in semaphore /\ c.lock = FALSE
        BY <1>2 DEF Exists, searchSemaphore, SemState
    <2>2. v \in 0..(Word - 1)
        <3> DEFINE n == c.value + 1
        <3>1. n \in Int
            BY <2>1, SemFields DEF SemState
        <3> HIDE DEF n
        <3>2. n % Word \in 0..(Word - 1)
            BY <3>1, ModFact
        <3> QED BY <3>2 DEF n
    <2>3. q \in Seq(Pids)
        <3>1. c.blockedQueue \in Seq(Pids)
            BY <2>1, SemFields DEF SemState
        <3> QED BY <3>1 DEF popBlockedQueue
    <2>4. sems' = [sems EXCEPT ![id] = d]
        BY <1>2, <2>1 DEF Posted, SemState
    <2> HIDE DEF v, q
    <2>5. /\ d \in semaphore /\ d.lock = FALSE /\ d.exists = TRUE /\ d.value = v
          /\ d.activeQueue = c.activeQueue /\ d.blockedQueue = q
        BY <2>1, <2>2, <2>3 DEF semaphore
    <2> HIDE DEF d
    <2>6. Became(id, d.exists, d.value, d.activeQueue, d.blockedQueue)
        BY <2>1, <2>4, <2>5, SemUpdate DEF SemState
    <2> QED BY <1>2, <2>1, <2>5, <2>6 DEF v, q
<1> QED BY <1>1, <1>2

(* The queues as the post leaves them.                                     *)
LEMMA PostedState ==
    ASSUME SemState, IInv(k'), frame' = frame, NEW id, sems' = Posted(id)
    PROVE  SemState' /\ \A j \in SemIds : sems'[j].exists = sems[j].exists
<1>1. CASE ~Exists(id)
    <2>1. sems' = sems
        BY <1>1, PostedFacts
    <2> QED BY <2>1 DEF SemState
<1>2. CASE Exists(id)
    <2> DEFINE v == (sems[id].value + 1) % Word
               a == sems[id].activeQueue
               q == popBlockedQueue(sems[id].blockedQueue)
    <2>1. id \in SemIds /\ Became(id, TRUE, v, a, q)
        BY <1>2, PostedFacts
    <2>2. sems[id].exists = TRUE /\ IsInjective(a)
        BY <1>2, <2>1, SemFields DEF Exists, searchSemaphore, SemState
    <2>3. /\ frame' \in [Pids -> SemIds \cup {User, Dangling}]
          /\ \A p \in Pids : frame'[p] \in SemIds => frame'[p] = frame[p]
        BY DEF SemState
    <2> HIDE DEF v, a, q
    <2>4. SemState'
        BY <2>1, <2>2, <2>3, KeepsSemState
    <2> QED BY <2>1, <2>2, <2>4 DEF Became
<1> QED BY <1>1, <1>2

(* What the kernel becomes.                                                *)
LEMMA UnblockedIf ==
    ASSUME NEW s, IInv(s), NEW p \in Pids \cup {0}
    PROVE  IInv(unblockIf(s, p)) /\ unblockIf(s, p).cpu = s.cpu
<1>1. CASE p = 0
    BY <1>1 DEF unblockIf
<1>2. CASE p # 0
    <2>1. p \in Pids /\ unblockIf(s, p) = unblockProcess(s, p)
        BY <1>2 DEF unblockIf
    <2>2. IInv(unblockProcess(s, p))
        BY <2>1, WakeFacts
    <2>3. Core(s) /\ AgreeBut(s, 0) /\ 0 \notin ToSet(s.blocked) /\ p \in Int
        BY <2>1, Constants1, StateLists DEF IInv, Agree
    <2>4. unblockProcess(s, p).cpu = s.cpu
        BY <2>3, UnblockFacts
    <2> QED BY <2>1, <2>2, <2>4
<1> QED BY <1>1, <1>2

(* The kernel after a post, from a state it may already have changed.      *)
LEMMA PostedIInv ==
    ASSUME SemState, NEW s, IInv(s), NEW p \in Pids, s.cpu = p, NEW id
    PROVE  IInv(PostedKernel(s, id))
<1>1. CASE Exists(id)
    <2>1. PostedKernel(s, id) = yield(wakeup(s, sems[id].blockedQueue))
        BY <1>1 DEF PostedKernel
    <2>2. sems[id].blockedQueue \in Seq(Pids)
        BY <1>1, SemFields DEF Exists, SemState
    <2> QED BY <2>1, <2>2, PostLists
<1>2. CASE ~Exists(id) /\ id \in Foreign
    <2>1. PostedKernel(s, id) = yield(s)
        BY <1>2 DEF PostedKernel
    <2> QED BY <2>1, YieldFacts
<1>3. CASE ~Exists(id) /\ id \notin Foreign
    BY <1>3 DEF PostedKernel
<1> QED BY <1>1, <1>2, <1>3

(* Blocking, also of pid 0, which nobody has.                              *)
LEMMA BlockedIInv ==
    ASSUME NEW s, IInv(s), NEW p \in Pids, s.cpu = p, NEW q \in Pids \cup {0}
    PROVE  IInv(blockProcess(s, q))
<1>1. CASE q \in Pids
    BY <1>1, BlockFacts
<1>2. CASE q = 0
    <2>1. Current(s.ready) = p /\ p # 0 /\ s \in KernelState
        BY RunningFacts, PipeConstants
    <2>2. ~searchReadyNode(s, 0)
        BY <2>1, SearchFacts, Constants1
    <2> QED BY <1>2, <2>1, <2>2 DEF blockProcess
<1> QED BY <1>1, <1>2

---------------------------------------------------------------------------
(* What a step is to the channel.                                          *)
ChannelStep == [AbstractChannel!Next]_(AbstractChannel!vars)

(* The ring and the ends stay.                                             *)
SameRing(s, t) ==
    /\ t \in PipeRecord /\ t.buf = s.buf /\ t.readIdx = s.readIdx /\ t.writeIdx = s.writeIdx
    /\ t.readOpen = s.readOpen /\ t.writeOpen = s.writeOpen

(* Nothing of the channel changes.                                         *)
LEMMA SameChannel ==
    ASSUME PipeState, SameRing(pipe, pipe')
    PROVE  RingState' /\ ChannelStep
<1>1. Level(pipe') = Level(pipe) /\ \A j : At(pipe', j) = At(pipe, j)
    BY DEF SameRing, Level, At
<1>2. Contents' = Contents
    BY <1>1 DEF Contents
<1>3. pipe'.writeOpen = pipe.writeOpen
    BY DEF SameRing
<1>4. RingState'
    BY <1>1, <1>3 DEF PipeState, RingState
<1>5. ChannelStep
    BY <1>2, <1>3 DEF ChannelStep, AbstractChannel!vars
<1> QED BY <1>4, <1>5

(* A byte is put where there is room.                                      *)
LEMMA SendChannel ==
    ASSUME PipeState, pipe.writeOpen, ~Full(pipe), NEW b \in Data,
           NEW q \in Pids \cup {0}, pipe' = [PutByte(pipe, b) EXCEPT !.writePID = q]
    PROVE  /\ pipe' \in PipeRecord /\ RingState' /\ ChannelStep
           /\ pipe'.readOpen = pipe.readOpen /\ pipe'.writeOpen = pipe.writeOpen
           /\ pipe'.readPID = pipe.readPID /\ pipe'.writePID = q
<1> DEFINE t == PutByte(pipe, b)
           l == Level(pipe)
<1>1. /\ pipe \in PipeRecord /\ l \in Int /\ l >= 0 /\ l < PIPE_BUFFER
      /\ PIPE_BUFFER \in Nat /\ PIPE_BUFFER >= 1
    <2>1. pipe \in PipeRecord /\ l <= PIPE_BUFFER /\ l \in 0..(Index - 1)
        BY LevelFacts DEF PipeState, RingState
    <2>2. l # PIPE_BUFFER
        BY <2>1, FullFacts
    <2> QED BY <2>1, <2>2, PipeConstants
<1>2. b \in Cell /\ b \in (Pids \X Nat) \cup {EOF}
    <2>1. UNION {1..n : n \in WriteCounts} \subseteq Nat
        BY PipeConstants
    <2> QED BY <2>1 DEF Data, Cell
<1>3. /\ t \in PipeRecord /\ Level(t) = l + 1 /\ t.readOpen = pipe.readOpen
      /\ t.writeOpen = pipe.writeOpen /\ t.readPID = pipe.readPID
      /\ \A j \in 0..(l - 1) : At(t, j) = IF l = PIPE_BUFFER /\ j = 0 THEN b ELSE At(pipe, j)
      /\ At(t, l) = b
    <2>1. Level(pipe) <= PIPE_BUFFER
        BY <1>1
    <2> QED BY <1>1, <1>2, <2>1, PutByteFacts
<1> HIDE DEF t
<1>4. /\ pipe' = [t EXCEPT !.writePID = q]
      /\ pipe' \in PipeRecord /\ pipe'.readOpen = t.readOpen /\ pipe'.writeOpen = t.writeOpen
      /\ pipe'.readPID = t.readPID /\ pipe'.writePID = q
      /\ pipe'.buf = t.buf /\ pipe'.readIdx = t.readIdx /\ pipe'.writeIdx = t.writeIdx
    <2>1. pipe' = [t EXCEPT !.writePID = q]
        BY DEF t
    <2> QED BY <1>3, <2>1 DEF PipeRecord
<1>5. Level(pipe') = Level(t) /\ \A j : At(pipe', j) = At(t, j)
    BY <1>4 DEF Level, At
<1>6. Contents' = Append(Contents, b)
    BY <1>1, <1>2, <1>3, <1>4, <1>5, Appended
<1>7. Len(Contents) = l
    BY <1>1, ContentsSeq
<1>8. AbstractChannel!Send(b)
    BY <1>1, <1>3, <1>4, <1>6, <1>7 DEF AbstractChannel!Send
<1>9. ChannelStep
    BY <1>8 DEF ChannelStep, AbstractChannel!Next
<1>10. RingState'
    BY <1>1, <1>3, <1>5 DEF RingState
<1> QED BY <1>3, <1>4, <1>9, <1>10

(* A read takes the bytes in front of the end.                             *)
LEMMA ReceiveChannel ==
    ASSUME PipeState, NEW n \in Nat,
           pipe' = [pipe EXCEPT !.readPID = 0, !.readIdx = Add(@, Taken(pipe, n))]
    PROVE  /\ pipe' \in PipeRecord /\ RingState' /\ ChannelStep
           /\ pipe'.readOpen = pipe.readOpen /\ pipe'.writeOpen = pipe.writeOpen
           /\ pipe'.readPID = 0 /\ pipe'.writePID = pipe.writePID
<1> DEFINE m == Taken(pipe, n)
           l == Level(pipe)
<1>1. /\ pipe \in PipeRecord /\ l \in Nat /\ l <= PIPE_BUFFER + 1
      /\ PIPE_BUFFER \in Nat /\ PIPE_BUFFER >= 1
    BY LevelFacts, PipeConstants DEF PipeState, RingState
<1>2. /\ m \in Nat /\ m <= l
      /\ \A j \in 0..(m - 1) : At(pipe, j) # EOF
    BY <1>1, TakenFacts
<1> HIDE DEF m
<1>3. /\ pipe' = [pipe EXCEPT !.readPID = 0, !.readIdx = Add(@, m)]
      /\ m \in 0..Level(pipe)
    BY <1>1, <1>2 DEF m
<1>4. /\ pipe' \in PipeRecord /\ Level(pipe') = l - m
      /\ pipe'.readOpen = pipe.readOpen /\ pipe'.writeOpen = pipe.writeOpen
      /\ pipe'.readPID = 0 /\ pipe'.writePID = pipe.writePID
      /\ \A j \in 0..(l - m) : At(pipe', j) = At(pipe, m + j)
    <2> DEFINE t == [pipe EXCEPT !.readPID = 0, !.readIdx = Add(@, m)]
    <2>1. Level(pipe) <= PIPE_BUFFER + 1
        BY <1>1
    <2>2. /\ t \in PipeRecord /\ Level(t) = Level(pipe) - m
          /\ t.writeIdx = pipe.writeIdx /\ t.readOpen = pipe.readOpen
          /\ t.writeOpen = pipe.writeOpen /\ t.readPID = 0 /\ t.writePID = pipe.writePID
          /\ \A j \in 0..(Level(pipe) - m) : At(t, j) = At(pipe, m + j)
        BY <1>1, <1>3, <2>1, TakeFacts
    <2>3. pipe' = t
        BY <1>3
    <2> HIDE DEF t
    <2> QED BY <2>2, <2>3
<1>5. /\ Contents' = SubSeq(Contents, m + 1, Len(Contents))
      /\ m = 0 => Contents' = Contents
    BY <1>1, <1>3, <1>4, Dropped
<1>6. /\ Contents \in Seq(Cell) /\ Len(Contents) = l
      /\ \A j \in 1..l : Contents[j] = At(pipe, j - 1)
    BY <1>1, ContentsSeq
<1>7. m = l => m <= PIPE_BUFFER
    BY <1>1, <1>2 DEF PipeState, RingState
<1>8. m # 0 => At(pipe, 0) # EOF /\ l <= PIPE_BUFFER
    BY <1>1, <1>2 DEF PipeState, RingState
<1>9. ChannelStep
    <2>1. CASE m = 0
        BY <1>4, <1>5, <2>1 DEF ChannelStep, AbstractChannel!vars
    <2>2. CASE m # 0
        <3>1. m \in 1..PIPE_BUFFER
            BY <1>1, <1>2, <1>8, <2>2
        <3>2. ~AbstractChannel!Contains(SubSeq(Contents, 1, m), EOF)
            <4> DEFINE c == Contents
                       d == SubSeq(c, 1, m)
            <4>1. /\ Len(d) = m /\ \A j \in 1..m : d[j] = c[j]
                BY <1>1, <1>2, <1>6
            <4>2. \A j \in 1..m : c[j] # EOF
                <5>1. \A j \in 1..m : j \in 1..l /\ j - 1 \in 0..(m - 1)
                    BY <1>1, <1>2
                <5> QED BY <1>2, <1>6, <5>1
            <4> HIDE DEF d, c
            <4> QED BY <4>1, <4>2 DEF AbstractChannel!Contains, d, c
        <3>3. AbstractChannel!Receive(m)
            BY <1>2, <1>4, <1>5, <1>6, <3>2 DEF AbstractChannel!Receive
        <3> QED BY <3>1, <3>3 DEF ChannelStep, AbstractChannel!Next
    <2> QED BY <2>1, <2>2
<1>10. RingState'
    <2>1. m = 0 => At(pipe', 0) = At(pipe, 0)
        BY <1>1, <1>2, <1>4
    <2> QED BY <1>1, <1>2, <1>4, <1>8, <2>1 DEF PipeState, RingState
<1> QED BY <1>4, <1>9, <1>10

(* Rings with the same bytes.                                              *)
LEMMA SameBytes ==
    ASSUME NEW s, NEW t, t.buf = s.buf, t.readIdx = s.readIdx, t.writeIdx = s.writeIdx
    PROVE  Level(t) = Level(s) /\ \A j : At(t, j) = At(s, j)
BY DEF Level, At

(* The end for reading is closed.                                          *)
LEMMA CloseRead ==
    ASSUME NEW s \in PipeRecord
    PROVE  LET t == closePipe(s, "READ")
           IN  /\ t \in PipeRecord /\ t.buf = s.buf /\ t.readIdx = s.readIdx
               /\ t.writeIdx = s.writeIdx /\ t.readOpen = FALSE /\ t.writeOpen = s.writeOpen
               /\ t.readPID = s.readPID /\ t.writePID = s.writePID
<1> DEFINE B == [0..(PIPE_BUFFER - 1) -> (Pids \X Nat) \cup {EOF}]
           t == [s EXCEPT !.readOpen = FALSE]
<1>1. PipeRecord = [buf : B, readIdx : 0..(Index - 1), writeIdx : 0..(Index - 1),
                    readOpen : BOOLEAN, writeOpen : BOOLEAN,
                    readPID : Pids \cup {0}, writePID : Pids \cup {0}]
    BY DEF PipeRecord
<1>2. closePipe(s, "READ") = t
    BY DEF closePipe
<1> HIDE DEF B
<1> QED BY <1>1, <1>2

(* The end for writing is closed: one byte more.                           *)
LEMMA CloseWrite ==
    ASSUME NEW s \in PipeRecord, Level(s) <= PIPE_BUFFER
    PROVE  LET t == closePipe(s, "WRITE")
           IN  /\ t \in PipeRecord /\ Level(t) = Level(s) + 1
               /\ t.readOpen = s.readOpen /\ t.writeOpen = FALSE
               /\ t.readPID = s.readPID /\ t.writePID = s.writePID
               /\ \A j \in 0..(Level(s) - 1) :
                    At(t, j) = IF Level(s) = PIPE_BUFFER /\ j = 0 THEN EOF ELSE At(s, j)
               /\ At(t, Level(s)) = EOF
<1> DEFINE u == PutByte(s, EOF)
           t == closePipe(s, "WRITE")
<1>1. /\ u \in PipeRecord /\ Level(u) = Level(s) + 1
      /\ u.readOpen = s.readOpen
      /\ u.readPID = s.readPID /\ u.writePID = s.writePID
      /\ \A j \in 0..(Level(s) - 1) :
            At(u, j) = IF Level(s) = PIPE_BUFFER /\ j = 0 THEN EOF ELSE At(s, j)
      /\ At(u, Level(s)) = EOF
    <2>1. EOF \in (Pids \X Nat) \cup {EOF}
        OBVIOUS
    <2> QED BY <2>1, PutByteFacts
<1>2. t = [u EXCEPT !.writeOpen = FALSE]
    BY DEF closePipe
<1> HIDE DEF u, t
<1>3. /\ t \in PipeRecord /\ t.buf = u.buf /\ t.readIdx = u.readIdx /\ t.writeIdx = u.writeIdx
      /\ t.readOpen = u.readOpen /\ t.writeOpen = FALSE
      /\ t.readPID = u.readPID /\ t.writePID = u.writePID
    BY <1>1, <1>2 DEF PipeRecord
<1>4. Level(t) = Level(u) /\ \A j : At(t, j) = At(u, j)
    BY <1>3, SameBytes
<1> QED BY <1>1, <1>3, <1>4 DEF t

(* What the ends that are lost do to the channel.                          *)
LEMMA LostChannel ==
    ASSUME PipeState, CloseLost, Lost("WRITE") => pipe.writeOpen
    PROVE  /\ pipe' \in PipeRecord /\ RingState' /\ ChannelStep
           /\ pipe'.readOpen = (pipe.readOpen /\ ~Lost("READ"))
           /\ pipe'.writeOpen = (pipe.writeOpen /\ ~Lost("WRITE"))
           /\ pipe'.readPID = pipe.readPID /\ pipe'.writePID = pipe.writePID
           /\ sems' = IF (Lost("READ") \/ Lost("WRITE")) /\ ~pipe'.readOpen /\ ~pipe'.writeOpen
                      THEN [sems EXCEPT ![writequeue] = NoSemaphore, ![readqueue] = NoSemaphore]
                      ELSE sems
<1> DEFINE r == IF Lost("READ") THEN closePipe(pipe, "READ") ELSE pipe
<1>1. /\ pipe \in PipeRecord /\ Level(pipe) \in 0..(Index - 1)
      /\ pipe.readOpen \in BOOLEAN /\ pipe.writeOpen \in BOOLEAN
    BY LevelFacts, PipeFields DEF PipeState
<1>2. /\ r \in PipeRecord /\ r.buf = pipe.buf /\ r.readIdx = pipe.readIdx
      /\ r.writeIdx = pipe.writeIdx /\ r.writeOpen = pipe.writeOpen
      /\ r.readOpen = (pipe.readOpen /\ ~Lost("READ"))
      /\ r.readPID = pipe.readPID /\ r.writePID = pipe.writePID
    BY <1>1, CloseRead
<1>3. /\ pipe' = IF Lost("WRITE") THEN closePipe(r, "WRITE") ELSE r
      /\ sems' = IF (Lost("READ") \/ Lost("WRITE")) /\ ~pipe'.readOpen /\ ~pipe'.writeOpen
                 THEN [sems EXCEPT ![writequeue] = NoSemaphore, ![readqueue] = NoSemaphore]
                 ELSE sems
    BY DEF CloseLost
<1> HIDE DEF r
<1>4. Level(r) = Level(pipe) /\ \A j : At(r, j) = At(pipe, j)
    BY <1>2, SameBytes
<1>5. CASE ~Lost("WRITE")
    <2>1. pipe' = r
        BY <1>3, <1>5
    <2>2. RingState'
        BY <1>2, <1>4, <2>1 DEF PipeState, RingState
    <2>3. Contents' = Contents
        BY <1>4, <2>1 DEF Contents
    <2>4. pipe'.writeOpen = pipe.writeOpen
        BY <1>2, <2>1
    <2>5. ChannelStep
        BY <2>3, <2>4 DEF ChannelStep, AbstractChannel!vars
    <2>6. pipe'.writeOpen = (pipe.writeOpen /\ ~Lost("WRITE"))
        BY <1>1, <1>5, <2>4
    <2> QED BY <1>2, <1>3, <2>1, <2>2, <2>5, <2>6
<1>6. CASE Lost("WRITE")
    <2> DEFINE l == Level(pipe)
    <2>1. /\ pipe.writeOpen /\ l \in Int /\ l >= 0 /\ l <= PIPE_BUFFER
          /\ PIPE_BUFFER \in Nat /\ PIPE_BUFFER >= 1
        BY <1>1, <1>6, PipeConstants DEF PipeState, RingState
    <2>2. pipe' = closePipe(r, "WRITE")
        BY <1>3, <1>6
    <2>3. /\ pipe' \in PipeRecord /\ Level(pipe') = l + 1
          /\ pipe'.readOpen = r.readOpen /\ pipe'.writeOpen = FALSE
          /\ pipe'.readPID = r.readPID /\ pipe'.writePID = r.writePID
          /\ \A j \in 0..(l - 1) :
                At(pipe', j) = IF l = PIPE_BUFFER /\ j = 0 THEN EOF ELSE At(pipe, j)
          /\ At(pipe', l) = EOF
        BY <1>2, <1>4, <2>1, <2>2, CloseWrite
    <2>4. RingState'
        <3>1. l = PIPE_BUFFER => 0 \in 0..(l - 1)
            BY <2>1
        <3> QED BY <2>1, <2>3, <3>1 DEF RingState
    <2>5. Len(Contents) = l
        BY <1>1, ContentsSeq
    <2>6. CASE l < PIPE_BUFFER
        <3>0. l # PIPE_BUFFER
            BY <2>1, <2>6
        <3>1. \A j \in 0..(l - 1) : At(pipe', j) = At(pipe, j)
            BY <2>3, <3>0
        <3>2. Contents' = Append(Contents, EOF)
            BY <1>1, <2>3, <3>1, Appended DEF Cell
        <3>3. AbstractChannel!Close
            BY <2>1, <2>3, <2>5, <2>6, <3>2 DEF AbstractChannel!Close
        <3> QED BY <1>2, <1>3, <1>6, <2>3, <2>4, <3>3 DEF ChannelStep, AbstractChannel!Next
    <2>7. CASE l = PIPE_BUFFER
        <3>1. 1 \in 1..Level(pipe') /\ 1 - 1 = 0 /\ 0 \in 0..(l - 1)
            BY <2>1, <2>3, <2>7
        <3>2. Contents'[1] = At(pipe', 0) /\ At(pipe', 0) = EOF
            BY <2>3, <2>7, <3>1, ContentsNext
        <3>3. Head(Contents') = EOF
            BY <3>2
        <3>4. AbstractChannel!CloseFull
            BY <2>1, <2>3, <2>5, <2>7, <3>3 DEF AbstractChannel!CloseFull
        <3> QED BY <1>2, <1>3, <1>6, <2>3, <2>4, <3>4 DEF ChannelStep, AbstractChannel!Next
    <2> QED BY <2>1, <2>6, <2>7
<1> QED BY <1>5, <1>6

(* closeFd, and the frames that go with a process that ends.               *)
LEMMA LostState ==
    ASSUME PipeState, CloseLost, IInv(k'), trouble' = trouble,
           holders' \in [{"READ", "WRITE"} -> SUBSET (Pids \cup {Leaked})],
           \A type \in {"READ", "WRITE"} : holders[type] = {} => holders'[type] = {},
           call' \in [Pids -> PipeCall],
           frame' \in [Pids -> SemIds \cup {User, Dangling}],
           \A p \in Pids : CallState(p)' /\ (frame'[p] = frame[p] \/ frame'[p] = User)
    PROVE  PipeState' /\ ChannelStep
<1>1. /\ pipe.readOpen <=> holders["READ"] # {}
      /\ pipe.writeOpen <=> holders["WRITE"] # {}
      /\ \A id \in SemIds : sems[id].exists <=> (pipe.readOpen \/ pipe.writeOpen)
      /\ pipe.readOpen \in BOOLEAN /\ pipe.writeOpen \in BOOLEAN
    BY PipeFields DEF PipeState, EndsState
<1>2. /\ pipe' \in PipeRecord /\ RingState' /\ ChannelStep
      /\ pipe'.readOpen = (pipe.readOpen /\ ~Lost("READ"))
      /\ pipe'.writeOpen = (pipe.writeOpen /\ ~Lost("WRITE"))
      /\ sems' = IF (Lost("READ") \/ Lost("WRITE")) /\ ~pipe'.readOpen /\ ~pipe'.writeOpen
                 THEN [sems EXCEPT ![writequeue] = NoSemaphore, ![readqueue] = NoSemaphore]
                 ELSE sems
    <2>1. Lost("WRITE") => pipe.writeOpen
        BY <1>1 DEF Lost
    <2> QED BY <2>1, LostChannel
<1>3. /\ pipe'.readOpen <=> holders'["READ"] # {}
      /\ pipe'.writeOpen <=> holders'["WRITE"] # {}
    BY <1>1, <1>2 DEF Lost
<1>4. CASE (Lost("READ") \/ Lost("WRITE")) /\ ~pipe'.readOpen /\ ~pipe'.writeOpen
    <2>1. NoSemaphore \in semaphore /\ ~NoSemaphore.lock /\ NoSemaphore.exists = FALSE
          /\ IsInjective(NoSemaphore.activeQueue)
        BY SemConstants DEF semaphore, NoSemaphore, IsInjective
    <2>2. sems' \in [SemIds -> semaphore] /\ \A id \in SemIds : sems'[id] = NoSemaphore
        BY <1>2, <1>4, <2>1, PipeConstants DEF PipeState, SemState
    <2>3. \A p \in Pids : frame'[p] = User
        <3> TAKE p \in Pids
        <3>1. holders'["READ"] = {} /\ holders'["WRITE"] = {}
            BY <1>3, <1>4
        <3>2. CallState(p)'
            OBVIOUS
        <3> QED BY <3>1, <3>2 DEF CallState
    <2>4. SemState'
        BY <2>1, <2>2, <2>3, SemConstants DEF SemState
    <2>5. EndsState'
        BY <1>3, <1>4, <2>1, <2>2 DEF EndsState
    <2> QED BY <1>2, <2>4, <2>5 DEF PipeState
<1>5. CASE ~((Lost("READ") \/ Lost("WRITE")) /\ ~pipe'.readOpen /\ ~pipe'.writeOpen)
    <2>1. sems' = sems
        BY <1>2, <1>5
    <2>2. SemState'
        BY <2>1, SemConstants DEF PipeState, SemState
    <2>3. \A id \in SemIds : sems'[id].exists <=> (pipe'.readOpen \/ pipe'.writeOpen)
        BY <1>1, <1>2, <1>5, <2>1
    <2>4. EndsState'
        BY <1>3, <2>3 DEF EndsState
    <2> QED BY <1>2, <2>2, <2>4 DEF PipeState
<1> QED BY <1>4, <1>5

---------------------------------------------------------------------------
(* The actions.  One end at least is open, so the queues are there.        *)
LEMMA HolderExists ==
    ASSUME PipeState, NEW p \in Pids, p \in holders["READ"] \/ p \in holders["WRITE"]
    PROVE  \A id \in SemIds : sems[id].exists = TRUE
<1>1. pipe.readOpen \/ pipe.writeOpen
    BY DEF PipeState, EndsState
<1> QED BY <1>1, SemFields DEF PipeState, EndsState, SemState

(* semWait on one of the queues.                                           *)
LEMMA EnterState ==
    ASSUME PipeState, NEW p \in Pids, k.cpu = p, frame[p] = User,
           NEW id \in SemIds, NEW asleep, NEW next, NEW n \in Nat, Enter(p, id, asleep, next, n),
           \/ /\ id = readqueue /\ asleep = "rsem" /\ next = "read" /\ p \in holders["READ"]
           \/ /\ id = writequeue /\ asleep = "wsem" /\ next = "write" /\ p \in holders["WRITE"]
              /\ n \in WriteCounts
    PROVE  PipeState' /\ ChannelStep
<1> DEFINE c == sems[id]
           d == [at |-> next, i |-> 1, count |-> n]
           e == [at |-> asleep, i |-> 1, count |-> n]
<1>1. /\ c \in semaphore /\ c.value \in Int /\ c.exists = TRUE /\ c.lock = FALSE
      /\ c.value \in 0..(Word - 1) /\ c.blockedQueue \in Seq(Pids) /\ IsInjective(c.activeQueue)
    <2>1. c.exists = TRUE
        BY HolderExists
    <2>2. sems \in [SemIds -> semaphore] /\ c.lock = FALSE /\ IsInjective(c.activeQueue)
        BY SemFields DEF PipeState, SemState, semaphore
    <2> QED BY <2>1, <2>2, SemFields
<1>2. pipe' = pipe /\ holders' = holders /\ trouble' = trouble
    BY DEF Enter
<1>3. 1 \in 1..n \/ n = 0
    OBVIOUS
<1>4. n \in WriteCounts => n # 0
    BY PipeConstants
<1>5. d \in PipeCall /\ e \in PipeCall
    BY DEF PipeCall
<1>6. RingState' /\ ChannelStep /\ pipe \in PipeRecord
    <2>1. SameRing(pipe, pipe')
        BY <1>2 DEF SameRing, PipeState
    <2> QED BY <2>1, SameChannel DEF PipeState
<1>7. CASE c.value > 0
    <2> DEFINE v == c.value - 1
               s == [c EXCEPT !.value = v]
    <2>1. sems' = [sems EXCEPT ![id] = s] /\ k' = k /\ frame' = frame
        BY <1>7 DEF Enter, PipeState, SemState
    <2>2. v \in 0..(Word - 1)
        BY <1>1, <1>7, SemConstants
    <2>3. call' = [call EXCEPT ![p] = d]
        BY <1>7 DEF Enter
    <2> HIDE DEF v, c
    <2>4. /\ s \in semaphore /\ s.lock = FALSE /\ s.exists = c.exists /\ s.value = v
          /\ s.activeQueue = c.activeQueue /\ s.blockedQueue = c.blockedQueue
        BY <1>1, <2>2 DEF semaphore
    <2> HIDE DEF s, d, e
    <2>5. Became(id, s.exists, s.value, s.activeQueue, s.blockedQueue)
        BY <2>1, <2>4, SemUpdate DEF PipeState, SemState
    <2>6. /\ frame' \in [Pids -> SemIds \cup {User, Dangling}] /\ IInv(k')
          /\ \A q \in Pids : frame'[q] = frame[q]
        BY <2>1 DEF PipeState, SemState
    <2>7. SemState'
        <3>1. s.exists = TRUE /\ IsInjective(s.activeQueue)
            BY <1>1, <2>4
        <3> QED BY <2>5, <2>6, <3>1, KeepsSemState DEF PipeState
    <2>8. \A j \in SemIds : sems'[j].exists = sems[j].exists
        BY <1>1, <2>4, <2>5 DEF Became, c
    <2>9. call' \in [Pids -> PipeCall] /\ call'[p] = d /\ \A q \in Pids : q # p => call'[q] = call[q]
        BY <1>5, <2>3, OneFrame
    <2>10. CallState(p)'
        <3>1. d.at = next /\ d.i = 1 /\ d.count = n
            BY DEF d
        <3> QED BY <1>2, <1>3, <1>4, <2>6, <2>9, <3>1, PipeConstants DEF CallState
    <2> QED BY <1>2, <1>6, <2>6, <2>7, <2>8, <2>9, <2>10, KeepsPipe DEF PipeState
<1>8. CASE ~(c.value > 0)
    <2> DEFINE q == Append(c.blockedQueue, p)
               s == [c EXCEPT !.blockedQueue = q]
    <2>1. /\ sems' = [sems EXCEPT ![id] = s] /\ k' = blockProcess(k, p)
          /\ frame' = [frame EXCEPT ![p] = id] /\ call' = [call EXCEPT ![p] = e]
        BY <1>8 DEF Enter, PipeState, SemState, addToProcessQueue
    <2>2. q \in Seq(Pids)
        BY <1>1
    <2> HIDE DEF q, c
    <2>4. /\ s \in semaphore /\ s.lock = FALSE /\ s.exists = c.exists /\ s.value = c.value
          /\ s.activeQueue = c.activeQueue /\ s.blockedQueue = q
        BY <1>1, <2>2 DEF semaphore
    <2> HIDE DEF s, d, e
    <2>5. Became(id, s.exists, s.value, s.activeQueue, s.blockedQueue)
        BY <2>1, <2>4, SemUpdate DEF PipeState, SemState
    <2>6. /\ frame' \in [Pids -> SemIds \cup {User, Dangling}] /\ frame'[p] = id
          /\ \A x \in Pids : x # p => frame'[x] = frame[x]
        BY <2>1 DEF PipeState, SemState
    <2>7. IInv(k')
        BY <2>1, BlockFacts DEF PipeState, SemState
    <2>8. SemState'
        <3>1. s.exists = TRUE /\ IsInjective(s.activeQueue)
            BY <1>1, <2>4
        <3>2. \A x \in Pids : frame'[x] = frame[x] \/ frame'[x] = id
            BY <2>6
        <3> QED BY <2>5, <2>6, <2>7, <3>1, <3>2, KeepsSemState DEF PipeState
    <2>9. \A j \in SemIds : sems'[j].exists = sems[j].exists
        BY <1>1, <2>4, <2>5 DEF Became, c
    <2>10. call' \in [Pids -> PipeCall] /\ call'[p] = e /\ \A x \in Pids : x # p => call'[x] = call[x]
        BY <1>5, <2>1, OneFrame
    <2>11. CallState(p)'
        <3>1. e.at = asleep /\ e.i = 1 /\ e.count = n
            BY DEF e
        <3> QED BY <1>2, <1>3, <1>4, <2>6, <2>10, <3>1, PipeConstants DEF CallState
    <2> QED BY <1>2, <1>6, <2>6, <2>8, <2>9, <2>10, <2>11, KeepsPipe DEF PipeState
<1> QED BY <1>7, <1>8

(* readFd.                                                                 *)
LEMMA ReadFdState ==
    ASSUME PipeState, NEW p \in Pids, NEW n \in ReadCounts, readFd(p, n)
    PROVE  PipeState' /\ ChannelStep
<1>1. k.cpu = p /\ frame[p] = User /\ p \in holders["READ"]
    BY DEF readFd, MayCall, InUser, Running
<1>2. Enter(p, readqueue, "rsem", "read", n) /\ readqueue \in SemIds /\ n \in Nat
    BY PipeConstants DEF readFd
<1> QED BY <1>1, <1>2, EnterState

(* writeFd.                                                                *)
LEMMA WriteFdState ==
    ASSUME PipeState, NEW p \in Pids, NEW n \in WriteCounts, writeFd(p, n)
    PROVE  PipeState' /\ ChannelStep
<1>1. k.cpu = p /\ frame[p] = User /\ p \in holders["WRITE"]
    BY DEF writeFd, MayCall, InUser, Running
<1>2. Enter(p, writequeue, "wsem", "write", n) /\ writequeue \in SemIds /\ n \in Nat
    BY PipeConstants DEF writeFd
<1> QED BY <1>1, <1>2, EnterState

(* The sleeper of a queue goes on.                                         *)
LEMMA QueueWakeState ==
    ASSUME PipeState, NEW p \in Pids, QueueWake(p)
    PROVE  PipeState' /\ ChannelStep
<1> DEFINE id == frame[p]
           c == sems[id]
           v == (c.value - 1) % Word
           a == c.activeQueue
           b == c.blockedQueue
           at == IF call[p].at = "rsem" THEN "read" ELSE "write"
           d == [call[p] EXCEPT !.at = at]
<1>1. /\ pipe' = pipe /\ holders' = holders /\ trouble' = trouble
      /\ SemWake(p) /\ SemState
    BY DEF QueueWake, PipeState
<1>2. /\ id \in SemIds /\ k' = k /\ frame' = [frame EXCEPT ![p] = User]
      /\ Became(id, TRUE, v, a, b)
    BY <1>1, SemWakeFacts
<1>3. /\ c.exists = TRUE /\ IsInjective(a) /\ IInv(k')
    BY <1>1, <1>2, SemFields DEF SemState
<1>4. /\ frame' \in [Pids -> SemIds \cup {User, Dangling}] /\ frame'[p] = User
      /\ \A q \in Pids : q # p => frame'[q] = frame[q]
    BY <1>1, <1>2 DEF SemState
<1>5. \A j \in SemIds : sems'[j].exists = sems[j].exists
    BY <1>2, <1>3 DEF Became
<1>6. call[p] \in PipeCall /\ call' = [call EXCEPT ![p] = d]
    BY DEF QueueWake, PipeState
<1>7. d \in PipeCall /\ d.at = at /\ d.i = call[p].i /\ d.count = call[p].count
    <2>1. at \in {"user", "rsem", "read", "empty", "wsem", "write", "full"}
        OBVIOUS
    <2> DEFINE f == call[p]
    <2>2. f \in PipeCall
        BY <1>6
    <2> HIDE DEF at, f
    <2>3. LET g == [f EXCEPT !.at = at]
          IN  g \in PipeCall /\ g.at = at /\ g.i = f.i /\ g.count = f.count
        BY <2>1, <2>2 DEF PipeCall
    <2> QED BY <2>3 DEF f
<1>8. call[p].at \in {"rsem", "wsem"}
    BY <1>2, PipeConstants DEF PipeState, CallState
<1> HIDE DEF id, c, v, a, b, d
<1>9. SemState'
    <2>1. User \notin SemIds
        BY SemConstants
    <2>2. \A q \in Pids : frame'[q] \in SemIds => frame'[q] = frame[q]
        BY <1>4, <2>1
    <2> QED BY <1>1, <1>2, <1>3, <1>4, <2>2, KeepsSemState
<1>10. call' \in [Pids -> PipeCall] /\ call'[p] = d /\ \A q \in Pids : q # p => call'[q] = call[q]
    BY <1>6, <1>7, OneFrame
<1>11. CallState(p)'
    BY <1>1, <1>4, <1>7, <1>8, <1>10, PipeConstants DEF PipeState, CallState
<1>12. RingState' /\ ChannelStep
    <2>1. SameRing(pipe, pipe')
        BY <1>1 DEF SameRing, PipeState
    <2> QED BY <2>1, SameChannel
<1> QED BY <1>1, <1>4, <1>5, <1>9, <1>10, <1>11, <1>12, KeepsPipe DEF PipeState

(* The scheduler moved, the queues and their sleepers did not.             *)
LEMMA QueuesStay ==
    ASSUME SemState, IInv(k'), sems' = sems, frame' = frame
    PROVE  SemState'
BY DEF SemState

(* Who is inside runs, and holds the end it uses.                          *)
LEMMA InsideFacts ==
    ASSUME PipeState, NEW p \in Pids, NEW where, Inside(p, where)
    PROVE  /\ k.cpu = p /\ k.up /\ frame[p] = User /\ call[p].at \in where /\ call[p] \in PipeCall
           /\ SemState /\ IInv(k) /\ pipe \in PipeRecord
           /\ pipe.readPID \in Pids \cup {0} /\ pipe.writePID \in Pids \cup {0}
BY PipeFields DEF PipeState, SemState, Inside, Running

(* A process inside the pipe, running: the frame says what it holds.       *)
LEMMA FrameState ==
    ASSUME PipeState, NEW p \in Pids, frame[p] = User, frame' = frame, holders' = holders,
           NEW c \in PipeCall, call' = [call EXCEPT ![p] = c],
           \/ c.at = "user"
           \/ c.at \in {"read", "empty"} /\ p \in holders["READ"]
           \/ /\ c.at \in {"write", "full"} /\ p \in holders["WRITE"]
              /\ c.count \in WriteCounts /\ c.i \in 1..c.count
    PROVE  /\ call' \in [Pids -> PipeCall] /\ CallState(p)'
           /\ \A q \in Pids : q # p => call'[q] = call[q] /\ frame'[q] = frame[q]
<1>1. /\ call' \in [Pids -> PipeCall] /\ call'[p] = c
      /\ \A q \in Pids : q # p => call'[q] = call[q]
    BY OneFrame
<1>2. CallState(p)'
    BY <1>1, PipeConstants DEF CallState
<1> QED BY <1>1, <1>2

(* The pids of the sleepers are noted in the pipe.                         *)
LEMMA NotedPid ==
    ASSUME NEW s \in PipeRecord, NEW q \in Pids \cup {0}
    PROVE  /\ SameRing(s, [s EXCEPT !.readPID = q]) /\ [s EXCEPT !.readPID = q].readPID = q
           /\ [s EXCEPT !.readPID = q].writePID = s.writePID
           /\ SameRing(s, [s EXCEPT !.writePID = q]) /\ [s EXCEPT !.writePID = q].writePID = q
           /\ [s EXCEPT !.writePID = q].readPID = s.readPID
<1> DEFINE B == [0..(PIPE_BUFFER - 1) -> (Pids \X Nat) \cup {EOF}]
<1>1. PipeRecord = [buf : B, readIdx : 0..(Index - 1), writeIdx : 0..(Index - 1),
                    readOpen : BOOLEAN, writeOpen : BOOLEAN,
                    readPID : Pids \cup {0}, writePID : Pids \cup {0}]
    BY DEF PipeRecord
<1> HIDE DEF B
<1> QED BY <1>1 DEF SameRing

(* A reader finds nothing and sleeps.                                      *)
LEMMA ReadWaitsState ==
    ASSUME PipeState, NEW p \in Pids, readPipeWaits(p)
    PROVE  PipeState' /\ ChannelStep
<1> DEFINE q == IF call[p].at = "read" THEN p ELSE pipe.readPID
           d == [call[p] EXCEPT !.at = "empty"]
<1>1. /\ k.cpu = p /\ frame[p] = User /\ call[p].at \in {"read", "empty"} /\ call[p] \in PipeCall
      /\ SemState /\ IInv(k) /\ pipe \in PipeRecord /\ q \in Pids \cup {0}
    BY InsideFacts DEF readPipeWaits
<1>2. /\ pipe' = [pipe EXCEPT !.readPID = q] /\ k' = blockProcess(k, pipe'.readPID)
      /\ call' = [call EXCEPT ![p] = d]
      /\ sems' = sems /\ frame' = frame /\ holders' = holders /\ trouble' = trouble
    BY DEF readPipeWaits, PipeState
<1>3. d \in PipeCall /\ d.at = "empty"
    BY <1>1, FrameFields
<1> HIDE DEF q, d
<1>4. SameRing(pipe, pipe') /\ pipe'.readPID = q
    BY <1>1, <1>2, NotedPid
<1>5. RingState' /\ ChannelStep
    BY <1>4, SameChannel
<1>6. SemState'
    BY <1>1, <1>2, <1>4, BlockedIInv, QueuesStay
<1>7. p \in holders["READ"]
    BY <1>1 DEF PipeState, CallState
<1>8. /\ call' \in [Pids -> PipeCall] /\ CallState(p)'
      /\ \A x \in Pids : x # p => call'[x] = call[x] /\ frame'[x] = frame[x]
    BY <1>1, <1>2, <1>3, <1>7, FrameState
<1> QED BY <1>2, <1>4, <1>5, <1>6, <1>8, KeepsPipe DEF PipeState, SameRing

(* A reader takes what there is and posts.                                 *)
LEMMA ReadState ==
    ASSUME PipeState, NEW p \in Pids, readPipe(p)
    PROVE  PipeState' /\ ChannelStep
<1> DEFINE n == call[p].count
           w == pipe.writePID
<1>1. /\ k.cpu = p /\ frame[p] = User /\ call[p] \in PipeCall
      /\ SemState /\ IInv(k) /\ pipe \in PipeRecord /\ w \in Pids \cup {0} /\ n \in Nat
    BY InsideFacts, FrameFields DEF readPipe
<1>2. /\ pipe' = [pipe EXCEPT !.readPID = 0, !.readIdx = Add(@, Taken(pipe, n))]
      /\ k' = PostedKernel(unblockIf(k, w), w) /\ sems' = Posted(w)
      /\ trouble' \in {trouble, trouble \cup {"surplus"}}
      /\ call' = [call EXCEPT ![p] = NoCall] /\ frame' = frame /\ holders' = holders
    BY DEF readPipe
<1> HIDE DEF n, w
<1>3. /\ pipe' \in PipeRecord /\ RingState' /\ ChannelStep
      /\ pipe'.readOpen = pipe.readOpen /\ pipe'.writeOpen = pipe.writeOpen
    BY <1>1, <1>2, ReceiveChannel
<1>4. IInv(unblockIf(k, w)) /\ unblockIf(k, w).cpu = p
    BY <1>1, UnblockedIf
<1>5. IInv(k')
    BY <1>1, <1>2, <1>4, PostedIInv
<1>6. SemState' /\ \A j \in SemIds : sems'[j].exists = sems[j].exists
    BY <1>1, <1>2, <1>5, PostedState
<1>7. NoCall \in PipeCall /\ NoCall.at = "user"
    BY <1>1, FrameFields
<1>8. /\ call' \in [Pids -> PipeCall] /\ CallState(p)'
      /\ \A x \in Pids : x # p => call'[x] = call[x] /\ frame'[x] = frame[x]
    BY <1>1, <1>2, <1>7, FrameState
<1>9. trouble' \subseteq {"garbage", "surplus"}
    BY <1>2 DEF PipeState
<1> QED BY <1>2, <1>3, <1>6, <1>8, <1>9, KeepsPipe

(* A writer: the end it holds is open and its byte is one of the data.     *)
LEMMA WriterFacts ==
    ASSUME PipeState, NEW p \in Pids, Inside(p, {"write", "full"})
    PROVE  /\ p \in holders["WRITE"] /\ pipe.writeOpen
           /\ call[p].count \in WriteCounts /\ call[p].i \in 1..call[p].count
           /\ call[p].i \in Int /\ call[p].count \in Int
           /\ Byte(p, call[p].i) \in Data
<1>1. call[p].at \in {"write", "full"}
    BY InsideFacts
<1>2. /\ p \in holders["WRITE"] /\ call[p].count \in WriteCounts /\ call[p].i \in 1..call[p].count
    BY <1>1 DEF PipeState, CallState
<1>3. pipe.writeOpen
    BY <1>2 DEF PipeState, EndsState
<1>4. Byte(p, call[p].i) \in Data
    BY <1>2 DEF Byte, Data
<1> QED BY <1>2, <1>3, <1>4, PipeConstants

(* A writer finds no room and sleeps.                                      *)
LEMMA WriteWaitsState ==
    ASSUME PipeState, NEW p \in Pids, writePipeWaits(p)
    PROVE  PipeState' /\ ChannelStep
<1> DEFINE q == IF call[p].at = "write" THEN p ELSE pipe.writePID
           d == [call[p] EXCEPT !.at = "full"]
<1>1. /\ k.cpu = p /\ frame[p] = User /\ call[p].at \in {"write", "full"} /\ call[p] \in PipeCall
      /\ SemState /\ IInv(k) /\ pipe \in PipeRecord /\ q \in Pids \cup {0}
      /\ pipe.readPID \in Pids \cup {0}
    BY InsideFacts DEF writePipeWaits
<1>2. /\ pipe' = [pipe EXCEPT !.writePID = q]
      /\ k' = blockProcess(unblockIf(k, pipe.readPID), pipe'.writePID)
      /\ call' = [call EXCEPT ![p] = d]
      /\ sems' = sems /\ frame' = frame /\ holders' = holders /\ trouble' = trouble
    BY DEF writePipeWaits, PipeState
<1>3. d \in PipeCall /\ d.at = "full" /\ d.i = call[p].i /\ d.count = call[p].count
    BY <1>1, FrameFields
<1> HIDE DEF q, d
<1>4. SameRing(pipe, pipe') /\ pipe'.writePID = q
    BY <1>1, <1>2, NotedPid
<1>5. RingState' /\ ChannelStep
    BY <1>4, SameChannel
<1>6. IInv(unblockIf(k, pipe.readPID)) /\ unblockIf(k, pipe.readPID).cpu = p
    BY <1>1, UnblockedIf
<1>7. SemState'
    BY <1>1, <1>2, <1>4, <1>6, BlockedIInv, QueuesStay
<1>8. /\ p \in holders["WRITE"] /\ call[p].count \in WriteCounts /\ call[p].i \in 1..call[p].count
    BY WriterFacts DEF writePipeWaits
<1>9. /\ call' \in [Pids -> PipeCall] /\ CallState(p)'
      /\ \A x \in Pids : x # p => call'[x] = call[x] /\ frame'[x] = frame[x]
    BY <1>1, <1>2, <1>3, <1>8, FrameState
<1> QED BY <1>2, <1>4, <1>5, <1>7, <1>9, KeepsPipe DEF PipeState, SameRing

(* A writer finds nobody to read.                                          *)
LEMMA WriteBrokenState ==
    ASSUME PipeState, NEW p \in Pids, writePipeBroken(p)
    PROVE  PipeState' /\ ChannelStep
<1>1. /\ k.cpu = p /\ frame[p] = User /\ call[p] \in PipeCall
      /\ SemState /\ IInv(k) /\ pipe \in PipeRecord
    BY InsideFacts DEF writePipeBroken
<1>2. /\ pipe' = [pipe EXCEPT !.writePID = 0]
      /\ k' = PostedKernel(k, writequeue) /\ sems' = Posted(writequeue)
      /\ call' = [call EXCEPT ![p] = NoCall] /\ frame' = frame /\ holders' = holders
      /\ trouble' = trouble
    BY DEF writePipeBroken
<1>3. SameRing(pipe, pipe')
    BY <1>1, <1>2, NotedPid
<1>4. RingState' /\ ChannelStep
    BY <1>3, SameChannel
<1>5. SemState' /\ \A j \in SemIds : sems'[j].exists = sems[j].exists
    BY <1>1, <1>2, PostedIInv, PostedState
<1>6. NoCall \in PipeCall /\ NoCall.at = "user"
    BY <1>1, FrameFields
<1>7. /\ call' \in [Pids -> PipeCall] /\ CallState(p)'
      /\ \A x \in Pids : x # p => call'[x] = call[x] /\ frame'[x] = frame[x]
    BY <1>1, <1>2, <1>6, FrameState
<1> QED BY <1>2, <1>3, <1>4, <1>5, <1>7, KeepsPipe DEF PipeState, SameRing

(* A writer puts a byte, not its last.                                     *)
LEMMA WritePutState ==
    ASSUME PipeState, NEW p \in Pids, writePipePut(p)
    PROVE  PipeState' /\ ChannelStep
<1> DEFINE i == call[p].i
           n == call[p].count
           b == Byte(p, i)
           d == [call[p] EXCEPT !.at = "write", !.i = i + 1]
<1>1. /\ k.cpu = p /\ frame[p] = User /\ call[p] \in PipeCall
      /\ SemState /\ IInv(k) /\ pipe \in PipeRecord
    BY InsideFacts DEF writePipePut
<1>2. /\ p \in holders["WRITE"] /\ pipe.writeOpen /\ b \in Data
      /\ n \in WriteCounts /\ i \in 1..n /\ i \in Int /\ n \in Int
    BY WriterFacts DEF writePipePut
<1>3. /\ pipe' = [PutByte(pipe, b) EXCEPT !.writePID = 0] /\ ~Full(pipe) /\ i < n
      /\ k' = k /\ sems' = sems /\ frame' = frame /\ holders' = holders /\ trouble' = trouble
    BY DEF writePipePut
<1>4. call' = [call EXCEPT ![p] = d]
    BY DEF writePipePut, PipeState
<1>5. /\ d \in PipeCall /\ d.at = "write" /\ d.count \in WriteCounts /\ d.i \in 1..d.count
    <2> DEFINE c == call[p]
               m == i + 1
    <2>1. c \in PipeCall /\ m \in Nat /\ m \in 1..n
        BY <1>1, <1>2, <1>3
    <2> HIDE DEF c, m
    <2>2. LET f == [c EXCEPT !.at = "write", !.i = m]
          IN  f \in PipeCall /\ f.at = "write" /\ f.i = m /\ f.count = c.count
        BY <2>1 DEF PipeCall
    <2> QED BY <1>2, <2>1, <2>2 DEF c, m
<1> HIDE DEF i, n, b, d
<1>6. /\ pipe' \in PipeRecord /\ RingState' /\ ChannelStep
      /\ pipe'.readOpen = pipe.readOpen /\ pipe'.writeOpen = pipe.writeOpen
    BY <1>2, <1>3, SendChannel
<1>7. SemState'
    BY <1>1, <1>3 DEF SemState
<1>8. /\ call' \in [Pids -> PipeCall] /\ CallState(p)'
      /\ \A x \in Pids : x # p => call'[x] = call[x] /\ frame'[x] = frame[x]
    BY <1>1, <1>2, <1>3, <1>4, <1>5, FrameState
<1> QED BY <1>3, <1>6, <1>7, <1>8, KeepsPipe DEF PipeState

(* A writer puts its last byte and posts.                                  *)
LEMMA WriteEndsState ==
    ASSUME PipeState, NEW p \in Pids, writePipeEnds(p)
    PROVE  PipeState' /\ ChannelStep
<1> DEFINE b == Byte(p, call[p].i)
           r == pipe.readPID
<1>1. /\ k.cpu = p /\ frame[p] = User /\ call[p] \in PipeCall
      /\ SemState /\ IInv(k) /\ pipe \in PipeRecord /\ r \in Pids \cup {0}
    BY InsideFacts DEF writePipeEnds
<1>2. pipe.writeOpen /\ b \in Data
    BY WriterFacts DEF writePipeEnds
<1>3. /\ pipe' = [PutByte(pipe, b) EXCEPT !.writePID = 0] /\ ~Full(pipe)
      /\ k' = PostedKernel(unblockIf(k, r), writequeue) /\ sems' = Posted(writequeue)
      /\ call' = [call EXCEPT ![p] = NoCall]
      /\ frame' = frame /\ holders' = holders /\ trouble' = trouble
    BY DEF writePipeEnds
<1> HIDE DEF b, r
<1>4. /\ pipe' \in PipeRecord /\ RingState' /\ ChannelStep
      /\ pipe'.readOpen = pipe.readOpen /\ pipe'.writeOpen = pipe.writeOpen
    BY <1>2, <1>3, SendChannel
<1>5. IInv(unblockIf(k, r)) /\ unblockIf(k, r).cpu = p
    BY <1>1, UnblockedIf
<1>6. IInv(k')
    BY <1>1, <1>3, <1>5, PostedIInv
<1>7. SemState' /\ \A j \in SemIds : sems'[j].exists = sems[j].exists
    BY <1>1, <1>3, <1>6, PostedState
<1>8. NoCall \in PipeCall /\ NoCall.at = "user"
    BY <1>1, FrameFields
<1>9. /\ call' \in [Pids -> PipeCall] /\ CallState(p)'
      /\ \A x \in Pids : x # p => call'[x] = call[x] /\ frame'[x] = frame[x]
    BY <1>1, <1>3, <1>8, FrameState
<1> QED BY <1>3, <1>4, <1>7, <1>9, KeepsPipe DEF PipeState

(* A process closes an end.                                                *)
LEMMA CloseState ==
    ASSUME PipeState, NEW p \in Pids, NEW type \in {"READ", "WRITE"}, sys_close(p, type)
    PROVE  PipeState' /\ ChannelStep
<1>1. /\ k' = k /\ frame' = frame /\ call' = call /\ trouble' = trouble /\ CloseLost
      /\ call[p].at = "user" /\ holders' = [holders EXCEPT ![type] = @ \ {p}]
    BY DEF sys_close, MayCall
<1>2. holders \in [{"READ", "WRITE"} -> SUBSET (Pids \cup {Leaked})]
    BY DEF PipeState, EndsState
<1>3. /\ holders' \in [{"READ", "WRITE"} -> SUBSET (Pids \cup {Leaked})]
      /\ \A t \in {"READ", "WRITE"} : holders[t] = {} => holders'[t] = {}
      /\ \A t \in {"READ", "WRITE"} : \A q \in Pids : q # p /\ q \in holders[t] => q \in holders'[t]
    BY <1>1, <1>2
<1>4. \A q \in Pids : CallState(q)'
    <2> SUFFICES ASSUME NEW q \in Pids PROVE CallState(q)'
        OBVIOUS
    <2>1. CallState(q)
        BY DEF PipeState
    <2>2. CASE q = p
        BY <1>1, <2>1, <2>2 DEF CallState
    <2>3. CASE q # p
        BY <1>1, <1>3, <2>1, <2>3 DEF CallState
    <2> QED BY <2>2, <2>3
<1>5. IInv(k') /\ call' \in [Pids -> PipeCall] /\ frame' \in [Pids -> SemIds \cup {User, Dangling}]
    BY <1>1 DEF PipeState, SemState
<1> QED BY <1>1, <1>3, <1>4, <1>5, LostState

(* A pid that is handed out is one.                                        *)
LEMMA PidGiven ==
    ASSUME IInv(k), [Next]_k, k'.pid # k.pid
    PROVE  k.pid \in Pids
<1> DEFINE W == Readers \cup Third \cup {1}
           V == Victims \cup {k.cpu}
<1>1. Moved(k, k', W, V)
    BY NextMoved
<1>2. IInv(k')
    BY NextIInv
<1>3. k.pid \in 1..(MaxPid + 1) /\ k'.pid \in 1..(MaxPid + 1) /\ k.pid <= k'.pid /\ MaxPid \in Nat
    BY <1>1, <1>2, SchedulerAssumption DEF Moved, IInv, Core, KernelState
<1> QED BY <1>3 DEF Pids

(* Any other entry: the ends of who ends are given up, a child gets those  *)
(* of its creator.                                                         *)
LEMMA OtherPipeState ==
    ASSUME PipeState, OtherEntry
    PROVE  PipeState' /\ ChannelStep
<1> DEFINE child == IF k'.pcb[k.pid].state = "FREE" THEN Leaked ELSE k.pid
           born(t) == IF k'.pid # k.pid /\ k.cpu \in holders[t] THEN {child} ELSE {}
<1>1. /\ IInv(k) /\ Next /\ DropFrames /\ CloseLost /\ trouble' = trouble
      /\ frame \in [Pids -> SemIds \cup {User, Dangling}]
    BY DEF OtherEntry, PipeState, SemState
<1>2. IInv(k')
    BY <1>1, NextIInv
<1>3. /\ frame' \in [Pids -> SemIds \cup {User, Dangling}]
      /\ \A p \in Pids : /\ Alive(k', p) => frame'[p] = frame[p]
                         /\ ~Alive(k', p) => frame'[p] = User
    BY <1>1, DropFacts
<1>4. call' = [p \in Pids |-> IF Alive(k', p) THEN call[p] ELSE NoCall]
    BY DEF OtherEntry, Live, Alive
<1>5. /\ call \in [Pids -> PipeCall] /\ NoCall \in PipeCall /\ NoCall.at = "user"
    BY DEF PipeState, PipeCall, NoCall
<1>6. call' \in [Pids -> PipeCall]
    BY <1>4, <1>5
<1>7. holders \in [{"READ", "WRITE"} -> SUBSET (Pids \cup {Leaked})]
    BY DEF PipeState, EndsState
<1>8. holders' = [t \in {"READ", "WRITE"} |->
                    {p \in holders[t] : p # Leaked => Alive(k', p)} \cup born(t)]
    BY <1>7 DEF OtherEntry, Live, Alive
<1>9. \A t : born(t) \subseteq Pids \cup {Leaked} /\ (holders[t] = {} => born(t) = {})
    BY <1>1, PidGiven
<1> HIDE DEF born, child
<1>10. /\ holders' \in [{"READ", "WRITE"} -> SUBSET (Pids \cup {Leaked})]
       /\ \A t \in {"READ", "WRITE"} : holders[t] = {} => holders'[t] = {}
       /\ \A t \in {"READ", "WRITE"} : \A q \in Pids :
            q \in holders[t] /\ Alive(k', q) => q \in holders'[t]
    BY <1>7, <1>8, <1>9
<1>11. ASSUME NEW p \in Pids
       PROVE  CallState(p)' /\ (frame'[p] = frame[p] \/ frame'[p] = User)
    <2>1. CallState(p)
        BY DEF PipeState
    <2>2. CASE Alive(k', p)
        <3>1. call'[p] = call[p] /\ frame'[p] = frame[p]
            BY <1>3, <1>4, <2>2
        <3> QED BY <1>10, <2>1, <2>2, <3>1 DEF CallState
    <2>3. CASE ~Alive(k', p)
        <3>1. call'[p] = NoCall /\ frame'[p] = User
            BY <1>3, <1>4, <2>3
        <3> QED BY <1>5, <3>1, PipeConstants DEF CallState
    <2> QED BY <2>2, <2>3
<1> QED BY <1>1, <1>2, <1>3, <1>6, <1>10, <1>11, LostState

(* Every step keeps the state of the pipe and is one of the channel.       *)
LEMMA PipeStateNext ==
    PipeState /\ [PipeNext]_pipeVars => PipeState' /\ ChannelStep
<1> SUFFICES ASSUME PipeState, [PipeNext]_pipeVars PROVE PipeState' /\ ChannelStep
    OBVIOUS
<1>1. CASE OtherEntry
    BY <1>1, OtherPipeState
<1>2. CASE \E p \in Pids, n \in ReadCounts : readFd(p, n)
    BY <1>2, ReadFdState
<1>3. CASE \E p \in Writers, n \in WriteCounts : writeFd(p, n)
    BY <1>3, WriteFdState, PipeConstants
<1>4. ASSUME NEW p \in Pids,
             \/ QueueWake(p) \/ readPipeWaits(p) \/ readPipe(p)
             \/ writePipeWaits(p) \/ writePipeBroken(p)
             \/ writePipePut(p) \/ writePipeEnds(p)
      PROVE  PipeState' /\ ChannelStep
    BY <1>4, QueueWakeState, ReadWaitsState, ReadState, WriteWaitsState, WriteBrokenState,
       WritePutState, WriteEndsState
<1>5. CASE \E p \in Pids, type \in {"READ", "WRITE"} : sys_close(p, type)
    BY <1>5, CloseState
<1>6. CASE UNCHANGED pipeVars
    <2>1. SameRing(pipe, pipe')
        BY <1>6 DEF SameRing, PipeState, pipeVars
    <2>2. PipeState'
        BY <1>6 DEF pipeVars, PipeState, SemState, CallState, EndsState, RingState
    <2> QED BY <2>1, <2>2, SameChannel
<1> QED BY <1>1, <1>2, <1>3, <1>4, <1>5, <1>6 DEF PipeNext

(* openPipe.                                                               *)
LEMMA PipeStateInit ==
    PipeInit => PipeState /\ AbstractChannel!Init
<1> SUFFICES ASSUME PipeInit PROVE PipeState /\ AbstractChannel!Init
    OBVIOUS
<1> DEFINE s == [NoSemaphore EXCEPT !.exists = TRUE, !.value = 1, !.activeQueue = <<1>>]
           b == [j \in 0..(PIPE_BUFFER - 1) |-> EOF]
           B == [0..(PIPE_BUFFER - 1) -> (Pids \X Nat) \cup {EOF}]
<1>1. /\ Init /\ sems = [id \in SemIds |-> s] /\ frame = [p \in Pids |-> User]
      /\ call = [p \in Pids |-> NoCall] /\ holders = [READ |-> {1}, WRITE |-> {1}]
    BY DEF PipeInit
<1>2. PICK r \in Garbage, w \in Garbage :
        pipe = [buf |-> b, readIdx |-> 0, writeIdx |-> 0, readOpen |-> TRUE,
                writeOpen |-> TRUE, readPID |-> r, writePID |-> w]
    BY DEF PipeInit
<1>3. trouble \subseteq {"garbage", "surplus"}
    BY DEF PipeInit
<1>4. SemState
    <2>1. 1 \in Pids /\ 1 \in 0..(Word - 1)
        BY Constants1, SemConstants, SchedulerAssumption DEF HIGH
    <2>2. s \in semaphore /\ ~s.lock /\ s.exists = TRUE /\ s.activeQueue = <<1>>
        <3> DEFINE a == <<1>>
                   e == <<>>
        <3>1. a \in Seq(Pids) /\ e \in Seq(Pids)
            BY <2>1
        <3>2. /\ NoSemaphore = [exists |-> FALSE, value |-> 0, lock |-> FALSE,
                                activeQueue |-> e, blockedQueue |-> e]
              /\ s = [NoSemaphore EXCEPT !.exists = TRUE, !.value = 1, !.activeQueue = a]
            BY DEF NoSemaphore
        <3> HIDE DEF a, e, s
        <3>3. s \in semaphore /\ ~s.lock /\ s.exists = TRUE /\ s.activeQueue = a
            BY <2>1, <3>1, <3>2, SemConstants DEF semaphore
        <3> QED BY <3>3 DEF a
    <2>3. IsInjective(<<1>>)
        BY DEF IsInjective
    <2>4. IInv(k)
        BY <1>1, BootFacts DEF Init
    <2> HIDE DEF s
    <2> QED BY <1>1, <2>2, <2>3, <2>4, SemConstants DEF SemState
<1>5. pipe \in PipeRecord /\ Level(pipe) = 0 /\ pipe.readOpen /\ pipe.writeOpen
    <2>1. b \in B /\ 0 \in 0..(Index - 1) /\ r \in Pids \cup {0} /\ w \in Pids \cup {0}
        BY PipeConstants
    <2> HIDE DEF b
    <2>2. pipe \in PipeRecord
        BY <1>2, <2>1 DEF PipeRecord
    <2>3. Empty(pipe)
        BY <1>2 DEF Empty
    <2> QED BY <1>2, <2>2, <2>3, FullFacts
<1> HIDE DEF s, b, B
<1>6. RingState
    BY <1>5, PipeConstants DEF RingState
<1>7. EndsState
    <2>1. holders \in [{"READ", "WRITE"} -> SUBSET (Pids \cup {Leaked})]
        BY <1>1, Constants1
    <2>2. \A id \in SemIds : sems[id].exists
        BY <1>1 DEF s, NoSemaphore
    <2> QED BY <1>1, <1>5, <2>1, <2>2 DEF EndsState
<1>8. call \in [Pids -> PipeCall] /\ \A p \in Pids : call[p].at = "user" /\ frame[p] = User
    BY <1>1 DEF PipeCall, NoCall
<1>9. \A p \in Pids : CallState(p)
    BY <1>8, PipeConstants DEF CallState
<1>10. PipeState
    BY <1>3, <1>4, <1>5, <1>6, <1>7, <1>8, <1>9 DEF PipeState
<1>11. AbstractChannel!Init
    <2>1. Contents = <<>>
        BY <1>5 DEF Contents
    <2>2. pipe.writeOpen = TRUE
        BY <1>5, PipeFields
    <2> QED BY <2>1, <2>2 DEF AbstractChannel!Init
<1> QED BY <1>10, <1>11

(* The pipe stays well formed, and it is freed under nobody: a process     *)
(* that is inside, awake or asleep, holds an end.  Nothing is assumed of   *)
(* the processes: whoever is killed, blocked, woken or forked, whatever    *)
(* readPID and writePID hold at first.                                     *)
THEOREM NotFreedInsideCorrect ==
    PipeSpec => []NotFreedInside
<1>1. PipeInit => PipeState
    BY PipeStateInit
<1>2. PipeState /\ [PipeNext]_pipeVars => PipeState'
    BY PipeStateNext
<1>3. PipeState => NotFreedInside
    BY PipeStateInside
<1> QED BY <1>1, <1>2, <1>3, PTL DEF PipeSpec

(* The ring of the pipe is a channel: bytes arrive in the order in which   *)
(* they were written, none twice and none missing, never more than the     *)
(* buffer holds, until the last writer leaves a full buffer and the end of *)
(* the data takes the place of the first byte.                             *)
THEOREM ChannelRefined ==
    PipeSpec => ImplementsChannel
<1>1. PipeInit => PipeState /\ AbstractChannel!Init
    BY PipeStateInit
<1>2. PipeState /\ [PipeNext]_pipeVars => PipeState' /\ ChannelStep
    BY PipeStateNext
<1>3. ChannelStep => [AbstractChannel!Next]_(AbstractChannel!vars)
    BY DEF ChannelStep
<1> QED BY <1>1, <1>2, <1>3, PTL DEF PipeSpec, ImplementsChannel, AbstractChannel!Spec

---------------------------------------------------------------------------
(* Who sleeps inside.  From s to t nobody was created or ended, and only   *)
(* the shell may have come to the foreground.                              *)
Calm(s, t) ==
    /\ IInv(t) /\ t.pid = s.pid /\ KeepsConsole(s, t)
    /\ \A q \in Pids : Alive(t, q) <=> Alive(s, q)

(* One call after the other.                                               *)
LEMMA CalmChain ==
    ASSUME NEW s, NEW t, NEW u, Calm(s, t), Calm(t, u)
    PROVE  Calm(s, u)
<1>1. KeepsConsole(s, u)
    BY DEF Calm, KeepsConsole
<1> QED BY <1>1 DEF Calm

(* A live process is ready or blocked, and the one on the CPU is ready.    *)
LEMMA LiveLists ==
    ASSUME NEW s, IInv(s)
    PROVE  /\ ToSet(s.ready) \subseteq Pids /\ ToSet(s.blocked) \subseteq Pids
           /\ \A q \in Pids : /\ Alive(s, q) <=> q \in ToSet(s.ready) \/ q \in ToSet(s.blocked)
                              /\ q \in ToSet(s.ready) => q \notin ToSet(s.blocked)
                              /\ s.cpu = q => q \in ToSet(s.ready)
                              /\ q \in Int /\ q # 0 /\ (Alive(s, q) => q < s.pid)
           /\ s.pid \in Int /\ 0 \notin Pids
<1>1. /\ ToSet(s.ready) \subseteq Pids /\ ToSet(s.blocked) \subseteq Pids
      /\ \A q \in Pids : /\ Alive(s, q) <=> q \in ToSet(s.ready) \/ q \in ToSet(s.blocked)
                         /\ q \in ToSet(s.ready) => q \notin ToSet(s.blocked)
    BY StateLists
<1>2. \A q \in Pids : s.cpu = q => q \in ToSet(s.ready)
    BY RunningFacts
<1>3. Core(s)
    BY DEF IInv
<1>4. s.pid \in Int /\ \A q \in Pids : q \in Int /\ (Alive(s, q) => q < s.pid)
    BY <1>3, PidType
<1> QED BY <1>1, <1>2, <1>4, Constants1

(* blockProcess of a noted pid, 0 if none is.                              *)
LEMMA BlockCalm ==
    ASSUME NEW s, IInv(s), NEW p \in Pids, s.cpu = p, NEW x \in Pids \cup {0}
    PROVE  LET t == blockProcess(s, x)
           IN  /\ Calm(s, t) /\ ToSet(t.ready) \subseteq ToSet(s.ready) /\ x \notin ToSet(t.ready)
               /\ \A q \in ToSet(s.ready) : q # x => q \in ToSet(t.ready)
<1> DEFINE t == blockProcess(s, x)
<1>1. s \in KernelState /\ Current(s.ready) = p /\ p # 0 /\ Core(s)
    BY RunningFacts, Constants1 DEF IInv
<1>2. ToSet(s.ready) \subseteq Pids /\ 0 \notin Pids
    BY LiveLists
<1>3. CASE x = p
    <2>1. /\ t.pid = s.pid /\ ToSet(t.ready) = ToSet(s.ready) \ {p}
          /\ \A q \in Pids : Alive(t, q) <=> Alive(s, q)
          /\ KeepsConsole(s, t)
        BY <1>3, BlockSelfLists
    <2>2. IInv(t)
        BY <1>3, BlockFacts
    <2> HIDE DEF t
    <2>3. Calm(s, t)
        BY <2>1, <2>2 DEF Calm
    <2> QED BY <1>3, <2>1, <2>3 DEF t
<1>4. CASE x # p /\ x \in ToSet(s.ready)
    <2> DEFINE u == [s EXCEPT !.pcb[x].state = "BLOCKED"]
    <2>1. t = removeBlocked(u, x) /\ AgreeBut(s, x)
        BY <1>1, <1>4, SearchFacts, RunningFacts DEF blockProcess
    <2>2. /\ Core(u) /\ SameLists(s, u)
          /\ \A q \in Pids : q # x => u.pcb[q] = s.pcb[q]
          /\ \A q \in Pids : u.pcb[q].background = s.pcb[q].background
        <3>1. x \in ToSet(s.ready) \cup ToSet(s.blocked) /\ "BLOCKED" \in States
            BY <1>4 DEF States
        <3> QED BY <1>1, <2>1, <3>1, MarkAny
    <2> HIDE DEF u, t
    <2>3. u.ready = s.ready /\ u.pid = s.pid /\ u.blocked = s.blocked
        BY <2>2 DEF SameLists
    <2>4. /\ OnlyPcb(u, t, x) /\ SameProcess(u.pcb[x], t.pcb[x])
          /\ ToSet(t.ready) = ToSet(s.ready) \ {x} /\ t.pid = s.pid
          /\ ToSet(t.blocked) = ToSet(s.blocked) \cup {x}
        BY <1>4, <2>1, <2>2, <2>3, RemoveBlockedPcb
    <2>5. IInv(t)
        BY <1>2, <1>4, BlockFacts DEF t
    <2>6. \A q \in Pids : Alive(t, q) <=> Alive(s, q)
        BY <1>4, <2>4, <2>5, LiveLists
    <2>7. KeepsConsole(s, t)
        BY <2>2, <2>4 DEF KeepsConsole, OnlyPcb, SameProcess
    <2>8. Calm(s, t)
        BY <2>4, <2>5, <2>6, <2>7 DEF Calm
    <2> QED BY <2>4, <2>8 DEF t
<1>5. CASE x # p /\ x \notin ToSet(s.ready)
    <2>1. t = s
        BY <1>1, <1>5, SearchFacts DEF blockProcess
    <2> HIDE DEF t
    <2>2. Calm(s, t)
        BY <2>1 DEF Calm, KeepsConsole
    <2> QED BY <1>5, <2>1, <2>2 DEF t
<1> QED BY <1>3, <1>4, <1>5

(* unblockProcess of a noted pid, if one is: it is ready then, if it still *)
(* lives.                                                                  *)
LEMMA UnblockCalm ==
    ASSUME NEW s, IInv(s), NEW x \in Pids \cup {0}
    PROVE  LET t == unblockIf(s, x)
           IN  /\ Calm(s, t) /\ t.cpu = s.cpu
               /\ ToSet(s.ready) \subseteq ToSet(t.ready)
               /\ ToSet(t.ready) \subseteq ToSet(s.ready) \cup {x}
               /\ x # 0 /\ Alive(s, x) => x \in ToSet(t.ready)
<1> DEFINE t == unblockIf(s, x)
<1>1. CASE x = 0
    <2>1. t = s
        BY <1>1 DEF unblockIf
    <2> HIDE DEF t
    <2>2. Calm(s, t)
        BY <2>1 DEF Calm, KeepsConsole
    <2> QED BY <1>1, <2>1, <2>2 DEF t
<1>2. CASE x # 0
    <2> DEFINE none == 0
    <2>1. x \in Pids /\ t = unblockProcess(s, x) /\ x \in Int /\ Core(s)
        BY <1>2, Constants1 DEF unblockIf, IInv
    <2>2. AgreeBut(s, none) /\ none \notin ToSet(s.blocked)
        BY <2>1, SearchFacts, Constants1 DEF IInv, Agree, Core
    <2>3. IInv(t)
        BY <2>1, WakeFacts
    <2>4. x \in Int /\ Core(s)
        BY <2>1
    <2> HIDE DEF none, t
    <2> DEFINE u == unblockProcess(s, x)
    <2>5. /\ u.cpu = s.cpu /\ u.pid = s.pid
          /\ \A q \in Pids : u.pcb[q].background = s.pcb[q].background
        BY <2>2, <2>4, UnblockFacts
    <2>6. /\ ToSet(u.ready) \cup ToSet(u.blocked) = ToSet(s.ready) \cup ToSet(s.blocked)
          /\ ToSet(s.ready) \subseteq ToSet(u.ready)
          /\ ToSet(u.ready) \subseteq ToSet(s.ready) \cup {x}
          /\ x \in ToSet(s.blocked) => x \in ToSet(u.ready)
        <3>1. ToSet(u.ready) \cup ToSet(u.blocked) = ToSet(s.ready) \cup ToSet(s.blocked)
            BY <2>2, <2>4, UnblockFacts
        <3>2. ToSet(s.ready) \subseteq ToSet(u.ready)
            BY <2>2, <2>4, UnblockFacts
        <3>3. ToSet(u.ready) \subseteq ToSet(s.ready) \cup {x}
            BY <2>2, <2>4, UnblockFacts
        <3>4. x \in ToSet(s.blocked) => x \in ToSet(u.ready)
            BY <2>2, <2>4, UnblockFacts
        <3> QED BY <3>1, <3>2, <3>3, <3>4
    <2>7. t = u
        BY <2>1
    <2> HIDE DEF u
    <2>8. /\ t.cpu = s.cpu /\ t.pid = s.pid
          /\ \A q \in Pids : t.pcb[q].background = s.pcb[q].background
          /\ ToSet(t.ready) \cup ToSet(t.blocked) = ToSet(s.ready) \cup ToSet(s.blocked)
          /\ ToSet(s.ready) \subseteq ToSet(t.ready)
          /\ ToSet(t.ready) \subseteq ToSet(s.ready) \cup {x}
          /\ x \in ToSet(s.blocked) => x \in ToSet(t.ready)
        BY <2>5, <2>6, <2>7
    <2>9. \A q \in Pids : Alive(t, q) <=> Alive(s, q)
        BY <2>3, <2>8, LiveLists
    <2>10. x \in Pids
        BY <2>1
    <2>11. Alive(s, x) => x \in ToSet(t.ready)
        BY <2>8, <2>10, LiveLists
    <2>12. Calm(s, t)
        BY <2>3, <2>8, <2>9 DEF Calm, KeepsConsole
    <2>13. /\ Calm(s, t) /\ t.cpu = s.cpu
           /\ ToSet(s.ready) \subseteq ToSet(t.ready)
           /\ ToSet(t.ready) \subseteq ToSet(s.ready) \cup {x}
           /\ x # 0 /\ Alive(s, x) => x \in ToSet(t.ready)
        BY <2>8, <2>11, <2>12
    <2> QED BY <2>13 DEF t
<1> QED BY <1>1, <1>2

(* From s on, semPost(id) wakes h.                                         *)
Wakes(s, id, h) ==
    /\ Exists(id) /\ sems[id].blockedQueue # <<>> /\ h = Head(sems[id].blockedQueue)
    /\ h \in ToSet(s.blocked)

(* The kernel after a post: nobody but the process woken became ready, and *)
(* that one has the CPU.                                                   *)
LEMMA PostCalm ==
    ASSUME SemState, NEW s, IInv(s), NEW p \in Pids, s.cpu = p, NEW id
    PROVE  LET t == PostedKernel(s, id)
           IN  /\ Calm(s, t) /\ ToSet(s.ready) \subseteq ToSet(t.ready)
               /\ \A q \in ToSet(t.ready) : q \in ToSet(s.ready) \/ Wakes(s, id, q)
               /\ \A h \in Pids : Wakes(s, id, h) => t.cpu = h
<1> DEFINE t == PostedKernel(s, id)
           queue == sems[id].blockedQueue
<1>1. CASE Exists(id)
    <2>1. t = yield(wakeup(s, queue)) /\ queue \in Seq(Pids)
        BY <1>1, SemFields DEF PostedKernel, Exists, SemState
    <2> HIDE DEF queue
    <2>2. LET u == yield(wakeup(s, queue))
              h == Head(queue)
          IN  /\ IInv(u) /\ u.pid = s.pid /\ KeepsConsole(s, u)
              /\ \A q \in Pids : Alive(u, q) <=> Alive(s, q)
              /\ \A q \in ToSet(u.ready) :
                    q \in ToSet(s.ready) \/ (queue # <<>> /\ q = h /\ q \in ToSet(s.blocked))
              /\ queue # <<>> /\ h \in ToSet(s.blocked) => u.cpu = h
        BY <2>1, PostLists
    <2>3. ToSet(s.ready) \subseteq ToSet(t.ready)
        <3> DEFINE w == wakeup(s, queue)
                   none == 0
        <3>1. Core(s) /\ s \in KernelState /\ AgreeBut(s, none) /\ none \notin ToSet(s.blocked)
            BY SearchFacts, Constants1 DEF IInv, Agree, Core
        <3>2. IInv(w) /\ w.cpu = p /\ ToSet(s.ready) \subseteq ToSet(w.ready)
            <4>1. CASE queue = <<>>
                BY <4>1 DEF wakeup
            <4>2. CASE queue # <<>>
                <5> DEFINE h == Head(queue)
                <5>1. h \in Pids /\ h \in Int
                    <6>1. queue \in Seq(Pids)
                        BY <2>1
                    <6>2. h \in ToSet(queue) /\ ToSet(queue) \subseteq Pids
                        BY <4>2, <6>1, ListFacts
                    <6> HIDE DEF h
                    <6>3. h \in Pids
                        BY <6>2
                    <6> QED BY <6>3, Constants1
                <5>2. w = unblockProcess(s, h)
                    BY <4>2 DEF wakeup
                <5> HIDE DEF h, none, w
                <5>3. IInv(unblockProcess(s, h))
                    BY <5>1, WakeFacts
                <5>4. LET u == unblockProcess(s, h)
                      IN  u.cpu = s.cpu /\ ToSet(s.ready) \subseteq ToSet(u.ready)
                    BY <3>1, <5>1, UnblockFacts
                <5> QED BY <5>2, <5>3, <5>4
            <4> QED BY <4>1, <4>2
        <3>3. t = yield(w)
            BY <2>1
        <3> HIDE DEF w, t
        <3>4. ToSet(yield(w).ready) = ToSet(w.ready)
            BY <3>2, YieldLists
        <3> QED BY <3>2, <3>3, <3>4
    <2> HIDE DEF t
    <2>4. Calm(s, t)
        BY <2>1, <2>2 DEF Calm
    <2>5. \A q : Wakes(s, id, q) <=> queue # <<>> /\ q = Head(queue) /\ q \in ToSet(s.blocked)
        BY <1>1 DEF Wakes, queue
    <2> QED BY <2>1, <2>2, <2>3, <2>4, <2>5 DEF t
<1>2. CASE ~Exists(id)
    <2>1. \A q : ~Wakes(s, id, q)
        BY <1>2 DEF Wakes
    <2>2. CASE id \in Foreign
        <3>1. t = yield(s)
            BY <1>2, <2>2 DEF PostedKernel
        <3>2. IInv(yield(s))
            BY YieldFacts
        <3>3. LET u == yield(s)
              IN  /\ u.pid = s.pid /\ ToSet(u.ready) = ToSet(s.ready)
                  /\ \A q \in Pids : Alive(u, q) <=> Alive(s, q)
                  /\ KeepsConsole(s, u)
            BY YieldLists
        <3> HIDE DEF t
        <3>4. Calm(s, t)
            BY <3>1, <3>2, <3>3 DEF Calm
        <3> QED BY <2>1, <3>1, <3>3, <3>4 DEF t
    <2>3. CASE id \notin Foreign
        <3>1. t = s
            BY <1>2, <2>3 DEF PostedKernel
        <3> HIDE DEF t
        <3>2. Calm(s, t)
            BY <3>1 DEF Calm, KeepsConsole
        <3> QED BY <2>1, <3>1, <3>2 DEF t
    <2> QED BY <2>2, <2>3
<1> QED BY <1>1, <1>2

---------------------------------------------------------------------------
(* The users of the pipe are woken by each other only: no process unblocks *)
(* others, the keyboard wakes none of them, and when a process ends there  *)
(* is no console to hand back to the shell, which may be inside too.       *)
OwnUsers == Third = {} /\ Readers = {} /\ ShellConsole

(* Who is inside lives, and is awake only while it has the CPU.            *)
CallsKnown == \A p \in Pids :
    /\ call[p].at # "user" => Alive(k, p)
    /\ call[p].at \in {"read", "write"} => k.cpu = p

(* A noted pid is that of a process in the loop, or of one that ended      *)
(* there: pids are not given again.                                        *)
ReaderNoted == pipe.readPID # 0 =>
    /\ pipe.readPID < k.pid
    /\ Alive(k, pipe.readPID) => call[pipe.readPID].at = "empty"

WriterNoted == pipe.writePID # 0 =>
    /\ pipe.writePID < k.pid
    /\ Alive(k, pipe.writePID) => call[pipe.writePID].at = "full"

(* Who sleeps in a queue is not ready, unless it was just woken.           *)
Asleeps == \A q \in Pids : frame[q] \in SemIds /\ q \in ToSet(k.ready) => k.cpu = q

(* A queue may hold processes that were killed, but a live one sleeps in   *)
(* that queue.                                                             *)
QueueSleepers ==
    /\ Asleeps
    /\ \A id \in SemIds :
        /\ IsInjective(sems[id].blockedQueue)
        /\ \A q \in ToSet(sems[id].blockedQueue) :
                q < k.pid /\ (Alive(k, q) => frame[q] = id /\ q \in ToSet(k.blocked))

(* A queue is a mutex: one of its users at a time is inside, and the unit  *)
(* that was given back waits for the one just woken.                       *)
Mutex(users, value, f, cpu, id) ==
    /\ \A p, q \in users : p = q
    /\ value <= 1
    /\ users # {} => value = 0
    /\ cpu \in Pids /\ f[cpu] = id => value = 1

OneUser(users, id) == Mutex(users, sems[id].value, frame, k.cpu, id)

OnlyEnd == \A j \in 1..Level(pipe) : At(pipe, j - 1) = EOF

(* A writer goes on with interrupts masked until it wakes the reader.      *)
Putting == k.cpu \in Pids /\ call[k.cpu].at \in {"write", "full"}

ReaderFed == \A p \in Pids : call[p].at = "empty" =>
    /\ pipe.readPID = p
    /\ p \in ToSet(k.blocked) => OnlyEnd \/ Putting

WriterKnown == \A p \in Pids : call[p].at = "full" =>
    /\ pipe.writePID = p
    /\ p \in ToSet(k.blocked) => Full(pipe)

(* The inductive invariant of the sleepers, as long as the pids were 0 at  *)
(* first; that of the writers as long as no reader posted their queue.     *)
Sleep ==
    /\ CallsKnown /\ ReaderNoted /\ WriterNoted /\ QueueSleepers /\ ~Foreground(k)
    /\ OneUser(ReadersInside, readqueue) /\ ReaderFed
    /\ trouble = {} => OneUser(WritersInside, writequeue) /\ WriterKnown

SleepInv == "garbage" \notin trouble => Sleep

---------------------------------------------------------------------------
(* The parts of the invariant, step by step.  What every step does to the  *)
(* processes: pids are given once.                                         *)
Older(s, t) ==
    s.pid <= t.pid /\ \A q \in Pids : Alive(t, q) => Alive(s, q) \/ q >= s.pid

(* A calm step gives no pid.                                               *)
LEMMA CalmOlder ==
    ASSUME NEW s, IInv(s), NEW t, Calm(s, t)
    PROVE  Older(s, t)
BY LiveLists DEF Calm, Older

(* Who is inside: the process that runs went on or slept.                  *)
LEMMA CallsStep ==
    ASSUME CallsKnown, IInv(k), NEW p \in Pids, k.cpu = p, Calm(k, k'),
           \A q \in Pids : q # p => call'[q] = call[q],
           call'[p].at \in {"read", "write"} => k'.cpu = p
    PROVE  CallsKnown'
<1>1. Alive(k, p)
    BY LiveLists
<1>2. \A q \in Pids : Alive(k', q) <=> Alive(k, q)
    BY DEF Calm
<1> QED BY <1>1, <1>2 DEF CallsKnown

(* The pid of the reader is noted, kept or forgotten.                      *)
LEMMA ReaderNotedStep ==
    ASSUME ReaderNoted, IInv(k), pipe \in PipeRecord, pipe' \in PipeRecord,
           NEW p \in Pids, k.cpu = p, Calm(k, k'),
           \A q \in Pids : q # p => call'[q] = call[q],
           \/ pipe'.readPID = 0
           \/ pipe'.readPID = p /\ call'[p].at = "empty"
           \/ /\ pipe'.readPID = pipe.readPID
              /\ call[p].at = "empty" => call'[p].at = "empty"
    PROVE  ReaderNoted'
<1>1. Alive(k, p) /\ p < k.pid
    BY LiveLists
<1>2. k'.pid = k.pid /\ \A q \in Pids : Alive(k', q) <=> Alive(k, q)
    BY DEF Calm
<1>3. pipe.readPID \in Pids \cup {0}
    BY PipeFields
<1>4. CASE pipe'.readPID = pipe.readPID /\ (call[p].at = "empty" => call'[p].at = "empty")
    <2> DEFINE r == pipe.readPID
    <2> SUFFICES ASSUME r # 0
                 PROVE  r < k'.pid /\ (Alive(k', r) => call'[r].at = "empty")
        BY <1>4 DEF ReaderNoted
    <2>1. r \in Pids /\ r < k.pid /\ (Alive(k, r) => call[r].at = "empty")
        BY <1>3 DEF ReaderNoted
    <2>2. Alive(k, r) => call'[r].at = "empty"
        BY <1>4, <2>1
    <2> HIDE DEF r
    <2> QED BY <1>2, <2>1, <2>2
<1> QED BY <1>1, <1>2, <1>4 DEF ReaderNoted

(* The same of the writer.                                                 *)
LEMMA WriterNotedStep ==
    ASSUME WriterNoted, IInv(k), pipe \in PipeRecord, pipe' \in PipeRecord,
           NEW p \in Pids, k.cpu = p, Calm(k, k'),
           \A q \in Pids : q # p => call'[q] = call[q],
           \/ pipe'.writePID = 0
           \/ pipe'.writePID = p /\ call'[p].at = "full"
           \/ /\ pipe'.writePID = pipe.writePID
              /\ call[p].at = "full" => call'[p].at = "full"
    PROVE  WriterNoted'
<1>1. Alive(k, p) /\ p < k.pid
    BY LiveLists
<1>2. k'.pid = k.pid /\ \A q \in Pids : Alive(k', q) <=> Alive(k, q)
    BY DEF Calm
<1>3. pipe.writePID \in Pids \cup {0}
    BY PipeFields
<1>4. CASE pipe'.writePID = pipe.writePID /\ (call[p].at = "full" => call'[p].at = "full")
    <2> DEFINE r == pipe.writePID
    <2> SUFFICES ASSUME r # 0
                 PROVE  r < k'.pid /\ (Alive(k', r) => call'[r].at = "full")
        BY <1>4 DEF WriterNoted
    <2>1. r \in Pids /\ r < k.pid /\ (Alive(k, r) => call[r].at = "full")
        BY <1>3 DEF WriterNoted
    <2>2. Alive(k, r) => call'[r].at = "full"
        BY <1>4, <2>1
    <2> HIDE DEF r
    <2> QED BY <1>2, <2>1, <2>2
<1> QED BY <1>1, <1>2, <1>4 DEF WriterNoted

(* While user code runs, or a process inside the pipe, nobody that sleeps  *)
(* in a queue is ready.                                                    *)
NoneWoken == \A q \in Pids : frame[q] \in SemIds => q \notin ToSet(k.ready)

(* The invariant says so when the process that runs does not sleep.        *)
LEMMA RunnerAlone ==
    ASSUME QueueSleepers, k.cpu \in Pids => frame[k.cpu] \notin SemIds
    PROVE  NoneWoken
BY DEF QueueSleepers, Asleeps, NoneWoken

(* The queues of the state a step leads to: who was there is asleep still, *)
(* or else has just joined.                                                *)
LEMMA QueuesStep ==
    ASSUME SemState, SemState', QueueSleepers, Older(k, k'), Asleeps',
           \A id \in SemIds :
            /\ IsInjective(sems'[id].blockedQueue)
            /\ \A q \in ToSet(sems'[id].blockedQueue) :
                /\ \/ /\ q \in ToSet(sems[id].blockedQueue)
                      /\ Alive(k', q) => frame'[q] = frame[q]
                   \/ q < k'.pid /\ frame'[q] = id
                /\ Alive(k', q) => q \notin ToSet(k'.ready)
    PROVE  QueueSleepers'
<1> SUFFICES ASSUME NEW id \in SemIds, NEW q \in ToSet(sems'[id].blockedQueue)
             PROVE  q < k'.pid /\ (Alive(k', q) => frame'[q] = id /\ q \in ToSet(k'.blocked))
    BY DEF QueueSleepers
<1>1. q \in Pids
    <2>1. sems'[id].blockedQueue \in Seq(Pids)
        BY DEF SemState, semaphore
    <2> QED BY <2>1, ListFacts
<1>2. IInv(k) /\ IInv(k')
    BY DEF SemState
<1>3. q \in Int /\ k.pid \in Int /\ k'.pid \in Int /\ k.pid <= k'.pid
    BY <1>1, <1>2, LiveLists DEF Older
<1>4. Alive(k', q) => q \in ToSet(k'.blocked)
    BY <1>1, <1>2, LiveLists
<1>5. CASE /\ q \in ToSet(sems[id].blockedQueue)
           /\ Alive(k', q) => frame'[q] = frame[q]
    <2>1. q < k.pid /\ (Alive(k, q) => frame[q] = id)
        BY <1>5 DEF QueueSleepers
    <2>2. Alive(k', q) => Alive(k, q)
        BY <1>1, <1>3, <2>1 DEF Older
    <2> QED BY <1>3, <1>4, <1>5, <2>1, <2>2
<1>6. CASE q < k'.pid /\ frame'[q] = id
    BY <1>4, <1>6
<1> QED BY <1>5, <1>6

(* The queues are left alone, or emptied, and so are the frames.           *)
LEMMA QueuesKept ==
    ASSUME SemState, SemState', QueueSleepers, NoneWoken', Older(k, k'),
           \A id \in SemIds : sems'[id].blockedQueue \in {sems[id].blockedQueue, <<>>},
           \A id \in SemIds : \A q \in ToSet(sems[id].blockedQueue) :
                Alive(k', q) => frame'[q] = frame[q]
    PROVE  QueueSleepers'
<1>1. Asleeps'
    BY DEF NoneWoken, Asleeps
<1>2. ASSUME NEW id \in SemIds
      PROVE  /\ IsInjective(sems'[id].blockedQueue)
             /\ \A q \in ToSet(sems'[id].blockedQueue) : q \in ToSet(sems[id].blockedQueue)
    BY EmptyQueue DEF QueueSleepers
<1>3. ASSUME NEW id \in SemIds, NEW q \in ToSet(sems'[id].blockedQueue), Alive(k', q)
      PROVE  q \notin ToSet(k'.ready)
    <2>1. q \in ToSet(sems[id].blockedQueue) /\ frame'[q] = frame[q]
        BY <1>2, <1>3
    <2>2. q \in Pids
        <3>1. sems[id].blockedQueue \in Seq(Pids)
            BY SemFields DEF SemState
        <3> QED BY <2>1, <3>1, ListFacts
    <2>3. Alive(k, q)
        <3>1. q < k.pid
            BY <2>1 DEF QueueSleepers
        <3>2. q \in Int /\ k.pid \in Int
            BY <2>2, LiveLists DEF SemState
        <3> QED BY <1>3, <2>2, <3>1, <3>2 DEF Older
    <2>4. frame[q] = id
        BY <2>1, <2>3 DEF QueueSleepers
    <2> QED BY <2>1, <2>2, <2>4 DEF NoneWoken
<1> QED BY <1>1, <1>2, <1>3, QueuesStep

(* semPost of an id, after s has woken nobody that sleeps in a queue: the  *)
(* first sleeper leaves the queue and is the only one awake.               *)
LEMMA QueuesPosted ==
    ASSUME SemState, SemState', QueueSleepers, Calm(k, k'), frame' = frame,
           NEW id, sems' = Posted(id), NEW s, Calm(k, s),
           \A q \in Pids : frame[q] \in SemIds => q \notin ToSet(s.ready),
           \A q \in ToSet(k'.ready) : q \in ToSet(s.ready) \/ Wakes(s, id, q),
           \A h \in Pids : Wakes(s, id, h) => k'.cpu = h
    PROVE  /\ QueueSleepers'
           /\ \A q \in Pids : frame[q] \in SemIds /\ q \in ToSet(k'.ready) => Exists(id) /\ frame[q] = id
<1>1. ASSUME NEW q \in Pids, Wakes(s, id, q)
      PROVE  /\ Exists(id) /\ id \in SemIds /\ frame[q] = id
             /\ q = Head(sems[id].blockedQueue) /\ sems[id].blockedQueue # <<>>
    <2>1. /\ Exists(id) /\ id \in SemIds /\ sems[id].blockedQueue # <<>>
          /\ q = Head(sems[id].blockedQueue) /\ q \in ToSet(s.blocked)
        BY <1>1 DEF Wakes, Exists
    <2>2. Alive(k, q)
        <3>1. IInv(s)
            BY DEF Calm
        <3> QED BY <2>1, <3>1, LiveLists DEF Calm
    <2>3. q \in ToSet(sems[id].blockedQueue)
        <3>1. sems[id].blockedQueue \in Seq(Pids)
            BY <2>1, SemFields DEF SemState
        <3> QED BY <2>1, <3>1, ListFacts
    <2> QED BY <2>1, <2>2, <2>3 DEF QueueSleepers
<1>2. ASSUME NEW q \in Pids, frame[q] \in SemIds, q \in ToSet(k'.ready)
      PROVE  Wakes(s, id, q) /\ k'.cpu = q /\ Exists(id) /\ frame[q] = id
    BY <1>1, <1>2
<1>3. Asleeps'
    BY <1>2 DEF Asleeps
<1>4. IInv(k) /\ Older(k, k')
    BY CalmOlder DEF SemState
<1>5. ASSUME NEW j \in SemIds
      PROVE  /\ sems[j].blockedQueue \in Seq(Pids) /\ IsInjective(sems[j].blockedQueue)
             /\ \A q \in ToSet(sems[j].blockedQueue) : q \in Pids
             /\ sems'[j].blockedQueue \in {sems[j].blockedQueue, popBlockedQueue(sems[j].blockedQueue)}
             /\ Exists(id) /\ j = id =>
                    sems'[j].blockedQueue = popBlockedQueue(sems[j].blockedQueue)
    <2>1. sems[j].blockedQueue \in Seq(Pids) /\ IsInjective(sems[j].blockedQueue)
        BY SemFields DEF SemState, QueueSleepers
    <2>2. \A q \in ToSet(sems[j].blockedQueue) : q \in Pids
        BY <2>1, ListFacts
    <2>3. CASE ~Exists(id)
        <3>1. sems' = sems
            BY <2>3, PostedFacts
        <3> QED BY <2>1, <2>2, <2>3, <3>1
    <2>4. CASE Exists(id)
        <3>1. Became(id, TRUE, (sems[id].value + 1) % Word, sems[id].activeQueue,
                     popBlockedQueue(sems[id].blockedQueue))
            BY <2>4, PostedFacts
        <3> QED BY <2>1, <2>2, <3>1 DEF Became
    <2> QED BY <2>3, <2>4
<1>6. ASSUME NEW j \in SemIds
      PROVE  /\ IsInjective(sems'[j].blockedQueue)
             /\ \A q \in ToSet(sems'[j].blockedQueue) :
                    /\ q \in ToSet(sems[j].blockedQueue)
                    /\ Exists(id) /\ j = id /\ sems[j].blockedQueue # <<>> =>
                            q # Head(sems[j].blockedQueue)
    <2> DEFINE b == sems[j].blockedQueue
    <2>1. b \in Seq(Pids) /\ IsInjective(b)
          /\ sems'[j].blockedQueue \in {b, popBlockedQueue(b)}
          /\ (Exists(id) /\ j = id => sems'[j].blockedQueue = popBlockedQueue(b))
        BY <1>5
    <2> HIDE DEF b
    <2>2. CASE b = <<>>
        BY <2>1, <2>2 DEF popBlockedQueue, b
    <2>3. CASE b # <<>>
        <3>1. popBlockedQueue(b) = Tail(b)
            BY <2>3 DEF popBlockedQueue
        <3>2. IsInjective(Tail(b)) /\ \A q : q \in ToSet(Tail(b)) <=> q \in ToSet(b) /\ q # Head(b)
            BY <2>1, <2>3, PopFacts
        <3> QED BY <2>1, <3>1, <3>2 DEF b
    <2> QED BY <2>2, <2>3
<1>7. ASSUME NEW j \in SemIds, NEW q \in ToSet(sems'[j].blockedQueue), Alive(k', q)
      PROVE  q \notin ToSet(k'.ready)
    <2> SUFFICES ASSUME q \in ToSet(k'.ready) PROVE FALSE
        OBVIOUS
    <2>1. q \in ToSet(sems[j].blockedQueue) /\ q \in Pids
        BY <1>5, <1>6, <1>7
    <2>2. Alive(k, q)
        BY <1>7, <2>1 DEF Calm
    <2>3. frame[q] = j
        BY <2>1, <2>2 DEF QueueSleepers
    <2>4. Wakes(s, id, q) /\ Exists(id) /\ j = id
        BY <1>2, <2>1, <2>3
    <2>5. q = Head(sems[j].blockedQueue) /\ sems[j].blockedQueue # <<>>
        BY <1>1, <2>1, <2>4
    <2> QED BY <1>6, <1>7, <2>4, <2>5
<1>8. QueueSleepers'
    BY <1>3, <1>4, <1>6, <1>7, QueuesStep
<1> QED BY <1>2, <1>8

(* Who is inside when one process moves.                                   *)
LEMMA InsideNext ==
    ASSUME NEW p \in Pids, \A q \in Pids : q # p => call'[q] = call[q]
    PROVE  /\ ReadersInside' = IF call'[p].at \in {"read", "empty"} THEN ReadersInside \cup {p}
                               ELSE ReadersInside \ {p}
           /\ WritersInside' = IF call'[p].at \in {"write", "full"} THEN WritersInside \cup {p}
                               ELSE WritersInside \ {p}
BY DEF ReadersInside, WritersInside

(* The reader that sleeps does so still, and the bytes are the same.       *)
LEMMA FedKept ==
    ASSUME ReaderFed, CallsKnown, IInv(k), IInv(k'), ~Putting, OnlyEnd => OnlyEnd',
           pipe'.readPID = pipe.readPID,
           \A q \in Pids : call'[q].at = "empty" =>
                call[q].at = "empty" /\ (q \in ToSet(k.ready) => q \in ToSet(k'.ready))
    PROVE  ReaderFed'
<1> SUFFICES ASSUME NEW q \in Pids, call'[q].at = "empty"
             PROVE  pipe'.readPID = q /\ (q \in ToSet(k'.blocked) => OnlyEnd')
    BY DEF ReaderFed
<1>1. call[q].at = "empty" /\ (q \in ToSet(k.ready) => q \in ToSet(k'.ready)) /\ Alive(k, q)
    BY DEF CallsKnown
<1>2. q \in ToSet(k'.blocked) => q \in ToSet(k.blocked)
    BY <1>1, LiveLists
<1> QED BY <1>1, <1>2 DEF ReaderFed

(* The same of the writer.                                                 *)
LEMMA KnownKept ==
    ASSUME WriterKnown, CallsKnown, IInv(k), IInv(k'), pipe'.writePID = pipe.writePID,
           \A q \in Pids : call'[q].at = "full" =>
                /\ call[q].at = "full" /\ (q \in ToSet(k.ready) => q \in ToSet(k'.ready))
                /\ Full(pipe) => Full(pipe')
    PROVE  WriterKnown'
<1> SUFFICES ASSUME NEW q \in Pids, call'[q].at = "full"
             PROVE  pipe'.writePID = q /\ (q \in ToSet(k'.blocked) => Full(pipe'))
    BY DEF WriterKnown, Full
<1>1. /\ call[q].at = "full" /\ (q \in ToSet(k.ready) => q \in ToSet(k'.ready)) /\ Alive(k, q)
      /\ Full(pipe) => Full(pipe')
    BY DEF CallsKnown
<1>2. q \in ToSet(k'.blocked) => q \in ToSet(k.blocked)
    BY <1>1, LiveLists
<1> QED BY <1>1, <1>2 DEF WriterKnown

(* The ring stays, and what is said of its bytes.                          *)
LEMMA SameRingBytes ==
    ASSUME SameRing(pipe, pipe')
    PROVE  /\ OnlyEnd => OnlyEnd'
           /\ Full(pipe') <=> Full(pipe)
<1>1. Level(pipe') = Level(pipe) /\ \A j : At(pipe', j) = At(pipe, j)
    BY DEF SameRing, Level, At
<1> QED BY <1>1 DEF OnlyEnd, Full, SameRing

---------------------------------------------------------------------------
(* The sleepers, action by action.  semWait on one of the queues.          *)
LEMMA EnterSleep ==
    ASSUME PipeState, PipeState', Sleep, NEW p \in Pids, k.cpu = p, frame[p] = User,
           call[p].at = "user", NEW id \in SemIds, NEW asleep, NEW next, NEW n \in Nat,
           Enter(p, id, asleep, next, n),
           \/ id = readqueue /\ asleep = "rsem" /\ next = "read"
           \/ id = writequeue /\ asleep = "wsem" /\ next = "write"
    PROVE  Sleep'
<1> DEFINE c == sems[id]
           at == IF c.value > 0 THEN next ELSE asleep
<1>1. /\ SemState /\ SemState' /\ IInv(k) /\ IInv(k') /\ pipe \in PipeRecord /\ pipe' \in PipeRecord
      /\ CallsKnown /\ ReaderNoted /\ WriterNoted /\ QueueSleepers /\ ~Foreground(k)
      /\ ReaderFed /\ pipe' = pipe /\ trouble' = trouble /\ call \in [Pids -> PipeCall]
    BY DEF PipeState, SemState, Sleep, Enter
<1>2. NoneWoken
    BY <1>1, RunnerAlone, SemConstants
<1>3. /\ call'[p].at = at /\ \A q \in Pids : q # p => call'[q] = call[q]
    <2> DEFINE f == [at |-> at, i |-> 1, count |-> n]
    <2>1. call' = [call EXCEPT ![p] = f]
        BY DEF Enter
    <2>2. f.at = at
        OBVIOUS
    <2> HIDE DEF f
    <2> QED BY <1>1, <2>1, <2>2
<1>4. /\ at # "empty" /\ at # "full" /\ at # "user"
      /\ at \in {"read", "write"} <=> c.value > 0
    OBVIOUS
<1>5. c.value \in Int /\ c.blockedQueue \in Seq(Pids) /\ sems \in [SemIds -> semaphore]
      /\ c.value >= 0
    BY <1>1, SemFields DEF SemState
<1>6. ~Putting
    BY DEF Putting
<1>7. SameRing(pipe, pipe')
    BY <1>1 DEF SameRing
<1>8. (OnlyEnd => OnlyEnd') /\ (Full(pipe') <=> Full(pipe))
    BY <1>7, SameRingBytes
<1>9. /\ Calm(k, k') /\ NoneWoken' /\ (c.value > 0 => k'.cpu = p)
      /\ \A q \in ToSet(k.ready) : q # p => q \in ToSet(k'.ready)
      /\ QueueSleepers'
    <2>1. CASE c.value > 0
        <3>1. /\ k' = k /\ frame' = frame /\ sems' = [sems EXCEPT ![id].value = @ - 1]
            BY <2>1 DEF Enter
        <3>2. \A j \in SemIds : sems'[j].blockedQueue = sems[j].blockedQueue
            BY <1>5, <3>1
        <3>3. Calm(k, k')
            BY <1>1, <3>1 DEF Calm, KeepsConsole
        <3>4. NoneWoken'
            BY <1>2, <3>1 DEF NoneWoken
        <3>5. QueueSleepers'
            BY <1>1, <3>1, <3>2, <3>3, <3>4, CalmOlder, QueuesKept
        <3> QED BY <2>1, <3>1, <3>3, <3>4, <3>5
    <2>2. CASE ~(c.value > 0)
        <3> DEFINE r == addToProcessQueue(c.blockedQueue, p, FALSE, TRUE)
        <3>1. /\ k' = blockProcess(k, p) /\ frame' = [frame EXCEPT ![p] = id]
              /\ sems' = [sems EXCEPT ![id].blockedQueue = r]
            BY <2>2 DEF Enter
        <3>2. /\ Calm(k, k') /\ ToSet(k'.ready) \subseteq ToSet(k.ready) /\ p \notin ToSet(k'.ready)
              /\ \A q \in ToSet(k.ready) : q # p => q \in ToSet(k'.ready)
            BY <1>1, <3>1, BlockCalm
        <3>3. Alive(k, p) /\ p < k.pid /\ k'.pid = k.pid
            BY <1>1, <3>2, LiveLists DEF Calm
        <3>4. frame'[p] = id /\ \A q \in Pids : q # p => frame'[q] = frame[q]
            BY <1>1, <3>1 DEF SemState
        <3>5. NoneWoken'
            BY <1>1, <1>2, <3>2, <3>4, LiveLists DEF NoneWoken
        <3>6. IsInjective(c.blockedQueue) /\ p \notin ToSet(c.blockedQueue)
            BY <1>1, <3>3, SemConstants DEF QueueSleepers
        <3>7. /\ IsInjective(r) /\ \A q \in ToSet(r) : q \in ToSet(c.blockedQueue) \/ q = p
            BY <1>5, <3>6, EnqueueFacts
        <3>8. /\ sems'[id].blockedQueue = r
              /\ \A j \in SemIds : j # id => sems'[j] = sems[j]
            BY <1>5, <3>1
        <3> HIDE DEF r
        <3>9. \A j \in SemIds : \A q \in ToSet(sems[j].blockedQueue) :
                q \in Pids /\ q # p
            <4> TAKE j \in SemIds
            <4>1. sems[j].blockedQueue \in Seq(Pids)
                BY <1>5, SemFields
            <4>2. \A q \in ToSet(sems[j].blockedQueue) : q \in Pids
                BY <4>1, ListFacts
            <4> QED BY <1>1, <3>3, <4>2, SemConstants DEF QueueSleepers
        <3>10. ASSUME NEW j \in SemIds
               PROVE  /\ IsInjective(sems'[j].blockedQueue)
                      /\ \A q \in ToSet(sems'[j].blockedQueue) :
                            \/ q \in ToSet(sems[j].blockedQueue) /\ frame'[q] = frame[q]
                            \/ q = p /\ frame'[q] = j
            <4>1. CASE j = id
                BY <3>4, <3>7, <3>8, <3>9, <4>1
            <4>2. CASE j # id
                BY <1>1, <3>4, <3>8, <3>9, <4>2 DEF QueueSleepers
            <4> QED BY <4>1, <4>2
        <3>11. Asleeps' /\ Older(k, k')
            BY <1>1, <3>2, <3>5, CalmOlder DEF NoneWoken, Asleeps
        <3>12. ASSUME NEW j \in SemIds, NEW q \in ToSet(sems'[j].blockedQueue), Alive(k', q)
               PROVE  q \notin ToSet(k'.ready)
            <4>1. CASE q = p
                BY <3>2, <4>1
            <4>2. CASE q \in ToSet(sems[j].blockedQueue) /\ frame'[q] = frame[q]
                <5>1. q \in Pids /\ Alive(k, q)
                    BY <3>2, <3>9, <3>12, <4>2 DEF Calm
                <5>2. frame[q] = j
                    BY <1>1, <4>2, <5>1 DEF QueueSleepers
                <5> QED BY <1>2, <3>2, <5>1, <5>2 DEF NoneWoken
            <4> QED BY <3>10, <4>1, <4>2
        <3>13. QueueSleepers'
            BY <1>1, <3>3, <3>10, <3>11, <3>12, QueuesStep
        <3> QED BY <2>2, <3>2, <3>5, <3>13
    <2> QED BY <2>1, <2>2
<1>10. CallsKnown'
    BY <1>1, <1>3, <1>4, <1>9, CallsStep
<1>11. ReaderNoted' /\ WriterNoted'
    BY <1>1, <1>3, <1>9, ReaderNotedStep, WriterNotedStep
<1>12. ~Foreground(k')
    BY <1>1, <1>9, KeepsForeground DEF Calm
<1>13. ReaderFed'
    <2>1. \A q \in Pids : call'[q].at = "empty" =>
                call[q].at = "empty" /\ (q \in ToSet(k.ready) => q \in ToSet(k'.ready))
        BY <1>3, <1>4, <1>9
    <2> QED BY <1>1, <1>6, <1>8, <2>1, FedKept
<1>14. ASSUME WriterKnown PROVE WriterKnown'
    <2>1. \A q \in Pids : call'[q].at = "full" =>
                /\ call[q].at = "full" /\ (q \in ToSet(k.ready) => q \in ToSet(k'.ready))
                /\ Full(pipe) => Full(pipe')
        BY <1>3, <1>4, <1>8, <1>9
    <2> QED BY <1>1, <1>14, <2>1, KnownKept
<1>15. \A j \in SemIds : k'.cpu \in Pids => frame'[k'.cpu] # j
    BY <1>1, <1>9, LiveLists DEF NoneWoken
<1>16. /\ c.value > 0 => sems'[id].value = c.value - 1
       /\ ~(c.value > 0) => sems'[id].value = c.value
       /\ \A j \in SemIds : j # id => sems'[j].value = sems[j].value
    <2>1. CASE c.value > 0
        <3>1. sems' = [sems EXCEPT ![id].value = @ - 1]
            BY <2>1 DEF Enter
        <3> QED BY <1>5, <2>1, <3>1 DEF semaphore
    <2>2. CASE ~(c.value > 0)
        <3> DEFINE r == addToProcessQueue(c.blockedQueue, p, FALSE, TRUE)
        <3>1. sems' = [sems EXCEPT ![id].blockedQueue = r]
            BY <2>2 DEF Enter
        <3> HIDE DEF r
        <3> QED BY <1>5, <2>2, <3>1 DEF semaphore
    <2> QED BY <2>1, <2>2
<1>17. ASSUME NEW U, NEW T, OneUser(U, id), T = IF c.value > 0 THEN U \cup {p} ELSE U
       PROVE  Mutex(T, sems'[id].value, frame', k'.cpu, id)
    BY <1>5, <1>15, <1>16, <1>17 DEF OneUser, Mutex
<1>18. ASSUME NEW j \in SemIds, j # id, NEW U, OneUser(U, j)
       PROVE  Mutex(U, sems'[j].value, frame', k'.cpu, j)
    BY <1>15, <1>16, <1>18 DEF OneUser, Mutex
<1>19. p \notin ReadersInside /\ p \notin WritersInside
    BY DEF ReadersInside, WritersInside
<1>20. /\ ReadersInside' = IF at \in {"read", "empty"} THEN ReadersInside \cup {p}
                           ELSE ReadersInside \ {p}
       /\ WritersInside' = IF at \in {"write", "full"} THEN WritersInside \cup {p}
                           ELSE WritersInside \ {p}
    BY <1>3, InsideNext
<1> HIDE DEF c
<1>21. /\ ReadersInside' = IF id = readqueue /\ c.value > 0 THEN ReadersInside \cup {p} ELSE ReadersInside
       /\ WritersInside' = IF id = writequeue /\ c.value > 0 THEN WritersInside \cup {p} ELSE WritersInside
    BY <1>19, <1>20, PipeConstants
<1>22. OneUser(ReadersInside, readqueue) => OneUser(ReadersInside, readqueue)'
    <2>1. CASE id = readqueue
        BY <1>17, <1>21, <2>1 DEF OneUser
    <2>2. CASE id # readqueue
        BY <1>18, <1>21, <2>2, PipeConstants DEF OneUser
    <2> QED BY <2>1, <2>2
<1>23. OneUser(WritersInside, writequeue) => OneUser(WritersInside, writequeue)'
    <2>1. CASE id = writequeue
        BY <1>17, <1>21, <2>1 DEF OneUser
    <2>2. CASE id # writequeue
        BY <1>18, <1>21, <2>2, PipeConstants DEF OneUser
    <2> QED BY <2>1, <2>2
<1> QED BY <1>1, <1>9, <1>10, <1>11, <1>12, <1>13, <1>14, <1>22, <1>23 DEF Sleep

(* readFd.                                                                 *)
LEMMA ReadFdSleep ==
    ASSUME PipeState, PipeState', Sleep, NEW p \in Pids, NEW n \in ReadCounts, readFd(p, n)
    PROVE  Sleep'
<1>1. k.cpu = p /\ frame[p] = User /\ call[p].at = "user"
    BY DEF readFd, MayCall, InUser, Running
<1>2. Enter(p, readqueue, "rsem", "read", n) /\ readqueue \in SemIds /\ n \in Nat
    BY PipeConstants DEF readFd
<1> QED BY <1>1, <1>2, EnterSleep

(* writeFd.                                                                *)
LEMMA WriteFdSleep ==
    ASSUME PipeState, PipeState', Sleep, NEW p \in Pids, NEW n \in WriteCounts, writeFd(p, n)
    PROVE  Sleep'
<1>1. k.cpu = p /\ frame[p] = User /\ call[p].at = "user"
    BY DEF writeFd, MayCall, InUser, Running
<1>2. Enter(p, writequeue, "wsem", "write", n) /\ writequeue \in SemIds /\ n \in Nat
    BY PipeConstants DEF writeFd
<1> QED BY <1>1, <1>2, EnterSleep

(* The sleeper of a queue goes on and takes the unit that waits for it.    *)
LEMMA QueueWakeSleep ==
    ASSUME PipeState, PipeState', Sleep, NEW p \in Pids, QueueWake(p)
    PROVE  Sleep'
<1> DEFINE id == frame[p]
           c == sems[id]
           v == (c.value - 1) % Word
           at == IF id = readqueue THEN "read" ELSE "write"
<1>1. /\ SemState /\ SemState' /\ IInv(k) /\ IInv(k') /\ pipe \in PipeRecord /\ pipe' \in PipeRecord
      /\ CallsKnown /\ ReaderNoted /\ WriterNoted /\ QueueSleepers /\ ~Foreground(k)
      /\ ReaderFed /\ pipe' = pipe /\ trouble' = trouble /\ call \in [Pids -> PipeCall]
    BY DEF PipeState, SemState, Sleep, QueueWake
<1>2. /\ k.cpu = p /\ id \in SemIds /\ k' = k /\ frame' = [frame EXCEPT ![p] = User]
      /\ Became(id, TRUE, v, c.activeQueue, c.blockedQueue)
    BY <1>1, SemWakeFacts DEF QueueWake
<1>3. /\ call[p].at = IF id = readqueue THEN "rsem" ELSE "wsem"
      /\ id = readqueue \/ id = writequeue
    BY <1>2, PipeConstants DEF PipeState, CallState
<1>4. /\ call'[p].at = at /\ \A q \in Pids : q # p => call'[q] = call[q]
    <2> DEFINE f == [call[p] EXCEPT !.at = IF @ = "rsem" THEN "read" ELSE "write"]
    <2>1. call' = [call EXCEPT ![p] = f]
        BY <1>1 DEF QueueWake
    <2>2. call[p] \in PipeCall
        BY <1>1
    <2>3. f.at = at
        BY <1>3, <2>2 DEF PipeCall
    <2> HIDE DEF f, at
    <2> QED BY <1>1, <2>1, <2>3
<1>5. /\ frame'[p] = User /\ \A q \in Pids : q # p => frame'[q] = frame[q]
    BY <1>1, <1>2 DEF SemState
<1>6. c.value \in Int /\ 0 % Word = 0
    BY <1>1, <1>2, SemFields, SemConstants, ModSmall DEF SemState
<1>7. /\ sems'[id].value = v /\ \A j \in SemIds : j # id => sems'[j].value = sems[j].value
      /\ \A j \in SemIds : sems'[j].blockedQueue = sems[j].blockedQueue
    BY <1>2 DEF Became
<1>8. c.value = 1 => v = 0
    BY <1>6
<1> HIDE DEF c, v
<1>9. Calm(k, k') /\ Older(k, k')
    <2>1. Calm(k, k')
        BY <1>1, <1>2 DEF Calm, KeepsConsole
    <2> QED BY <1>1, <2>1, CalmOlder
<1>10. NoneWoken'
    <2>1. \A q \in Pids : frame'[q] \in SemIds => q # p /\ frame[q] \in SemIds
        BY <1>5, SemConstants
    <2> QED BY <1>1, <1>2, <2>1 DEF NoneWoken, QueueSleepers, Asleeps
<1>11. QueueSleepers'
    <2>1. \A j \in SemIds : \A q \in ToSet(sems[j].blockedQueue) :
                Alive(k', q) => frame'[q] = frame[q]
        <3> TAKE j \in SemIds
        <3> TAKE q \in ToSet(sems[j].blockedQueue)
        <3>1. q \in Pids
            <4>1. sems[j].blockedQueue \in Seq(Pids)
                BY <1>1, SemFields DEF SemState
            <4> QED BY <4>1, ListFacts
        <3>2. CASE q = p
            <4>1. p \notin ToSet(k.blocked) /\ Alive(k, p)
                BY <1>1, <1>2, LiveLists
            <4> QED BY <1>1, <3>2, <4>1 DEF QueueSleepers
        <3> QED BY <1>5, <3>1, <3>2
    <2> QED BY <1>1, <1>7, <1>9, <1>10, <2>1, QueuesKept
<1>12. CallsKnown'
    BY <1>1, <1>2, <1>4, <1>9, CallsStep
<1>13. ReaderNoted' /\ WriterNoted'
    <2>1. call[p].at # "empty" /\ call[p].at # "full"
        BY <1>3
    <2> QED BY <1>1, <1>2, <1>4, <1>9, <2>1, ReaderNotedStep, WriterNotedStep
<1>14. (OnlyEnd => OnlyEnd') /\ (Full(pipe') <=> Full(pipe))
    <2>1. SameRing(pipe, pipe')
        BY <1>1 DEF SameRing
    <2> QED BY <2>1, SameRingBytes
<1>15. ReaderFed'
    <2>1. \A q \in Pids : call'[q].at = "empty" =>
                call[q].at = "empty" /\ (q \in ToSet(k.ready) => q \in ToSet(k'.ready))
        BY <1>2, <1>4
    <2>2. ~Putting
        BY <1>2, <1>3 DEF Putting
    <2> QED BY <1>1, <1>14, <2>1, <2>2, FedKept
<1>16. ASSUME WriterKnown PROVE WriterKnown'
    <2>1. \A q \in Pids : call'[q].at = "full" =>
                /\ call[q].at = "full" /\ (q \in ToSet(k.ready) => q \in ToSet(k'.ready))
                /\ Full(pipe) => Full(pipe')
        BY <1>2, <1>4, <1>14
    <2> QED BY <1>1, <1>16, <2>1, KnownKept
<1>17. \A j \in SemIds : k'.cpu \in Pids => frame'[k'.cpu] # j
    BY <1>2, <1>5, SemConstants
<1>18. ASSUME NEW U, OneUser(U, id)
       PROVE  Mutex(U \cup {p}, sems'[id].value, frame', k'.cpu, id)
    <2>1. c.value = 1 /\ U = {}
        BY <1>2, <1>18 DEF OneUser, Mutex, c
    <2> QED BY <1>7, <1>8, <1>17, <2>1, <1>2 DEF Mutex
<1>19. ASSUME NEW j \in SemIds, j # id, NEW U, OneUser(U, j)
       PROVE  Mutex(U, sems'[j].value, frame', k'.cpu, j)
    BY <1>7, <1>17, <1>19 DEF OneUser, Mutex
<1>20. /\ ReadersInside' = IF id = readqueue THEN ReadersInside \cup {p} ELSE ReadersInside
       /\ WritersInside' = IF id = writequeue THEN WritersInside \cup {p} ELSE WritersInside
    <2>1. p \notin ReadersInside /\ p \notin WritersInside
        BY <1>3 DEF ReadersInside, WritersInside
    <2>2. /\ ReadersInside' = IF call'[p].at \in {"read", "empty"} THEN ReadersInside \cup {p}
                              ELSE ReadersInside \ {p}
          /\ WritersInside' = IF call'[p].at \in {"write", "full"} THEN WritersInside \cup {p}
                              ELSE WritersInside \ {p}
        BY <1>4, InsideNext
    <2>3. /\ call'[p].at \in {"read", "empty"} <=> id = readqueue
          /\ call'[p].at \in {"write", "full"} <=> id = writequeue
        BY <1>3, <1>4, PipeConstants
    <2> QED BY <2>1, <2>2, <2>3
<1>21. OneUser(ReadersInside, readqueue) => OneUser(ReadersInside, readqueue)'
    <2>1. CASE id = readqueue
        BY <1>18, <1>20, <2>1 DEF OneUser
    <2>2. CASE id # readqueue
        BY <1>19, <1>20, <2>2, PipeConstants DEF OneUser
    <2> QED BY <2>1, <2>2
<1>22. OneUser(WritersInside, writequeue) => OneUser(WritersInside, writequeue)'
    <2>1. CASE id = writequeue
        BY <1>18, <1>20, <2>1 DEF OneUser
    <2>2. CASE id # writequeue
        BY <1>19, <1>20, <2>2, PipeConstants DEF OneUser
    <2> QED BY <2>1, <2>2
<1>23. ~Foreground(k')
    BY <1>1, <1>2
<1> QED BY <1>1, <1>11, <1>12, <1>13, <1>15, <1>16, <1>21, <1>22, <1>23 DEF Sleep

(* A process inside that is awake: what is known of it and of the others.  *)
LEMMA InsideSleep ==
    ASSUME PipeState, PipeState', Sleep, NEW p \in Pids, NEW where, Inside(p, where)
    PROVE  /\ k.cpu = p /\ frame[p] = User /\ call[p].at \in where
           /\ SemState /\ SemState' /\ IInv(k) /\ IInv(k') /\ pipe \in PipeRecord /\ pipe' \in PipeRecord
           /\ CallsKnown /\ ReaderNoted /\ WriterNoted /\ QueueSleepers /\ ~Foreground(k)
           /\ ReaderFed /\ call \in [Pids -> PipeCall] /\ NoneWoken
           /\ pipe.readPID \in Pids \cup {0} /\ pipe.writePID \in Pids \cup {0}
<1>1. k.cpu = p /\ frame[p] = User /\ call[p].at \in where
    BY DEF Inside, Running
<1>2. /\ SemState /\ SemState' /\ IInv(k) /\ IInv(k') /\ pipe \in PipeRecord /\ pipe' \in PipeRecord
      /\ CallsKnown /\ ReaderNoted /\ WriterNoted /\ QueueSleepers /\ ~Foreground(k)
      /\ ReaderFed /\ call \in [Pids -> PipeCall]
    BY DEF PipeState, SemState, Sleep
<1>3. NoneWoken
    BY <1>1, <1>2, RunnerAlone, SemConstants
<1> QED BY <1>1, <1>2, <1>3, PipeFields

(* Waking the noted reader wakes nobody that sleeps in a queue.            *)
LEMMA ReaderAwake ==
    ASSUME PipeState, IInv(k), CallsKnown, ReaderNoted, ReaderFed, NoneWoken
    PROVE  LET s == unblockIf(k, pipe.readPID)
           IN  /\ Calm(k, s) /\ s.cpu = k.cpu
               /\ \A q \in ToSet(k.ready) : q \in ToSet(s.ready)
               /\ \A q \in Pids : frame[q] \in SemIds => q \notin ToSet(s.ready)
               /\ \A q \in Pids : call[q].at = "empty" => q \in ToSet(s.ready)
<1> DEFINE r == pipe.readPID
           s == unblockIf(k, r)
<1>1. r \in Pids \cup {0} /\ 0 \notin Pids
    BY PipeFields, Constants1 DEF PipeState
<1> HIDE DEF r
<1>2. /\ Calm(k, s) /\ s.cpu = k.cpu /\ ToSet(k.ready) \subseteq ToSet(s.ready)
      /\ ToSet(s.ready) \subseteq ToSet(k.ready) \cup {r}
      /\ r # 0 /\ Alive(k, r) => r \in ToSet(s.ready)
    BY <1>1, UnblockCalm
<1> HIDE DEF s
<1>3. ASSUME NEW q \in Pids, frame[q] \in SemIds PROVE q \notin ToSet(s.ready)
    <2> SUFFICES ASSUME q \in ToSet(s.ready) PROVE FALSE
        OBVIOUS
    <2>1. q = r /\ r # 0
        BY <1>1, <1>2, <1>3 DEF NoneWoken
    <2>2. Alive(k, q)
        <3>1. IInv(s)
            BY <1>2 DEF Calm
        <3> QED BY <1>2, <3>1, LiveLists DEF Calm
    <2>3. call[q].at = "empty"
        BY <2>1, <2>2 DEF ReaderNoted, r
    <2> QED BY <1>3, <2>3, PipeConstants DEF PipeState, CallState
<1>4. ASSUME NEW q \in Pids, call[q].at = "empty" PROVE q \in ToSet(s.ready)
    <2>1. q = r /\ Alive(k, q) /\ q # 0
        BY <1>1, <1>4 DEF ReaderFed, CallsKnown, r
    <2> QED BY <1>2, <2>1
<1> QED BY <1>2, <1>3, <1>4 DEF s, r

(* The same of the writer, which is known until a reader posts its queue.  *)
LEMMA WriterAwake ==
    ASSUME PipeState, IInv(k), CallsKnown, WriterNoted, NoneWoken
    PROVE  LET s == unblockIf(k, pipe.writePID)
           IN  /\ Calm(k, s) /\ s.cpu = k.cpu
               /\ \A q \in Pids : frame[q] \in SemIds => q \notin ToSet(s.ready)
               /\ WriterKnown => \A q \in Pids : call[q].at = "full" => q \in ToSet(s.ready)
<1> DEFINE r == pipe.writePID
           s == unblockIf(k, r)
<1>1. r \in Pids \cup {0} /\ 0 \notin Pids
    BY PipeFields, Constants1 DEF PipeState
<1> HIDE DEF r
<1>2. /\ Calm(k, s) /\ s.cpu = k.cpu /\ ToSet(k.ready) \subseteq ToSet(s.ready)
      /\ ToSet(s.ready) \subseteq ToSet(k.ready) \cup {r}
      /\ r # 0 /\ Alive(k, r) => r \in ToSet(s.ready)
    BY <1>1, UnblockCalm
<1> HIDE DEF s
<1>3. ASSUME NEW q \in Pids, frame[q] \in SemIds PROVE q \notin ToSet(s.ready)
    <2> SUFFICES ASSUME q \in ToSet(s.ready) PROVE FALSE
        OBVIOUS
    <2>1. q = r /\ r # 0
        BY <1>1, <1>2, <1>3 DEF NoneWoken
    <2>2. Alive(k, q)
        <3>1. IInv(s)
            BY <1>2 DEF Calm
        <3> QED BY <1>2, <3>1, LiveLists DEF Calm
    <2>3. call[q].at = "full"
        BY <2>1, <2>2 DEF WriterNoted, r
    <2> QED BY <1>3, <2>3, PipeConstants DEF PipeState, CallState
<1>4. ASSUME WriterKnown, NEW q \in Pids, call[q].at = "full" PROVE q \in ToSet(s.ready)
    <2>1. q = r /\ Alive(k, q) /\ q # 0
        BY <1>1, <1>4 DEF WriterKnown, CallsKnown, r
    <2> QED BY <1>2, <2>1
<1> QED BY <1>2, <1>3, <1>4 DEF s, r

(* A post of any id while one user leaves: the unit it gives back, if that *)
(* was its queue, is the only one, and it waits for the one just woken.    *)
LEMMA MutexPosted ==
    ASSUME SemState, NEW id \in SemIds, NEW j, sems' = Posted(j), frame' = frame,
           NEW U, OneUser(U, id), NEW T, T \subseteq U,
           T = U => j # id,
           T # U => T = {},
           \A q \in Pids : frame[q] = id /\ k'.cpu = q => Exists(j) /\ j = id
    PROVE  Mutex(T, sems'[id].value, frame', k'.cpu, id)
<1> DEFINE v == sems[id].value
           w == sems'[id].value
<1>1. v \in Int /\ v >= 0 /\ 1 % Word = 1
    <2>1. 1 \in Int /\ 1 < Word
        BY SchedulerAssumption DEF HIGH
    <2> QED BY <2>1, SemFields, ModSmall DEF SemState
<1>2. \/ Exists(j) /\ j = id /\ w = (v + 1) % Word
      \/ ~(Exists(j) /\ j = id) /\ w = v
    BY PostedFacts DEF Became
<1> HIDE DEF v, w
<1>3. CASE T = U
    BY <1>1, <1>2, <1>3 DEF OneUser, Mutex, v, w
<1>4. CASE T # U
    <2>1. v = 0
        BY <1>4 DEF OneUser, Mutex, v
    <2>2. Exists(j) /\ j = id => w = 1
        BY <1>1, <1>2, <2>1
    <2>3. w <= 1
        BY <1>2, <2>1, <2>2
    <2> QED BY <1>4, <2>2, <2>3 DEF Mutex, w
<1> QED BY <1>3, <1>4

(* Nobody is woken: the queues have the users they had.                    *)
LEMMA MutexKept ==
    ASSUME NEW id \in SemIds, NEW U, OneUser(U, id), IInv(k'), NoneWoken',
           sems'[id].value \in {sems[id].value, 0}, NEW T, T \subseteq U
    PROVE  Mutex(T, sems'[id].value, frame', k'.cpu, id)
<1>1. k'.cpu \in Pids => frame'[k'.cpu] # id
    BY LiveLists DEF NoneWoken
<1> QED BY <1>1 DEF OneUser, Mutex

(* A reader finds nothing and sleeps: its pid is noted.                    *)
LEMMA ReadWaitsSleep ==
    ASSUME PipeState, PipeState', Sleep, NEW p \in Pids, readPipeWaits(p)
    PROVE  Sleep'
<1> DEFINE d == [call[p] EXCEPT !.at = "empty"]
<1>1. /\ k.cpu = p /\ frame[p] = User /\ call[p].at \in {"read", "empty"}
      /\ SemState /\ SemState' /\ IInv(k) /\ IInv(k') /\ pipe \in PipeRecord /\ pipe' \in PipeRecord
      /\ CallsKnown /\ ReaderNoted /\ WriterNoted /\ QueueSleepers /\ ~Foreground(k)
      /\ ReaderFed /\ call \in [Pids -> PipeCall] /\ NoneWoken
      /\ pipe.readPID \in Pids \cup {0}
    BY InsideSleep DEF readPipeWaits
<1>2. /\ pipe' = [pipe EXCEPT !.readPID = p] /\ k' = blockProcess(k, p) /\ Empty(pipe)
      /\ sems' = sems /\ frame' = frame /\ trouble' = trouble
    <2> DEFINE q == IF call[p].at = "read" THEN p ELSE pipe.readPID
    <2>1. q = p
        BY <1>1 DEF ReaderFed
    <2>2. /\ pipe' = [pipe EXCEPT !.readPID = q] /\ k' = blockProcess(k, pipe'.readPID)
          /\ Empty(pipe) /\ sems' = sems /\ frame' = frame /\ trouble' = trouble
        BY DEF readPipeWaits
    <2> HIDE DEF q
    <2>3. pipe'.readPID = p
        BY <1>1, <2>1, <2>2, NotedPid
    <2> QED BY <2>1, <2>2, <2>3
<1>3. SameRing(pipe, pipe') /\ pipe'.readPID = p /\ pipe'.writePID = pipe.writePID
    <2>1. pipe \in PipeRecord /\ p \in Pids \cup {0}
        BY <1>1
    <2>2. LET t == [pipe EXCEPT !.readPID = p]
          IN  SameRing(pipe, t) /\ t.readPID = p /\ t.writePID = pipe.writePID
        BY <2>1, NotedPid
    <2> QED BY <1>2, <2>2
<1>4. /\ call'[p].at = "empty" /\ \A q \in Pids : q # p => call'[q] = call[q]
    <2>1. call' = [call EXCEPT ![p] = d]
        BY <1>1 DEF readPipeWaits
    <2>2. d.at = "empty"
        BY <1>1, FrameFields
    <2> HIDE DEF d
    <2> QED BY <1>1, <2>1, <2>2
<1>5. /\ Calm(k, k') /\ ToSet(k'.ready) \subseteq ToSet(k.ready)
      /\ \A q \in ToSet(k.ready) : q # p => q \in ToSet(k'.ready)
    BY <1>1, <1>2, BlockCalm
<1>6. NoneWoken'
    BY <1>1, <1>2, <1>5 DEF NoneWoken
<1>7. QueueSleepers'
    BY <1>1, <1>2, <1>5, <1>6, CalmOlder, QueuesKept
<1>8. CallsKnown'
    BY <1>1, <1>4, <1>5, CallsStep
<1>9. ReaderNoted' /\ WriterNoted'
    <2>1. ReaderNoted'
        BY <1>1, <1>3, <1>4, <1>5, ReaderNotedStep
    <2>2. WriterNoted'
        BY <1>1, <1>3, <1>4, <1>5, WriterNotedStep
    <2> QED BY <2>1, <2>2
<1>10. (OnlyEnd => OnlyEnd') /\ (Full(pipe') <=> Full(pipe))
    BY <1>3, SameRingBytes
<1>11. p \in ReadersInside /\ p \notin WritersInside
    BY <1>1 DEF ReadersInside, WritersInside
<1>12. ReadersInside' = ReadersInside /\ WritersInside' = WritersInside
    BY <1>4, <1>11, InsideNext
<1>13. ReaderFed'
    <2>1. \A q \in Pids : call'[q].at = "empty" => q = p
        BY <1>4, <1>11 DEF Sleep, OneUser, Mutex, ReadersInside
    <2>2. OnlyEnd
        <3>1. Level(pipe) = 0
            BY <1>1, <1>2, FullFacts
        <3> QED BY <3>1 DEF OnlyEnd
    <2> QED BY <1>3, <1>10, <2>1, <2>2 DEF ReaderFed
<1>14. ASSUME WriterKnown PROVE WriterKnown'
    <2>1. \A q \in Pids : call'[q].at = "full" =>
                /\ call[q].at = "full" /\ (q \in ToSet(k.ready) => q \in ToSet(k'.ready))
                /\ Full(pipe) => Full(pipe')
        BY <1>4, <1>5, <1>10
    <2> QED BY <1>1, <1>3, <1>14, <2>1, KnownKept
<1>15. \A id \in SemIds : \A U : OneUser(U, id) => Mutex(U, sems'[id].value, frame', k'.cpu, id)
    BY <1>1, <1>2, <1>6, MutexKept
<1>16. /\ OneUser(ReadersInside, readqueue) => OneUser(ReadersInside, readqueue)'
       /\ OneUser(WritersInside, writequeue) => OneUser(WritersInside, writequeue)'
    BY <1>12, <1>15, PipeConstants DEF OneUser
<1>17. ~Foreground(k')
    BY <1>1, <1>5, KeepsForeground DEF Calm
<1> QED BY <1>2, <1>7, <1>8, <1>9, <1>13, <1>14, <1>16, <1>17 DEF Sleep

(* A writer finds no room and sleeps: the reader is awake.                 *)
LEMMA WriteWaitsSleep ==
    ASSUME PipeState, PipeState', Sleep, NEW p \in Pids, writePipeWaits(p)
    PROVE  Sleep'
<1> DEFINE d == [call[p] EXCEPT !.at = "full"]
           w == IF call[p].at = "write" THEN p ELSE pipe.writePID
           s == unblockIf(k, pipe.readPID)
<1>1. /\ k.cpu = p /\ frame[p] = User /\ call[p].at \in {"write", "full"}
      /\ SemState /\ SemState' /\ IInv(k) /\ IInv(k') /\ pipe \in PipeRecord /\ pipe' \in PipeRecord
      /\ CallsKnown /\ ReaderNoted /\ WriterNoted /\ QueueSleepers /\ ~Foreground(k)
      /\ ReaderFed /\ call \in [Pids -> PipeCall] /\ NoneWoken
      /\ pipe.readPID \in Pids \cup {0} /\ pipe.writePID \in Pids \cup {0}
    BY InsideSleep DEF writePipeWaits
<1>2. /\ pipe' = [pipe EXCEPT !.writePID = w] /\ w \in Pids \cup {0}
      /\ k' = blockProcess(s, pipe'.writePID) /\ Full(pipe)
      /\ sems' = sems /\ frame' = frame /\ trouble' = trouble
    BY <1>1 DEF writePipeWaits
<1>3. /\ call'[p].at = "full" /\ \A q \in Pids : q # p => call'[q] = call[q]
    <2>1. call' = [call EXCEPT ![p] = d]
        BY <1>1 DEF writePipeWaits
    <2>2. d.at = "full"
        BY <1>1, FrameFields
    <2> HIDE DEF d
    <2> QED BY <1>1, <2>1, <2>2
<1>4. /\ Calm(k, s) /\ s.cpu = k.cpu
      /\ \A q \in Pids : frame[q] \in SemIds => q \notin ToSet(s.ready)
      /\ \A q \in Pids : call[q].at = "empty" => q \in ToSet(s.ready)
    BY <1>1, ReaderAwake
<1> HIDE DEF s, w
<1>5. SameRing(pipe, pipe') /\ pipe'.writePID = w /\ pipe'.readPID = pipe.readPID
    <2>1. pipe \in PipeRecord /\ w \in Pids \cup {0}
        BY <1>1, <1>2
    <2>2. LET t == [pipe EXCEPT !.writePID = w]
          IN  SameRing(pipe, t) /\ t.writePID = w /\ t.readPID = pipe.readPID
        BY <2>1, NotedPid
    <2> QED BY <1>2, <2>2
<1>6. /\ Calm(s, k') /\ ToSet(k'.ready) \subseteq ToSet(s.ready)
      /\ \A q \in ToSet(s.ready) : q # w => q \in ToSet(k'.ready)
    <2>1. IInv(s) /\ s.cpu = p /\ k' = blockProcess(s, w)
        BY <1>1, <1>2, <1>4, <1>5 DEF Calm
    <2> QED BY <1>2, <2>1, BlockCalm
<1>7. Calm(k, k')
    BY <1>4, <1>6, CalmChain
<1>8. NoneWoken'
    BY <1>2, <1>4, <1>6 DEF NoneWoken
<1>9. QueueSleepers'
    BY <1>1, <1>2, <1>7, <1>8, CalmOlder, QueuesKept
<1>10. CallsKnown'
    BY <1>1, <1>3, <1>7, CallsStep
<1>11. ReaderNoted' /\ WriterNoted'
    <2>1. ReaderNoted'
        BY <1>1, <1>3, <1>5, <1>7, ReaderNotedStep
    <2>2. WriterNoted'
        BY <1>1, <1>3, <1>5, <1>7, WriterNotedStep DEF w
    <2> QED BY <2>1, <2>2
<1>12. Full(pipe')
    BY <1>2, <1>5, SameRingBytes
<1>13. p \in WritersInside /\ p \notin ReadersInside
    BY <1>1 DEF ReadersInside, WritersInside
<1>14. ReadersInside' = ReadersInside /\ WritersInside' = WritersInside
    BY <1>3, <1>13, InsideNext
<1>15. ReaderFed'
    <2> SUFFICES ASSUME NEW q \in Pids, call'[q].at = "empty"
                 PROVE  pipe'.readPID = q /\ q \notin ToSet(k'.blocked)
        BY DEF ReaderFed
    <2>1. call[q].at = "empty" /\ q \in ToSet(s.ready) /\ pipe.readPID = q /\ Alive(k, q)
        BY <1>1, <1>3, <1>4 DEF ReaderFed, CallsKnown
    <2>2. q # w
        <3>1. CASE call[p].at = "write"
            BY <2>1, <3>1 DEF w
        <3>2. CASE call[p].at # "write"
            <4>1. w = pipe.writePID /\ q # 0
                BY <1>1, <3>2, LiveLists DEF w
            <4> QED BY <2>1, <4>1 DEF Sleep, WriterNoted
        <3> QED BY <3>1, <3>2
    <2>3. q \in ToSet(k'.ready)
        BY <1>6, <2>1, <2>2
    <2> QED BY <1>1, <1>5, <2>1, <2>3, LiveLists
<1>16. ASSUME WriterKnown, OneUser(WritersInside, writequeue) PROVE WriterKnown'
    <2>1. \A q \in Pids : call'[q].at = "full" => q = p
        BY <1>3, <1>13, <1>16 DEF OneUser, Mutex, WritersInside
    <2>2. w = p
        BY <1>1, <1>16 DEF WriterKnown, w
    <2> QED BY <1>5, <1>12, <2>1, <2>2 DEF WriterKnown
<1>17. \A id \in SemIds : \A U : OneUser(U, id) => Mutex(U, sems'[id].value, frame', k'.cpu, id)
    BY <1>1, <1>2, <1>8, MutexKept
<1>18. /\ OneUser(ReadersInside, readqueue) => OneUser(ReadersInside, readqueue)'
       /\ OneUser(WritersInside, writequeue) => OneUser(WritersInside, writequeue)'
    BY <1>14, <1>17, PipeConstants DEF OneUser
<1>19. ~Foreground(k')
    BY <1>1, <1>7, KeepsForeground DEF Calm
<1> QED BY <1>2, <1>9, <1>10, <1>11, <1>15, <1>16, <1>18, <1>19 DEF Sleep

(* A reader takes what there is and posts: the writer it woke is awake,    *)
(* and nobody else sleeps in the loop of the readers.                      *)
LEMMA ReadSleep ==
    ASSUME PipeState, PipeState', Sleep, NEW p \in Pids, readPipe(p)
    PROVE  Sleep'
<1> DEFINE w == pipe.writePID
           s == unblockIf(k, w)
           n == call[p].count
<1>1. /\ k.cpu = p /\ frame[p] = User /\ call[p].at \in {"read", "empty"}
      /\ SemState /\ SemState' /\ IInv(k) /\ IInv(k') /\ pipe \in PipeRecord /\ pipe' \in PipeRecord
      /\ CallsKnown /\ ReaderNoted /\ WriterNoted /\ QueueSleepers /\ ~Foreground(k)
      /\ ReaderFed /\ call \in [Pids -> PipeCall] /\ NoneWoken
    BY InsideSleep DEF readPipe
<1>2. /\ pipe' = [pipe EXCEPT !.readPID = 0, !.readIdx = Add(@, Taken(pipe, n))]
      /\ k' = PostedKernel(s, w) /\ sems' = Posted(w)
      /\ call' = [call EXCEPT ![p] = NoCall] /\ frame' = frame
      /\ trouble' = {} => trouble = {} /\ w # writequeue
    BY DEF readPipe
<1>3. pipe'.readPID = 0 /\ pipe'.writePID = w
    <2>1. n \in Nat
        BY <1>1, FrameFields
    <2> HIDE DEF n
    <2> QED BY <1>2, <2>1, ReceiveChannel
<1>4. /\ Calm(k, s) /\ s.cpu = k.cpu
      /\ \A q \in Pids : frame[q] \in SemIds => q \notin ToSet(s.ready)
      /\ WriterKnown => \A q \in Pids : call[q].at = "full" => q \in ToSet(s.ready)
    BY <1>1, WriterAwake
<1> HIDE DEF s, w, n
<1>5. /\ Calm(s, k') /\ ToSet(s.ready) \subseteq ToSet(k'.ready)
      /\ \A q \in ToSet(k'.ready) : q \in ToSet(s.ready) \/ Wakes(s, w, q)
      /\ \A h \in Pids : Wakes(s, w, h) => k'.cpu = h
    <2>1. IInv(s) /\ s.cpu = p
        BY <1>1, <1>4 DEF Calm
    <2> QED BY <1>1, <1>2, <2>1, PostCalm
<1>6. Calm(k, k')
    BY <1>4, <1>5, CalmChain
<1>7. call'[p].at = "user" /\ \A q \in Pids : q # p => call'[q] = call[q]
    BY <1>1, <1>2 DEF NoCall
<1>8. /\ QueueSleepers'
      /\ \A q \in Pids : frame[q] \in SemIds /\ q \in ToSet(k'.ready) => Exists(w) /\ frame[q] = w
    BY <1>1, <1>2, <1>4, <1>5, <1>6, QueuesPosted
<1>9. CallsKnown'
    BY <1>1, <1>6, <1>7, CallsStep
<1>10. ReaderNoted' /\ WriterNoted'
    <2>1. ReaderNoted'
        BY <1>1, <1>3, <1>6, <1>7, ReaderNotedStep
    <2>2. call[p].at # "full"
        BY <1>1
    <2>3. WriterNoted'
        BY <1>1, <1>3, <1>6, <1>7, <2>2, WriterNotedStep DEF w
    <2> QED BY <2>1, <2>3
<1>11. p \in ReadersInside /\ p \notin WritersInside
    BY <1>1 DEF ReadersInside, WritersInside
<1>12. ReadersInside' = ReadersInside \ {p} /\ WritersInside' = WritersInside
    BY <1>7, <1>11, InsideNext
<1>13. ReadersInside \ {p} = {}
    BY <1>11 DEF Sleep, OneUser, Mutex
<1>14. ReaderFed'
    BY <1>12, <1>13 DEF ReaderFed, ReadersInside
<1>15. ASSUME WriterKnown PROVE WriterKnown'
    <2> SUFFICES ASSUME NEW q \in Pids, call'[q].at = "full"
                 PROVE  pipe'.writePID = q /\ q \notin ToSet(k'.blocked)
        BY DEF WriterKnown, Full
    <2>1. call[q].at = "full"
        BY <1>7
    <2>2. w = q /\ q \in ToSet(k'.ready)
        BY <1>4, <1>5, <1>15, <2>1 DEF WriterKnown, w
    <2> QED BY <1>1, <1>3, <2>2, LiveLists
<1>16. ASSUME NEW id \in SemIds
       PROVE  \A q \in Pids : frame[q] = id /\ k'.cpu = q => Exists(w) /\ w = id
    BY <1>1, <1>8, LiveLists
<1>17. OneUser(ReadersInside, readqueue)'
    <2> DEFINE U == ReadersInside
               T == U \ {p}
    <2>1. OneUser(U, readqueue) /\ T \subseteq U /\ T # U /\ T = {} /\ readqueue \in SemIds
        BY <1>11, <1>13, PipeConstants DEF Sleep
    <2> HIDE DEF U, T
    <2>2. Mutex(T, sems'[readqueue].value, frame', k'.cpu, readqueue)
        BY <1>1, <1>2, <1>16, <2>1, MutexPosted
    <2> QED BY <1>12, <2>2 DEF OneUser, U, T
<1>18. ASSUME w # writequeue, OneUser(WritersInside, writequeue)
       PROVE  OneUser(WritersInside, writequeue)'
    <2> DEFINE U == WritersInside
    <2>1. OneUser(U, writequeue) /\ writequeue \in SemIds
        BY <1>18, PipeConstants
    <2> HIDE DEF U
    <2>2. Mutex(U, sems'[writequeue].value, frame', k'.cpu, writequeue)
        BY <1>1, <1>2, <1>16, <1>18, <2>1, MutexPosted
    <2> QED BY <1>12, <2>2 DEF OneUser, U
<1>19. ~Foreground(k')
    BY <1>1, <1>6, KeepsForeground DEF Calm
<1> QED BY <1>2, <1>8, <1>9, <1>10, <1>14, <1>15, <1>17, <1>18, <1>19 DEF Sleep

(* A writer that finds nobody to read: no reader is inside.                *)
LEMMA WriteBrokenSleep ==
    ASSUME PipeState, PipeState', Sleep, NEW p \in Pids, writePipeBroken(p)
    PROVE  Sleep'
<1>1. /\ k.cpu = p /\ frame[p] = User /\ call[p].at \in {"write", "full"}
      /\ SemState /\ SemState' /\ IInv(k) /\ IInv(k') /\ pipe \in PipeRecord /\ pipe' \in PipeRecord
      /\ CallsKnown /\ ReaderNoted /\ WriterNoted /\ QueueSleepers /\ ~Foreground(k)
      /\ ReaderFed /\ call \in [Pids -> PipeCall] /\ NoneWoken
    BY InsideSleep DEF writePipeBroken
<1>2. /\ pipe' = [pipe EXCEPT !.writePID = 0] /\ ~pipe.readOpen
      /\ k' = PostedKernel(k, writequeue) /\ sems' = Posted(writequeue)
      /\ call' = [call EXCEPT ![p] = NoCall] /\ frame' = frame /\ trouble' = trouble
    BY DEF writePipeBroken
<1>3. pipe'.writePID = 0 /\ pipe'.readPID = pipe.readPID
    BY <1>1, <1>2, NotedPid
<1>4. Calm(k, k) /\ \A q \in Pids : frame[q] \in SemIds => q \notin ToSet(k.ready)
    BY <1>1 DEF Calm, KeepsConsole, NoneWoken
<1>5. /\ Calm(k, k') /\ ToSet(k.ready) \subseteq ToSet(k'.ready)
      /\ \A q \in ToSet(k'.ready) : q \in ToSet(k.ready) \/ Wakes(k, writequeue, q)
      /\ \A h \in Pids : Wakes(k, writequeue, h) => k'.cpu = h
    BY <1>1, <1>2, PostCalm
<1>6. call'[p].at = "user" /\ \A q \in Pids : q # p => call'[q] = call[q]
    BY <1>1, <1>2 DEF NoCall
<1>7. /\ QueueSleepers'
      /\ \A q \in Pids : frame[q] \in SemIds /\ q \in ToSet(k'.ready) =>
            Exists(writequeue) /\ frame[q] = writequeue
    BY <1>1, <1>2, <1>4, <1>5, QueuesPosted
<1>8. CallsKnown'
    BY <1>1, <1>5, <1>6, CallsStep
<1>9. ReaderNoted' /\ WriterNoted'
    <2>1. call[p].at # "empty"
        BY <1>1
    <2>2. ReaderNoted'
        BY <1>1, <1>3, <1>5, <1>6, <2>1, ReaderNotedStep
    <2>3. WriterNoted'
        BY <1>1, <1>3, <1>5, <1>6, WriterNotedStep
    <2> QED BY <2>2, <2>3
<1>10. p \in WritersInside /\ p \notin ReadersInside
    BY <1>1 DEF ReadersInside, WritersInside
<1>11. ReadersInside' = ReadersInside /\ WritersInside' = WritersInside \ {p}
    BY <1>6, <1>10, InsideNext
<1>12. ReaderFed'
    <2>1. \A q \in Pids : call[q].at # "empty"
        BY <1>2 DEF PipeState, CallState, EndsState
    <2> QED BY <1>6, <2>1 DEF ReaderFed
<1>13. ASSUME NEW id \in SemIds
       PROVE  \A q \in Pids : frame[q] = id /\ k'.cpu = q => Exists(writequeue) /\ writequeue = id
    BY <1>1, <1>7, LiveLists
<1>14. OneUser(ReadersInside, readqueue)'
    <2> DEFINE U == ReadersInside
    <2>1. OneUser(U, readqueue) /\ readqueue \in SemIds /\ writequeue # readqueue
        BY PipeConstants DEF Sleep
    <2> HIDE DEF U
    <2>2. Mutex(U, sems'[readqueue].value, frame', k'.cpu, readqueue)
        BY <1>1, <1>2, <1>13, <2>1, MutexPosted
    <2> QED BY <1>11, <2>2 DEF OneUser, U
<1>15. ASSUME OneUser(WritersInside, writequeue)
       PROVE  WritersInside \ {p} = {} /\ OneUser(WritersInside, writequeue)' /\ WriterKnown'
    <2> DEFINE U == WritersInside
               T == U \ {p}
    <2>1. OneUser(U, writequeue) /\ T \subseteq U /\ T # U /\ T = {} /\ writequeue \in SemIds
        BY <1>10, <1>15, PipeConstants DEF OneUser, Mutex
    <2> HIDE DEF U, T
    <2>2. Mutex(T, sems'[writequeue].value, frame', k'.cpu, writequeue)
        BY <1>1, <1>2, <1>13, <2>1, MutexPosted
    <2>3. OneUser(WritersInside, writequeue)'
        BY <1>11, <2>2 DEF OneUser, U, T
    <2>4. \A q \in Pids : call'[q].at # "full"
        BY <1>11, <2>1 DEF WritersInside, U, T
    <2> QED BY <2>1, <2>3, <2>4 DEF WriterKnown, U, T
<1>16. ~Foreground(k')
    BY <1>1, <1>5, KeepsForeground DEF Calm
<1> QED BY <1>2, <1>7, <1>8, <1>9, <1>12, <1>14, <1>15, <1>16 DEF Sleep

(* A writer puts a byte, not its last: it goes on with interrupts masked.  *)
LEMMA WritePutSleep ==
    ASSUME PipeState, PipeState', Sleep, NEW p \in Pids, writePipePut(p)
    PROVE  Sleep'
<1> DEFINE b == Byte(p, call[p].i)
           d == [call[p] EXCEPT !.at = "write", !.i = @ + 1]
<1>1. /\ k.cpu = p /\ frame[p] = User /\ call[p].at \in {"write", "full"}
      /\ SemState /\ SemState' /\ IInv(k) /\ IInv(k') /\ pipe \in PipeRecord /\ pipe' \in PipeRecord
      /\ CallsKnown /\ ReaderNoted /\ WriterNoted /\ QueueSleepers /\ ~Foreground(k)
      /\ ReaderFed /\ call \in [Pids -> PipeCall] /\ NoneWoken
    BY InsideSleep DEF writePipePut
<1>2. /\ pipe' = [PutByte(pipe, b) EXCEPT !.writePID = 0] /\ ~Full(pipe)
      /\ k' = k /\ sems' = sems /\ frame' = frame /\ trouble' = trouble
    BY DEF writePipePut
<1>3. pipe'.readPID = pipe.readPID /\ pipe'.writePID = 0
    <2>1. pipe.writeOpen /\ b \in Data
        BY WriterFacts DEF writePipePut
    <2> HIDE DEF b
    <2> QED BY <1>2, <2>1, SendChannel
<1>4. call'[p].at = "write" /\ \A q \in Pids : q # p => call'[q] = call[q]
    <2>1. call' = [call EXCEPT ![p] = d]
        BY <1>1 DEF writePipePut
    <2>2. d.at = "write"
        <3> DEFINE c == call[p]
        <3>1. c \in PipeCall
            BY <1>1
        <3> HIDE DEF c
        <3>2. LET f == [c EXCEPT !.at = "write", !.i = @ + 1]
              IN  f.at = "write"
            BY <3>1 DEF PipeCall
        <3> QED BY <3>2 DEF c
    <2> HIDE DEF d
    <2> QED BY <1>1, <2>1, <2>2
<1> HIDE DEF b, d
<1>5. Calm(k, k')
    BY <1>1, <1>2 DEF Calm, KeepsConsole
<1>6. NoneWoken'
    BY <1>1, <1>2 DEF NoneWoken
<1>7. QueueSleepers'
    BY <1>1, <1>2, <1>5, <1>6, CalmOlder, QueuesKept
<1>8. CallsKnown'
    BY <1>1, <1>2, <1>4, <1>5, CallsStep
<1>9. ReaderNoted' /\ WriterNoted'
    <2>1. call[p].at # "empty"
        BY <1>1
    <2>2. ReaderNoted'
        BY <1>1, <1>3, <1>4, <1>5, <2>1, ReaderNotedStep
    <2>3. WriterNoted'
        BY <1>1, <1>3, <1>4, <1>5, WriterNotedStep
    <2> QED BY <2>2, <2>3
<1>10. p \in WritersInside /\ p \notin ReadersInside
    BY <1>1 DEF ReadersInside, WritersInside
<1>11. ReadersInside' = ReadersInside /\ WritersInside' = WritersInside
    BY <1>4, <1>10, InsideNext
<1>12. ReaderFed'
    <2>1. Putting'
        BY <1>1, <1>2, <1>4 DEF Putting
    <2>2. \A q \in Pids : call'[q].at = "empty" => call[q].at = "empty"
        BY <1>4
    <2> QED BY <1>1, <1>3, <2>1, <2>2 DEF ReaderFed
<1>13. ASSUME OneUser(WritersInside, writequeue) PROVE WriterKnown'
    <2>1. \A q \in Pids : call'[q].at # "full"
        BY <1>4, <1>10, <1>13 DEF OneUser, Mutex, WritersInside
    <2> QED BY <2>1 DEF WriterKnown
<1>14. \A id \in SemIds : \A U : OneUser(U, id) => Mutex(U, sems'[id].value, frame', k'.cpu, id)
    BY <1>1, <1>2, <1>6, MutexKept
<1>15. /\ OneUser(ReadersInside, readqueue) => OneUser(ReadersInside, readqueue)'
       /\ OneUser(WritersInside, writequeue) => OneUser(WritersInside, writequeue)'
    BY <1>11, <1>14, PipeConstants DEF OneUser
<1>16. ~Foreground(k')
    BY <1>1, <1>2
<1> QED BY <1>2, <1>7, <1>8, <1>9, <1>12, <1>13, <1>15, <1>16 DEF Sleep

(* A writer puts its last byte, wakes the reader and posts.                *)
LEMMA WriteEndsSleep ==
    ASSUME PipeState, PipeState', Sleep, NEW p \in Pids, writePipeEnds(p)
    PROVE  Sleep'
<1> DEFINE b == Byte(p, call[p].i)
           s == unblockIf(k, pipe.readPID)
<1>1. /\ k.cpu = p /\ frame[p] = User /\ call[p].at \in {"write", "full"}
      /\ SemState /\ SemState' /\ IInv(k) /\ IInv(k') /\ pipe \in PipeRecord /\ pipe' \in PipeRecord
      /\ CallsKnown /\ ReaderNoted /\ WriterNoted /\ QueueSleepers /\ ~Foreground(k)
      /\ ReaderFed /\ call \in [Pids -> PipeCall] /\ NoneWoken
    BY InsideSleep DEF writePipeEnds
<1>2. /\ pipe' = [PutByte(pipe, b) EXCEPT !.writePID = 0] /\ ~Full(pipe)
      /\ k' = PostedKernel(s, writequeue) /\ sems' = Posted(writequeue)
      /\ call' = [call EXCEPT ![p] = NoCall] /\ frame' = frame /\ trouble' = trouble
    BY DEF writePipeEnds
<1>3. pipe'.readPID = pipe.readPID /\ pipe'.writePID = 0
    <2>1. pipe.writeOpen /\ b \in Data
        BY WriterFacts DEF writePipeEnds
    <2> HIDE DEF b, s
    <2> QED BY <1>2, <2>1, SendChannel
<1>4. /\ Calm(k, s) /\ s.cpu = k.cpu
      /\ \A q \in Pids : frame[q] \in SemIds => q \notin ToSet(s.ready)
      /\ \A q \in Pids : call[q].at = "empty" => q \in ToSet(s.ready)
    BY <1>1, ReaderAwake
<1> HIDE DEF s, b
<1>5. /\ Calm(s, k') /\ ToSet(s.ready) \subseteq ToSet(k'.ready)
      /\ \A q \in ToSet(k'.ready) : q \in ToSet(s.ready) \/ Wakes(s, writequeue, q)
      /\ \A h \in Pids : Wakes(s, writequeue, h) => k'.cpu = h
    <2>1. IInv(s) /\ s.cpu = p
        BY <1>1, <1>4 DEF Calm
    <2> QED BY <1>1, <1>2, <2>1, PostCalm
<1>6. Calm(k, k')
    BY <1>4, <1>5, CalmChain
<1>7. call'[p].at = "user" /\ \A q \in Pids : q # p => call'[q] = call[q]
    BY <1>1, <1>2 DEF NoCall
<1>8. /\ QueueSleepers'
      /\ \A q \in Pids : frame[q] \in SemIds /\ q \in ToSet(k'.ready) =>
            Exists(writequeue) /\ frame[q] = writequeue
    BY <1>1, <1>2, <1>4, <1>5, <1>6, QueuesPosted
<1>9. CallsKnown'
    BY <1>1, <1>6, <1>7, CallsStep
<1>10. ReaderNoted' /\ WriterNoted'
    <2>1. call[p].at # "empty"
        BY <1>1
    <2>2. ReaderNoted'
        BY <1>1, <1>3, <1>6, <1>7, <2>1, ReaderNotedStep
    <2>3. WriterNoted'
        BY <1>1, <1>3, <1>6, <1>7, WriterNotedStep
    <2> QED BY <2>2, <2>3
<1>11. p \in WritersInside /\ p \notin ReadersInside
    BY <1>1 DEF ReadersInside, WritersInside
<1>12. ReadersInside' = ReadersInside /\ WritersInside' = WritersInside \ {p}
    BY <1>7, <1>11, InsideNext
<1>13. ReaderFed'
    <2> SUFFICES ASSUME NEW q \in Pids, call'[q].at = "empty"
                 PROVE  pipe'.readPID = q /\ q \notin ToSet(k'.blocked)
        BY DEF ReaderFed
    <2>1. call[q].at = "empty"
        BY <1>7
    <2>2. pipe.readPID = q /\ q \in ToSet(k'.ready)
        BY <1>1, <1>4, <1>5, <2>1 DEF ReaderFed
    <2> QED BY <1>1, <1>3, <2>2, LiveLists
<1>14. ASSUME NEW id \in SemIds
       PROVE  \A q \in Pids : frame[q] = id /\ k'.cpu = q => Exists(writequeue) /\ writequeue = id
    BY <1>1, <1>8, LiveLists
<1>15. OneUser(ReadersInside, readqueue)'
    <2> DEFINE U == ReadersInside
    <2>1. OneUser(U, readqueue) /\ readqueue \in SemIds /\ writequeue # readqueue
        BY PipeConstants DEF Sleep
    <2> HIDE DEF U
    <2>2. Mutex(U, sems'[readqueue].value, frame', k'.cpu, readqueue)
        BY <1>1, <1>2, <1>14, <2>1, MutexPosted
    <2> QED BY <1>12, <2>2 DEF OneUser, U
<1>16. ASSUME OneUser(WritersInside, writequeue)
       PROVE  OneUser(WritersInside, writequeue)' /\ WriterKnown'
    <2> DEFINE U == WritersInside
               T == U \ {p}
    <2>1. OneUser(U, writequeue) /\ T \subseteq U /\ T # U /\ T = {} /\ writequeue \in SemIds
        BY <1>11, <1>16, PipeConstants DEF OneUser, Mutex
    <2> HIDE DEF U, T
    <2>2. Mutex(T, sems'[writequeue].value, frame', k'.cpu, writequeue)
        BY <1>1, <1>2, <1>14, <2>1, MutexPosted
    <2>3. OneUser(WritersInside, writequeue)'
        BY <1>12, <2>2 DEF OneUser, U, T
    <2>4. \A q \in Pids : call'[q].at # "full"
        BY <1>12, <2>1 DEF WritersInside, U, T
    <2> QED BY <2>3, <2>4 DEF WriterKnown
<1>17. ~Foreground(k')
    BY <1>1, <1>6, KeepsForeground DEF Calm
<1> QED BY <1>2, <1>8, <1>9, <1>10, <1>13, <1>15, <1>16, <1>17 DEF Sleep

(* The ends that are lost: a byte more, which is the end of the data, and  *)
(* none unless the end for writing is lost.                                *)
LEMMA LostBytes ==
    ASSUME PipeState, CloseLost, Lost("WRITE") => pipe.writeOpen
    PROVE  /\ OnlyEnd => OnlyEnd'
           /\ ~Lost("WRITE") => (Full(pipe') <=> Full(pipe))
<1> DEFINE r == IF Lost("READ") THEN closePipe(pipe, "READ") ELSE pipe
           l == Level(pipe)
<1>1. pipe \in PipeRecord /\ l \in Int /\ l >= 0
    BY LevelFacts, PipeConstants DEF PipeState
<1>2. /\ r \in PipeRecord /\ r.buf = pipe.buf /\ r.readIdx = pipe.readIdx
      /\ r.writeIdx = pipe.writeIdx
    BY <1>1, CloseRead
<1>3. pipe' = IF Lost("WRITE") THEN closePipe(r, "WRITE") ELSE r
    BY DEF CloseLost
<1> HIDE DEF r
<1>4. Level(r) = l /\ \A j : At(r, j) = At(pipe, j)
    BY <1>2, SameBytes
<1>5. CASE ~Lost("WRITE")
    <2>1. pipe' = r
        BY <1>3, <1>5
    <2>2. OnlyEnd => OnlyEnd'
        BY <1>4, <2>1 DEF OnlyEnd
    <2>3. Full(pipe') <=> Full(pipe)
        BY <1>2, <2>1 DEF Full
    <2> QED BY <2>2, <2>3
<1>6. CASE Lost("WRITE")
    <2>1. pipe' = closePipe(r, "WRITE") /\ l <= PIPE_BUFFER
        BY <1>3, <1>6 DEF PipeState, RingState
    <2>2. /\ Level(pipe') = l + 1
          /\ \A j \in 0..(l - 1) :
                At(pipe', j) = IF l = PIPE_BUFFER /\ j = 0 THEN EOF ELSE At(pipe, j)
          /\ At(pipe', l) = EOF
        BY <1>2, <1>4, <2>1, CloseWrite
    <2>3. ASSUME OnlyEnd, NEW j \in 1..(l + 1) PROVE At(pipe', j - 1) = EOF
        <3>1. CASE j = l + 1
            BY <1>1, <2>2, <3>1
        <3>2. CASE j # l + 1
            <4>1. j \in 1..l /\ j - 1 \in 0..(l - 1)
                BY <1>1, <3>2
            <4>2. At(pipe, j - 1) = EOF
                BY <2>3, <4>1 DEF OnlyEnd
            <4> QED BY <2>2, <4>1, <4>2
        <3> QED BY <3>1, <3>2
    <2>4. OnlyEnd => OnlyEnd'
        BY <2>2, <2>3 DEF OnlyEnd
    <2> QED BY <1>6, <2>4
<1> QED BY <1>5, <1>6

(* closeFd, and the frames that go with a process that ends: who sleeps    *)
(* inside does so still.                                                   *)
LEMMA LostSleep ==
    ASSUME PipeState, PipeState', Sleep, CloseLost, trouble' = trouble,
           k.cpu \in Pids => call[k.cpu].at = "user", Older(k, k'), NoneWoken', ~Foreground(k'),
           \A type \in {"READ", "WRITE"} : holders[type] = {} => holders'[type] = {},
           \A q \in Pids : /\ Alive(k', q) => call'[q] = call[q] /\ frame'[q] = frame[q]
                           /\ call'[q].at # "user" => Alive(k', q),
           \A q \in ToSet(k.ready) : q # k.cpu /\ Alive(k', q) => q \in ToSet(k'.ready)
    PROVE  Sleep'
<1>1. /\ SemState /\ SemState' /\ IInv(k) /\ IInv(k') /\ pipe \in PipeRecord /\ pipe' \in PipeRecord
      /\ CallsKnown /\ ReaderNoted /\ WriterNoted /\ QueueSleepers /\ ReaderFed
      /\ pipe.readPID \in Pids \cup {0} /\ pipe.writePID \in Pids \cup {0}
    BY PipeFields DEF PipeState, SemState, Sleep
<1>2. Lost("WRITE") => pipe.writeOpen
    BY DEF PipeState, EndsState, Lost
<1>3. /\ pipe'.readPID = pipe.readPID /\ pipe'.writePID = pipe.writePID
      /\ sems' = IF (Lost("READ") \/ Lost("WRITE")) /\ ~pipe'.readOpen /\ ~pipe'.writeOpen
                 THEN [sems EXCEPT ![writequeue] = NoSemaphore, ![readqueue] = NoSemaphore]
                 ELSE sems
    BY <1>2, LostChannel
<1>4. ASSUME NEW id \in SemIds
      PROVE  /\ sems'[id].value \in {sems[id].value, 0}
             /\ sems'[id].blockedQueue \in {sems[id].blockedQueue, <<>>}
    <2> DEFINE n == NoSemaphore
    <2>1. n.value = 0 /\ n.blockedQueue = <<>>
        BY DEF NoSemaphore
    <2>2. sems' = sems \/ sems' = [sems EXCEPT ![writequeue] = n, ![readqueue] = n]
        BY <1>3
    <2> HIDE DEF n
    <2>3. id \in {writequeue, readqueue} /\ SemIds = {writequeue, readqueue} /\ DOMAIN sems = SemIds
        BY <1>1, PipeConstants DEF SemState
    <2>4. sems'[id] = sems[id] \/ sems'[id] = n
        BY <2>2, <2>3
    <2> QED BY <2>1, <2>4
<1>5. ASSUME NEW q \in Pids, call'[q].at # "user"
      PROVE  /\ Alive(k', q) /\ call'[q] = call[q] /\ Alive(k, q)
             /\ q # k.cpu /\ (q \in ToSet(k.ready) => q \in ToSet(k'.ready))
    BY <1>1, <1>5 DEF CallsKnown
<1>6. QueueSleepers'
    <2>1. \A id \in SemIds : \A q \in ToSet(sems[id].blockedQueue) :
            Alive(k', q) => frame'[q] = frame[q]
        <3> TAKE id \in SemIds
        <3>1. sems[id].blockedQueue \in Seq(Pids)
            BY <1>1, SemFields DEF SemState
        <3>2. \A q \in ToSet(sems[id].blockedQueue) : q \in Pids
            BY <3>1, ListFacts
        <3> QED BY <3>2
    <2> QED BY <1>1, <1>4, <2>1, QueuesKept
<1>7. CallsKnown'
    <2> SUFFICES ASSUME NEW q \in Pids, call'[q].at # "user"
                 PROVE  Alive(k', q) /\ call'[q].at \notin {"read", "write"}
        BY DEF CallsKnown
    <2>1. Alive(k', q) /\ call'[q] = call[q] /\ q # k.cpu
        BY <1>5
    <2> QED BY <1>1, <2>1 DEF CallsKnown
<1>8. ASSUME NEW r \in Pids, r < k.pid
      PROVE  r < k'.pid /\ (Alive(k', r) => Alive(k, r) /\ call'[r] = call[r])
    <2>1. r \in Int /\ k.pid \in Int /\ k'.pid \in Int /\ k.pid <= k'.pid
        BY <1>1, LiveLists DEF Older
    <2> QED BY <1>8, <2>1 DEF Older
<1>9. ReaderNoted' /\ WriterNoted'
    <2>1. ReaderNoted'
        BY <1>1, <1>3, <1>8 DEF ReaderNoted
    <2>2. WriterNoted'
        BY <1>1, <1>3, <1>8 DEF WriterNoted
    <2> QED BY <2>1, <2>2
<1>10. ReadersInside' \subseteq ReadersInside /\ WritersInside' \subseteq WritersInside
    BY <1>5 DEF ReadersInside, WritersInside
<1>11. (OnlyEnd => OnlyEnd') /\ (~Lost("WRITE") => (Full(pipe') <=> Full(pipe)))
    BY <1>2, LostBytes
<1>12. ReaderFed'
    <2>1. ~Putting
        BY DEF Putting
    <2>2. \A q \in Pids : call'[q].at = "empty" =>
                call[q].at = "empty" /\ (q \in ToSet(k.ready) => q \in ToSet(k'.ready))
        BY <1>5
    <2> QED BY <1>1, <1>3, <1>11, <2>1, <2>2, FedKept
<1>13. ASSUME WriterKnown PROVE WriterKnown'
    <2>1. ASSUME NEW q \in Pids, call'[q].at = "full"
          PROVE  /\ call[q].at = "full" /\ (q \in ToSet(k.ready) => q \in ToSet(k'.ready))
                 /\ Full(pipe) => Full(pipe')
        <3>1. CallState(q)'
            BY DEF PipeState
        <3>2. holders'["WRITE"] # {}
            BY <2>1, <3>1 DEF CallState
        <3>3. ~Lost("WRITE")
            BY <3>2 DEF Lost
        <3> QED BY <1>5, <1>11, <2>1, <3>3
    <2> QED BY <1>1, <1>3, <1>13, <2>1, KnownKept
<1>14. \A id \in SemIds : \A U : OneUser(U, id) =>
            \A T : T \subseteq U => Mutex(T, sems'[id].value, frame', k'.cpu, id)
    BY <1>1, <1>4, MutexKept
<1>15. /\ OneUser(ReadersInside, readqueue) => OneUser(ReadersInside, readqueue)'
       /\ OneUser(WritersInside, writequeue) => OneUser(WritersInside, writequeue)'
    BY <1>10, <1>14, PipeConstants DEF OneUser
<1> QED BY <1>6, <1>7, <1>9, <1>12, <1>13, <1>15 DEF Sleep

(* A process closes an end.                                                *)
LEMMA CloseSleep ==
    ASSUME PipeState, PipeState', Sleep, NEW p \in Pids, NEW type \in {"READ", "WRITE"},
           sys_close(p, type)
    PROVE  Sleep'
<1>1. /\ k' = k /\ frame' = frame /\ call' = call /\ trouble' = trouble /\ CloseLost
      /\ k.cpu = p /\ frame[p] = User /\ call[p].at = "user"
      /\ holders' = [holders EXCEPT ![type] = @ \ {p}]
      /\ CallsKnown /\ QueueSleepers /\ ~Foreground(k) /\ IInv(k)
    BY DEF sys_close, MayCall, InUser, Running, Sleep, PipeState, SemState
<1>2. holders \in [{"READ", "WRITE"} -> SUBSET (Pids \cup {Leaked})]
    BY DEF PipeState, EndsState
<1>3. \A t \in {"READ", "WRITE"} : holders[t] = {} => holders'[t] = {}
    BY <1>1, <1>2
<1>4. NoneWoken'
    <2>1. NoneWoken
        BY <1>1, RunnerAlone, SemConstants
    <2> QED BY <1>1, <2>1 DEF NoneWoken
<1>5. Older(k, k')
    <2>1. Calm(k, k')
        BY <1>1 DEF Calm, KeepsConsole
    <2> QED BY <1>1, <2>1, CalmOlder
<1>6. \A q \in Pids : /\ Alive(k', q) => call'[q] = call[q] /\ frame'[q] = frame[q]
                      /\ call'[q].at # "user" => Alive(k', q)
    BY <1>1 DEF CallsKnown
<1>7. ~Foreground(k') /\ \A q \in ToSet(k.ready) : q \in ToSet(k'.ready)
    BY <1>1
<1> QED BY <1>1, <1>3, <1>4, <1>5, <1>6, <1>7, LostSleep

(* Any other entry: nobody inside is woken or blocked by it.               *)
LEMMA OtherSleep ==
    ASSUME OwnUsers, PipeState, PipeState', Sleep, OtherEntry
    PROVE  Sleep'
<1> DEFINE W == {}
           V == Victims \cup {k.cpu}
           B == {k.cpu}
           born(t) == IF k'.pid # k.pid /\ k.cpu \in holders[t]
                      THEN {IF k'.pcb[k.pid].state = "FREE" THEN Leaked ELSE k.pid} ELSE {}
<1>1. /\ IInv(k) /\ IInv(k') /\ Next /\ DropFrames /\ CloseLost /\ trouble' = trouble
      /\ frame \in [Pids -> SemIds \cup {User, Dangling}] /\ call \in [Pids -> PipeCall]
      /\ CallsKnown /\ QueueSleepers /\ ~Foreground(k) /\ OutsidePipe
    BY DEF OtherEntry, PipeState, SemState, Sleep
<1>2. k.cpu \in Pids => call[k.cpu].at = "user" /\ frame[k.cpu] = User
    BY <1>1 DEF OutsidePipe, Interruptible
<1>3. Moved(k, k', W, V) /\ KeepsConsole(k, k') /\ Stays(k, k', B)
    <2>1. /\ Readers \subseteq W /\ Third \subseteq W /\ Victims \subseteq V /\ k.cpu \in V
          /\ k.cpu \in B /\ Third \subseteq B /\ ShellConsole /\ 1 \notin Faulty
        BY DEF OwnUsers, ShellConsole
    <2> HIDE DEF W, V, B
    <2>2. Moved(k, k', W, V) /\ KeepsConsole(k, k')
        BY <1>1, <2>1, NextMoved
    <2>3. Stays(k, k', B)
        BY <1>1, <2>1, NextStays
    <2> QED BY <2>2, <2>3
<1> HIDE DEF V
<1>4. ~Foreground(k') /\ Older(k, k')
    BY <1>1, <1>3, KeepsForeground DEF Moved, Older
<1>5. \A q \in Pids : /\ Alive(k', q) => frame'[q] = frame[q]
                      /\ ~Alive(k', q) => frame'[q] = User
    BY <1>1, DropFacts
<1>6. call' = [q \in Pids |-> IF Alive(k', q) THEN call[q] ELSE NoCall] /\ NoCall.at = "user"
    BY DEF OtherEntry, Live, Alive, NoCall
<1>7. \A q \in Pids : /\ Alive(k', q) => call'[q] = call[q] /\ frame'[q] = frame[q]
                      /\ call'[q].at # "user" => Alive(k', q)
    BY <1>5, <1>6
<1>8. NoneWoken'
    <2> SUFFICES ASSUME NEW q \in Pids, frame'[q] \in SemIds, q \in ToSet(k'.ready) PROVE FALSE
        BY DEF NoneWoken
    <2>1. frame[q] \in SemIds
        BY <1>5, SemConstants
    <2>2. call[q].at # "user"
        BY <2>1, PipeConstants DEF PipeState, CallState
    <2>3. Alive(k, q)
        BY <1>1, <2>2 DEF CallsKnown
    <2>4. q \notin ToSet(k.ready)
        BY <1>1, <1>2, <2>1, RunnerAlone, SemConstants DEF NoneWoken
    <2> QED BY <1>3, <2>3, <2>4 DEF Moved
<1>9. \A q \in ToSet(k.ready) : q # k.cpu /\ Alive(k', q) => q \in ToSet(k'.ready)
    BY <1>3 DEF Stays
<1>10. \A t \in {"READ", "WRITE"} : holders[t] = {} => holders'[t] = {}
    <2>1. holders \in [{"READ", "WRITE"} -> SUBSET (Pids \cup {Leaked})]
        BY DEF PipeState, EndsState
    <2>2. holders' = [t \in {"READ", "WRITE"} |->
                        {q \in holders[t] : q # Leaked => Alive(k', q)} \cup born(t)]
        BY <2>1 DEF OtherEntry, Live, Alive
    <2>3. \A t : holders[t] = {} => born(t) = {}
        OBVIOUS
    <2> HIDE DEF born
    <2> QED BY <2>2, <2>3
<1> QED BY <1>1, <1>2, <1>4, <1>7, <1>8, <1>9, <1>10, LostSleep

(* Every step keeps the invariant of the sleepers.                         *)
LEMMA SleepNext ==
    ASSUME OwnUsers
    PROVE  PipeState /\ PipeState' /\ SleepInv /\ [PipeNext]_pipeVars => SleepInv'
<1> SUFFICES ASSUME PipeState, PipeState', SleepInv, [PipeNext]_pipeVars, "garbage" \notin trouble'
             PROVE  Sleep'
    BY DEF SleepInv
<1>1. CASE OtherEntry
    <2>1. Sleep
        BY <1>1 DEF OtherEntry, SleepInv
    <2> QED BY <1>1, <2>1, OtherSleep
<1>2. CASE \E p \in Pids, n \in ReadCounts : readFd(p, n)
    <2>1. Sleep
        BY <1>2 DEF readFd, Enter, SleepInv
    <2> QED BY <1>2, <2>1, ReadFdSleep
<1>3. CASE \E p \in Writers, n \in WriteCounts : writeFd(p, n)
    <2>1. Sleep
        BY <1>3 DEF writeFd, Enter, SleepInv
    <2> QED BY <1>3, <2>1, WriteFdSleep, PipeConstants
<1>4. ASSUME NEW p \in Pids,
             \/ QueueWake(p) \/ readPipeWaits(p) \/ readPipe(p)
             \/ writePipeWaits(p) \/ writePipeBroken(p)
             \/ writePipePut(p) \/ writePipeEnds(p)
      PROVE  Sleep'
    <2>1. trouble' = trouble \/ trouble' = trouble \cup {"surplus"}
        BY <1>4 DEF QueueWake, readPipeWaits, readPipe, writePipeWaits, writePipeBroken,
                    writePipePut, writePipeEnds
    <2>2. Sleep
        BY <2>1 DEF SleepInv
    <2> QED BY <1>4, <2>2, QueueWakeSleep, ReadWaitsSleep, ReadSleep, WriteWaitsSleep,
               WriteBrokenSleep, WritePutSleep, WriteEndsSleep
<1>5. CASE \E p \in Pids, type \in {"READ", "WRITE"} : sys_close(p, type)
    <2>1. Sleep
        BY <1>5 DEF sys_close, SleepInv
    <2> QED BY <1>5, <2>1, CloseSleep
<1>6. CASE UNCHANGED pipeVars
    <2>1. Sleep /\ k' = k /\ sems' = sems /\ frame' = frame /\ pipe' = pipe /\ call' = call
          /\ trouble' = trouble
        BY <1>6 DEF SleepInv, pipeVars
    <2>2. CallsKnown' /\ ReaderNoted' /\ WriterNoted' /\ QueueSleepers' /\ ~Foreground(k')
        BY <2>1 DEF Sleep, CallsKnown, ReaderNoted, WriterNoted, QueueSleepers, Asleeps
    <2>3. ReadersInside' = ReadersInside /\ WritersInside' = WritersInside
          /\ OnlyEnd' = OnlyEnd /\ Putting' = Putting
        BY <2>1 DEF ReadersInside, WritersInside, OnlyEnd, Putting
    <2>4. ReaderFed'
        BY <2>1, <2>3 DEF Sleep, ReaderFed
    <2>5. WriterKnown' = WriterKnown
        BY <2>1 DEF WriterKnown
    <2> QED BY <2>1, <2>2, <2>3, <2>4, <2>5 DEF Sleep, OneUser
<1> QED BY <1>1, <1>2, <1>3, <1>4, <1>5, <1>6 DEF PipeNext

(* Nobody is inside at first, and no pid is noted.                         *)
LEMMA SleepInit ==
    PipeInit => SleepInv
<1> SUFFICES ASSUME PipeInit, "garbage" \notin trouble PROVE Sleep
    BY DEF SleepInv
<1> DEFINE s == [NoSemaphore EXCEPT !.exists = TRUE, !.value = 1, !.activeQueue = <<1>>]
<1>1. /\ k = main(Loaded, "ok", "ok") /\ sems = [id \in SemIds |-> s]
      /\ frame = [p \in Pids |-> User] /\ call = [p \in Pids |-> NoCall]
    BY DEF PipeInit, Init
<1>2. s.value = 1 /\ s.blockedQueue = <<>>
    BY DEF NoSemaphore
<1> HIDE DEF s
<1>3. pipe.readPID = 0 /\ pipe.writePID = 0
    BY DEF PipeInit
<1>4. ~Foreground(k)
    BY <1>1, BootConsole
<1>5. \A p \in Pids : call[p].at = "user" /\ frame[p] = User
    BY <1>1 DEF NoCall
<1>6. \A id \in SemIds : sems[id].value = 1 /\ sems[id].blockedQueue = <<>>
    BY <1>1, <1>2
<1>7. CallsKnown /\ ReaderNoted /\ WriterNoted /\ ReaderFed /\ WriterKnown
    BY <1>3, <1>5 DEF CallsKnown, ReaderNoted, WriterNoted, ReaderFed, WriterKnown
<1>8. QueueSleepers
    BY <1>5, <1>6, EmptyQueue, SemConstants DEF QueueSleepers, Asleeps
<1>9. \A id \in SemIds : OneUser({}, id)
    BY <1>6 DEF OneUser, Mutex
<1>10. ReadersInside = {} /\ WritersInside = {}
    BY <1>5 DEF ReadersInside, WritersInside
<1> QED BY <1>4, <1>7, <1>8, <1>9, <1>10, PipeConstants DEF Sleep

(* A reader that sleeps inside can be woken and misses no byte: whenever   *)
(* interrupts are enabled it is the one reader inside, its pid is the one  *)
(* writers wake, and there is nothing to read but the end of the data.     *)
(* Its users may fork, be killed or close their ends at any time; they are *)
(* blocked and woken by the pipe only, and the pids were 0 at first.       *)
THEOREM SleepingReaderCorrect ==
    ASSUME OwnUsers
    PROVE  PipeSpec => []SleepingReaderFed
<1>1. PipeInit => PipeState /\ SleepInv
    BY PipeStateInit, SleepInit
<1>2. PipeState /\ SleepInv /\ [PipeNext]_pipeVars => PipeState' /\ SleepInv'
    BY PipeStateNext, SleepNext
<1>3. PipeState /\ SleepInv => SleepingReaderFed
    <2> SUFFICES ASSUME PipeState, Sleep, OutsidePipe, NEW p \in Pids,
                        call[p].at = "empty", Contains(k.blocked, p)
                 PROVE  /\ pipe.readPID = p /\ ReadersInside = {p}
                        /\ \A j \in 1..Level(pipe) : At(pipe, j - 1) = EOF
        BY DEF SleepingReaderFed, SleepInv
    <2>1. p \in ToSet(k.blocked)
        <3>1. k.blocked \in Seq(Pids)
            BY DEF PipeState, SemState, IInv, Core, KernelState
        <3> QED BY <3>1, ListFacts
    <2>2. ~Putting
        BY DEF OutsidePipe, Putting
    <2>3. pipe.readPID = p /\ OnlyEnd
        BY <2>1, <2>2 DEF Sleep, ReaderFed
    <2>4. p \in ReadersInside
        BY DEF ReadersInside
    <2>5. ReadersInside = {p}
        BY <2>4 DEF Sleep, OneUser, Mutex
    <2> QED BY <2>3, <2>5 DEF OnlyEnd
<1> QED BY <1>1, <1>2, <1>3, PTL DEF PipeSpec

(* Until a reader posts the queue of the writers one writer at a time is   *)
(* inside, and if it sleeps the reader knows its pid and the buffer is     *)
(* full: the loop of writePipe is left by nobody else, and no second pid   *)
(* overwrites the first.                                                   *)
THEOREM SleepingWriterCorrect ==
    ASSUME OwnUsers
    PROVE  PipeSpec => []SleepingWriterKnown
<1>1. PipeInit => PipeState /\ SleepInv
    BY PipeStateInit, SleepInit
<1>2. PipeState /\ SleepInv /\ [PipeNext]_pipeVars => PipeState' /\ SleepInv'
    BY PipeStateNext, SleepNext
<1>3. PipeState /\ SleepInv => SleepingWriterKnown
    <2> SUFFICES ASSUME PipeState, SleepInv, trouble = {} PROVE SleepingWriterKnown
        BY DEF SleepingWriterKnown
    <2>1. OneUser(WritersInside, writequeue) /\ WriterKnown
        BY DEF SleepInv, Sleep
    <2>2. \A p \in Pids : Contains(k.blocked, p) <=> p \in ToSet(k.blocked)
        <3>1. k.blocked \in Seq(Pids)
            BY DEF PipeState, SemState, IInv, Core, KernelState
        <3> QED BY <3>1, ListFacts
    <2>3. \A p, q \in WritersInside : p = q
        BY <2>1 DEF OneUser, Mutex
    <2>4. \A p \in Pids : call[p].at = "full" /\ Contains(k.blocked, p)
                => pipe.writePID = p /\ Full(pipe)
        BY <2>1, <2>2 DEF WriterKnown
    <2> QED BY <2>3, <2>4 DEF SleepingWriterKnown
<1> QED BY <1>1, <1>2, <1>3, PTL DEF PipeSpec
=============================================================================
