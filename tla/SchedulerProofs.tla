-------------------------- MODULE SchedulerProofs --------------------------
(***************************************************************************)
(* Proofs about Scheduler for every number of processes.                   *)
(*                                                                         *)
(* The first part is about the operations on the ready and the blocked     *)
(* list: the set of processes in a list, its being free of duplicates, and *)
(* its head.                                                               *)
(*                                                                         *)
(* Each function of the kernel is an operator from one kernel state to the *)
(* next, and there is one lemma for each.  They compose as the functions   *)
(* call each other.  Between two calls inside one kernel entry the current *)
(* process may be marked BLOCKED or TERMINATED and still be in the ready   *)
(* list, so the lemmas are about Core, which does not mention states, and  *)
(* about AgreeBut, which exempts one process.                              *)
(*                                                                         *)
(* The last part says what one entry into the kernel does to the lists and *)
(* to each PCB, and what follows for the quantum of a process and for the  *)
(* console.                                                                *)
(***************************************************************************)
EXTENDS Scheduler, SequenceTheorems, TLAPS

(* Elementary facts about a sequence and the set of its elements.          *)
LEMMA ListFacts ==
    ASSUME NEW S, NEW s \in Seq(S)
    PROVE  /\ DOMAIN s = 1..Len(s) /\ Len(s) \in Nat
           /\ s # <<>> <=> Len(s) > 0
           /\ s # <<>> <=> ToSet(s) # {}
           /\ ToSet(s) \subseteq S
           /\ \A p : Contains(s, p) <=> p \in ToSet(s)
           /\ s # <<>> => Head(s) = s[1] /\ Head(s) \in ToSet(s)
<1>1. DOMAIN s = 1..Len(s) /\ Len(s) \in Nat /\ (s # <<>> <=> Len(s) > 0)
    OBVIOUS
<1>2. \A i \in 1..Len(s) : s[i] \in S
    OBVIOUS
<1>3. s # <<>> => Head(s) = s[1] /\ Head(s) \in ToSet(s)
    BY <1>1 DEF ToSet
<1>4. \A p : Contains(s, p) <=> p \in ToSet(s)
    BY <1>1 DEF ToSet, Contains
<1>5. ToSet(s) \subseteq S
    BY <1>1, <1>2 DEF ToSet
<1>6. s # <<>> <=> ToSet(s) # {}
    BY <1>1, <1>3 DEF ToSet
<1> QED BY <1>1, <1>3, <1>4, <1>5, <1>6

(* Moving to the next process keeps the elements of the ready list.        *)
LEMMA RotateFacts ==
    ASSUME NEW S, NEW s \in Seq(S), s # <<>>, IsInjective(s)
    PROVE  /\ Rotate(s) \in Seq(S) /\ Rotate(s) # <<>>
           /\ IsInjective(Rotate(s))
           /\ ToSet(Rotate(s)) = ToSet(s)
<1> DEFINE r == Rotate(s)
<1>1. r \in Seq(S) /\ Len(r) = Len(s) /\ Len(s) \in Nat /\ Len(s) > 0
    BY DEF Rotate
<1>2. \A i \in 1..Len(s) : r[i] = IF i = Len(s) THEN s[1] ELSE s[i + 1]
    BY DEF Rotate
<1>3. DOMAIN s = 1..Len(s) /\ DOMAIN r = 1..Len(s)
    BY <1>1
<1> HIDE DEF r
<1>4. IsInjective(r)
    <2> DEFINE at(i) == IF i = Len(s) THEN 1 ELSE i + 1
    <2>1. ASSUME NEW i \in 1..Len(s) PROVE at(i) \in DOMAIN s
        <3>1. CASE i = Len(s)
            BY <3>1, <1>1, <1>3
        <3>2. CASE i # Len(s)
            <4>1. i + 1 \in 1..Len(s)
                BY <3>2, <1>1
            <4> QED BY <3>2, <4>1, <1>3
        <3> QED BY <3>1, <3>2
    <2>a. \A i \in 1..Len(s) : r[i] = s[at(i)]
        BY <1>2
    <2>2. \A i, j \in 1..Len(s) : at(i) = at(j) => i = j
        BY <1>1
    <2> HIDE DEF at
    <2> QED BY <2>1, <2>a, <2>2, <1>3 DEF IsInjective
<1>5. ToSet(r) = ToSet(s)
    <2>1. ASSUME NEW i \in 1..Len(s) PROVE \E j \in 1..Len(s) : r[j] = s[i]
        <3>1. CASE i = 1
            BY <3>1, <1>1, <1>2
        <3>2. CASE i # 1
            <4>1. i - 1 \in 1..Len(s) /\ i - 1 # Len(s) /\ (i - 1) + 1 = i
                BY <3>2, <1>1
            <4> QED BY <4>1, <1>2
        <3> QED BY <3>1, <3>2
    <2>2. ASSUME NEW i \in 1..Len(s) PROVE \E j \in 1..Len(s) : s[j] = r[i]
        BY <1>1, <1>2
    <2>3. \A x \in ToSet(s) : x \in ToSet(r)
        BY <2>1, <1>3, Zenon DEF ToSet
    <2>4. \A x \in ToSet(r) : x \in ToSet(s)
        BY <2>2, <1>3, Zenon DEF ToSet
    <2> QED BY <2>3, <2>4, Zenon
<1> QED BY <1>1, <1>4, <1>5 DEF r

(* schedulerAddProcess adds one process to the ready list, once.           *)
LEMMA AddLastFacts ==
    ASSUME NEW S, NEW s \in Seq(S), IsInjective(s), NEW p \in S, p \notin ToSet(s)
    PROVE  /\ AddLast(s, p) \in Seq(S) /\ AddLast(s, p) # <<>>
           /\ IsInjective(AddLast(s, p))
           /\ ToSet(AddLast(s, p)) = ToSet(s) \cup {p}
           /\ s # <<>> => Head(AddLast(s, p)) = Head(s)
<1> DEFINE r == AddLast(s, p)
<1>1. r \in Seq(S) /\ Len(r) = Len(s) + 1 /\ Len(s) \in Nat
    BY DEF AddLast
<1>2. /\ \A i \in 1..Len(s) : r[i] = s[i]
      /\ r[Len(s) + 1] = p
    BY DEF AddLast
<1>3. DOMAIN s = 1..Len(s) /\ DOMAIN r = 1..(Len(s) + 1)
    BY <1>1
<1>4. s # <<>> => Head(r) = Head(s)
    BY DEF AddLast
<1> HIDE DEF r
<1>5. \A i \in 1..(Len(s) + 1) : i \in 1..Len(s) \/ i = Len(s) + 1
    BY <1>1
<1>6. \A i \in 1..Len(s) : s[i] # p /\ i \in 1..(Len(s) + 1)
    BY <1>1, <1>3 DEF ToSet
<1>7. IsInjective(r)
    BY <1>2, <1>3, <1>5, <1>6 DEF IsInjective
<1>8. ToSet(r) = ToSet(s) \cup {p}
    <2>1. \A x \in ToSet(r) : x \in ToSet(s) \/ x = p
        BY <1>2, <1>3, <1>5 DEF ToSet
    <2>2. \A x \in ToSet(s) : x \in ToSet(r)
        BY <1>2, <1>3, <1>6 DEF ToSet
    <2>3. p \in ToSet(r)
        BY <1>1, <1>2, <1>3 DEF ToSet
    <2> QED BY <2>1, <2>2, <2>3
<1> QED BY <1>1, <1>4, <1>7, <1>8 DEF r

(* r is s with p put behind its first n elements.                          *)
IsInsert(r, s, n, p) ==
    /\ n \in 0..Len(s) /\ Len(r) = Len(s) + 1
    /\ \A i \in 1..Len(r) : r[i] = IF i <= n THEN s[i]
                                   ELSE IF i = n + 1 THEN p ELSE s[i - 1]

(* Inserting a new element anywhere adds it, once.                         *)
LEMMA InsertFacts ==
    ASSUME NEW S, NEW s \in Seq(S), IsInjective(s), NEW p \in S, p \notin ToSet(s),
           NEW n, NEW r \in Seq(S), IsInsert(r, s, n, p)
    PROVE  IsInjective(r) /\ ToSet(r) = ToSet(s) \cup {p}
<1> USE DEF IsInsert
<1>1. Len(s) \in Nat /\ DOMAIN s = 1..Len(s) /\ DOMAIN r = 1..(Len(s) + 1)
    OBVIOUS
<1>2. \A i \in 1..Len(s) : s[i] # p
    BY <1>1 DEF ToSet
<1>3. IsInjective(r)
    <2> DEFINE at(i) == IF i <= n THEN i ELSE i - 1
    <2>1. \A i \in 1..(Len(s) + 1) : i # n + 1 => at(i) \in 1..Len(s)
        BY <1>1
    <2>2. \A i \in 1..(Len(s) + 1) : i # n + 1 => r[i] = s[at(i)]
        BY <1>1
    <2>3. \A i, j \in 1..(Len(s) + 1) : i # n + 1 /\ j # n + 1 /\ at(i) = at(j) => i = j
        BY <1>1
    <2>4. n + 1 \in 1..(Len(s) + 1) /\ r[n + 1] = p
        BY <1>1
    <2> HIDE DEF at
    <2>5. ASSUME NEW i \in 1..(Len(s) + 1), NEW j \in 1..(Len(s) + 1), r[i] = r[j]
          PROVE  i = j
        <3>1. CASE i # n + 1 /\ j # n + 1
            BY <3>1, <2>1, <2>2, <2>3, <2>5, <1>1 DEF IsInjective
        <3>2. CASE i = n + 1 \/ j = n + 1
            BY <3>2, <2>1, <2>2, <2>4, <2>5, <1>2
        <3> QED BY <3>1, <3>2
    <2> QED BY <2>5, <1>1 DEF IsInjective
<1>4. \A x \in ToSet(r) : x \in ToSet(s) \/ x = p
    <2>1. ASSUME NEW i \in 1..(Len(s) + 1) PROVE r[i] \in ToSet(s) \/ r[i] = p
        <3>1. CASE i <= n
            BY <3>1, <1>1 DEF ToSet
        <3>2. CASE i = n + 1
            BY <3>2, <1>1
        <3>3. CASE i > n + 1
            <4>1. i - 1 \in 1..Len(s) /\ ~(i <= n) /\ i # n + 1
                BY <3>3, <1>1
            <4>2. r[i] = s[i - 1]
                BY <4>1, <1>1
            <4> QED BY <4>1, <4>2, <1>1 DEF ToSet
        <3> QED BY <3>1, <3>2, <3>3, <1>1
    <2> QED BY <2>1, <1>1 DEF ToSet
<1>5. \A x \in ToSet(s) : x \in ToSet(r)
    <2>1. ASSUME NEW i \in 1..Len(s) PROVE s[i] \in ToSet(r)
        <3>1. CASE i <= n
            <4>1. i \in 1..(Len(s) + 1) /\ r[i] = s[i]
                BY <3>1, <1>1
            <4> QED BY <4>1, <1>1 DEF ToSet
        <3>2. CASE i > n
            <4>1. i + 1 \in 1..(Len(s) + 1) /\ r[i + 1] = s[i]
                BY <3>2, <1>1
            <4> QED BY <4>1, <1>1 DEF ToSet
        <3> QED BY <3>1, <3>2, <1>1
    <2> QED BY <2>1, <1>1 DEF ToSet
<1>6. p \in ToSet(r)
    <2>1. n + 1 \in 1..(Len(s) + 1) /\ r[n + 1] = p
        BY <1>1
    <2> QED BY <2>1, <1>1 DEF ToSet
<1> QED BY <1>3, <1>4, <1>5, <1>6

(* unblockProcess adds one process to the ready list, once.                *)
LEMMA AddNextFacts ==
    ASSUME NEW S, NEW s \in Seq(S), IsInjective(s), NEW p \in S, p \notin ToSet(s)
    PROVE  /\ AddNext(s, p) \in Seq(S) /\ AddNext(s, p) # <<>>
           /\ IsInjective(AddNext(s, p))
           /\ ToSet(AddNext(s, p)) = ToSet(s) \cup {p}
           /\ s # <<>> => Head(AddNext(s, p)) = Head(s)
<1> DEFINE r == AddNext(s, p)
<1>1. Len(s) \in Nat /\ (s # <<>> <=> Len(s) > 0)
    OBVIOUS
<1>2. r \in Seq(S) /\ Len(r) = Len(s) + 1
    BY <1>1 DEF AddNext, InsertAt
<1>3. CASE s = <<>>
    <2>1. r = <<p>>
        BY <1>3 DEF AddNext
    <2>2. DOMAIN r = {1} /\ r[1] = p /\ DOMAIN s = {}
        BY <2>1, <1>3
    <2> HIDE DEF r
    <2>3. IsInjective(r)
        BY <2>2, Zenon DEF IsInjective
    <2>4. ToSet(r) = {p} /\ ToSet(s) = {}
        BY <2>2, Zenon DEF ToSet
    <2> QED BY <2>3, <2>4, <2>1, <1>2, <1>3 DEF r
<1>4. CASE s # <<>>
    <2>1. \A i \in 1..Len(r) : r[i] = IF i <= 1 THEN s[i] ELSE IF i = 1 + 1 THEN p ELSE s[i - 1]
        BY <1>4, <1>1 DEF AddNext, InsertAt
    <2>2. 1 \in 0..Len(s)
        BY <1>1, <1>4
    <2>3. IsInjective(r) /\ ToSet(r) = ToSet(s) \cup {p}
        <3>1. IsInsert(r, s, 1, p)
            BY <2>1, <2>2, <1>2 DEF IsInsert
        <3> HIDE DEF r
        <3> QED BY <3>1, <1>2, InsertFacts
    <2>4. r[1] = s[1] /\ r # <<>>
        BY <2>1, <1>2, <1>1
    <2>5. Head(r) = Head(s)
        BY <2>4, <1>2, <1>4
    <2> QED BY <2>3, <2>4, <2>5, <1>2
<1> QED BY <1>3, <1>4

(* removeBlocked adds one process to the blocked list, once.               *)
LEMMA PushFacts ==
    ASSUME NEW S, NEW s \in Seq(S), IsInjective(s), NEW p \in S, p \notin ToSet(s)
    PROVE  /\ Push(s, p) \in Seq(S)
           /\ IsInjective(Push(s, p))
           /\ ToSet(Push(s, p)) = ToSet(s) \cup {p}
<1> DEFINE r == Push(s, p)
<1>1. r \in Seq(S) /\ Len(r) = Len(s) + 1 /\ 0 \in 0..Len(s)
    BY DEF Push, Cons
<1>2. \A i \in 1..Len(r) : r[i] = IF i <= 0 THEN s[i] ELSE IF i = 0 + 1 THEN p ELSE s[i - 1]
    BY DEF Push, Cons
<1>3. IsInsert(r, s, 0, p)
    BY <1>1, <1>2 DEF IsInsert
<1> HIDE DEF r
<1>4. IsInjective(r) /\ ToSet(r) = ToSet(s) \cup {p}
    BY <1>1, <1>3, InsertFacts
<1> QED BY <1>1, <1>4 DEF r

(* Taking a node out of a list takes out that process and no other.        *)
LEMMA UnlinkFacts ==
    ASSUME NEW S, NEW s \in Seq(S), IsInjective(s), NEW p \in ToSet(s)
    PROVE  /\ Unlink(s, p) \in Seq(S)
           /\ IsInjective(Unlink(s, p))
           /\ ToSet(Unlink(s, p)) = ToSet(s) \ {p}
           /\ Head(s) # p => Unlink(s, p) # <<>> /\ Head(Unlink(s, p)) = Head(s)
<1> DEFINE n == CHOOSE i \in DOMAIN s : s[i] = p
           r == Unlink(s, p)
<1>1. n \in DOMAIN s /\ s[n] = p
    BY DEF ToSet
<1>2. DOMAIN s = 1..Len(s) /\ Len(s) \in Nat
    OBVIOUS
<1> HIDE DEF n
<1> DEFINE a == SubSeq(s, 1, n - 1)
           b == SubSeq(s, n + 1, Len(s))
<1>a. a \in Seq(S) /\ Len(a) = n - 1 /\ \A i \in 1..(n - 1) : a[i] = s[i]
    BY <1>1, <1>2
<1>b. /\ b \in Seq(S) /\ Len(b) = Len(s) - n
      /\ \A i \in 1..(Len(s) - n) : b[i] = s[n + i]
    <2>1. \A i \in (n + 1)..Len(s) : s[i] \in S
        BY <1>1, <1>2
    <2>2. /\ b \in Seq(S)
          /\ Len(b) = IF n + 1 <= Len(s) THEN Len(s) - (n + 1) + 1 ELSE 0
          /\ \A i \in 1..(Len(s) - (n + 1) + 1) : b[i] = s[(n + 1) + i - 1]
        BY <2>1, <1>1, <1>2, SubSeqProperties
    <2> HIDE DEF b
    <2>3. \A i \in 1..(Len(s) - n) : i \in 1..(Len(s) - (n + 1) + 1) /\ (n + 1) + i - 1 = n + i
        BY <1>1, <1>2
    <2> QED BY <2>2, <2>3, <1>1, <1>2
<1>c. RemoveAt(s, n) = a \o b
    BY DEF RemoveAt
<1> HIDE DEF a, b
<1>3. RemoveAt(s, n) \in Seq(S) /\ Len(RemoveAt(s, n)) = Len(s) - 1
    <2>1. a \o b \in Seq(S) /\ Len(a \o b) = Len(a) + Len(b)
        BY <1>a, <1>b
    <2>2. Len(a) + Len(b) = Len(s) - 1
        BY <1>1, <1>2, <1>a, <1>b
    <2> QED BY <2>1, <2>2, <1>c
<1>4. \A i \in 1..(Len(s) - 1) : RemoveAt(s, n)[i] = IF i < n THEN s[i] ELSE s[i + 1]
    <2>1. SUFFICES ASSUME NEW i \in 1..(Len(s) - 1)
                   PROVE  (a \o b)[i] = IF i < n THEN s[i] ELSE s[i + 1]
        BY <1>c
    <2>2. (a \o b)[i] = IF i <= Len(a) THEN a[i] ELSE b[i - Len(a)]
        BY <1>1, <1>2, <1>a, <1>b
    <2>3. CASE i < n
        BY <2>2, <2>3, <1>1, <1>2, <1>a
    <2>4. CASE i >= n
        <3>1. i - (n - 1) \in 1..(Len(s) - n) /\ n + (i - (n - 1)) = i + 1
            BY <2>4, <1>1, <1>2
        <3>2. ~(i <= Len(a))
            BY <2>4, <1>1, <1>2, <1>a
        <3>3. (a \o b)[i] = b[i - (n - 1)]
            BY <2>2, <3>2, <1>a
        <3>4. b[i - (n - 1)] = s[n + (i - (n - 1))]
            BY <3>1, <1>b
        <3> QED BY <2>4, <3>1, <3>3, <3>4, <1>1, <1>2
    <2>5. i < n \/ i >= n
        BY <1>1, <1>2
    <2> QED BY <2>3, <2>4, <2>5
<1>5. r = RemoveAt(s, n)
    BY DEF Unlink, n
<1> HIDE DEF r
<1>6. r \in Seq(S) /\ DOMAIN r = 1..(Len(s) - 1) /\ Len(r) = Len(s) - 1
    BY <1>3, <1>5, <1>2
<1>7. \A i \in 1..(Len(s) - 1) : r[i] = IF i < n THEN s[i] ELSE s[i + 1]
    BY <1>4, <1>5
<1>8. IsInjective(r)
    <2> DEFINE at(i) == IF i < n THEN i ELSE i + 1
    <2>1. \A i \in 1..(Len(s) - 1) : at(i) \in DOMAIN s /\ r[i] = s[at(i)]
        BY <1>1, <1>2, <1>7
    <2>2. \A i, j \in 1..(Len(s) - 1) : at(i) = at(j) => i = j
        BY <1>1, <1>2
    <2> HIDE DEF at
    <2> QED BY <2>1, <2>2, <1>6 DEF IsInjective
<1>9. \A x \in ToSet(r) : x \in ToSet(s) /\ x # p
    <2>1. ASSUME NEW i \in 1..(Len(s) - 1) PROVE r[i] \in ToSet(s) /\ r[i] # p
        <3>1. CASE i < n
            <4>1. i \in DOMAIN s /\ i # n /\ r[i] = s[i]
                BY <3>1, <1>1, <1>2, <1>7
            <4> QED BY <4>1, <1>1 DEF IsInjective, ToSet
        <3>2. CASE i >= n
            <4>1. i + 1 \in DOMAIN s /\ i + 1 # n /\ r[i] = s[i + 1]
                BY <3>2, <1>1, <1>2, <1>7
            <4> QED BY <4>1, <1>1 DEF IsInjective, ToSet
        <3> QED BY <3>1, <3>2, <1>1, <1>2
    <2> QED BY <2>1, <1>6 DEF ToSet
<1>10. \A x \in ToSet(s) : x # p => x \in ToSet(r)
    <2>1. ASSUME NEW i \in 1..Len(s), s[i] # p PROVE s[i] \in ToSet(r)
        <3>1. CASE i < n
            <4>1. i \in 1..(Len(s) - 1) /\ r[i] = s[i]
                BY <3>1, <1>1, <1>2, <1>7
            <4> QED BY <4>1, <1>6 DEF ToSet
        <3>2. CASE i > n
            <4>1. i - 1 \in 1..(Len(s) - 1) /\ r[i - 1] = s[(i - 1) + 1] /\ (i - 1) + 1 = i
                BY <3>2, <1>1, <1>2, <1>7
            <4> QED BY <4>1, <1>6 DEF ToSet
        <3> QED BY <3>1, <3>2, <2>1, <1>1, <1>2
    <2> QED BY <2>1, <1>2 DEF ToSet
<1>11. Head(s) # p => r # <<>> /\ Head(r) = Head(s)
    <2>1. SUFFICES ASSUME Head(s) # p PROVE r # <<>> /\ Head(r) = Head(s)
        OBVIOUS
    <2>2. s # <<>> /\ Head(s) = s[1]
        BY <1>1, <1>2
    <2>3. n > 1 /\ Len(s) > 1
        BY <2>1, <2>2, <1>1, <1>2
    <2>4. r[1] = s[1] /\ Len(r) > 0
        BY <2>3, <1>2, <1>6, <1>7
    <2> QED BY <2>2, <2>4, <1>6
<1> QED BY <1>6, <1>8, <1>9, <1>10, <1>11 DEF r

---------------------------------------------------------------------------
(* The nodes: each live process in exactly one list, once.                 *)
Shape(s) ==
    /\ IsInjective(s.ready) /\ IsInjective(s.blocked)
    /\ ToSet(s.ready) \cap ToSet(s.blocked) = {}
    /\ \A p \in Pids : s.pcb[p].state # "FREE" <=> p \in ToSet(s.ready) \cup ToSet(s.blocked)
    /\ \A p \in Pids : s.pcb[p].state # "FREE" => p < s.pid

(* The saved contexts, and the shell.                                      *)
Own(s) ==
    /\ \A p \in Pids : s.pcb[p].state # "FREE" => s.pcb[p].rsp = p
    /\ s.haltRsp = HaltProc
    /\ 1 \in ToSet(s.ready) \cup ToSet(s.blocked)

Core(s) == s \in KernelState /\ Shape(s) /\ Own(s)

(* The PCBs agree with the lists, with the exception of process c.         *)
AgreeBut(s, c) ==
    /\ \A p \in ToSet(s.ready) : p # c => s.pcb[p].state = "READY"
    /\ \A p \in ToSet(s.blocked) : p # c => s.pcb[p].state = "BLOCKED"

Agree(s) == AgreeBut(s, 0)

(* The process on the CPU.                                                 *)
OnCpu(s) ==
    /\ s.halt <=> s.cpu = HaltProc
    /\ ~s.halt => s.ready # <<>>
    /\ s.cpu \in Pids => s.cpu = Current(s.ready)

(* The inductive invariant.                                                *)
IInv(s) == Core(s) /\ Agree(s) /\ OnCpu(s)

(* Two states with the same lists, contexts and flags.                     *)
SameLists(s, t) ==
    /\ t.ready = s.ready /\ t.blocked = s.blocked
    /\ t.halt = s.halt /\ t.firstTime = s.firstTime /\ t.haltRsp = s.haltRsp
    /\ t.pid = s.pid /\ t.cpu = s.cpu /\ t.up = s.up

(* Two states with the same lists, states and background flags.            *)
SameNodesOf(s, t) ==
    /\ t.ready = s.ready /\ t.blocked = s.blocked
    /\ \A q \in Pids : /\ t.pcb[q].state = s.pcb[q].state
                        /\ t.pcb[q].background = s.pcb[q].background

---------------------------------------------------------------------------
(* What the assumption on the constants says of pids and contexts.         *)
LEMMA Constants1 ==
    /\ 1 \in Pids /\ 0 \notin Pids /\ Pids \subseteq Nat
    /\ MaxPid \in Nat
    /\ Word \in Nat /\ MEDIUM \in 0..(Word - 1) /\ HIGH \in 0..(Word - 1)
    /\ HaltProc \notin Pids /\ Boot \notin Pids /\ NULL \notin Contexts /\ HaltProc # Boot
    /\ HaltProc \in Contexts /\ Boot \in Contexts /\ Pids \subseteq Contexts
    /\ \A n \in Priorities : n \in 0..(Word - 1)
    /\ Third \subseteq Pids /\ Victims \subseteq Pids /\ Consoles \subseteq Pids
    /\ Readers \subseteq Pids /\ Faulty \subseteq Pids
    /\ Free \in PCB
BY SchedulerAssumption
   DEF Pids, HaltProc, Boot, NULL, Contexts, MEDIUM, HIGH, Free, PCB, States, Backgrounds

(* The searches find exactly the processes of a list.                      *)
LEMMA SearchFacts ==
    ASSUME NEW s \in KernelState, NEW p
    PROVE  /\ searchReadyNode(s, p) <=> p \in ToSet(s.ready)
           /\ searchBlockNode(s, p) <=> p \in ToSet(s.blocked)
           /\ ToSet(s.ready) \subseteq Pids /\ ToSet(s.blocked) \subseteq Pids
<1>1. s.ready \in Seq(Pids) /\ s.blocked \in Seq(Pids)
    BY DEF KernelState
<1> QED BY <1>1, ListFacts DEF searchReadyNode, searchBlockNode

(* Replacing the PCB of one process.                                       *)
LEMMA PcbUpdate ==
    ASSUME NEW s \in KernelState, NEW p \in Pids, NEW c \in PCB
    PROVE  LET t == [s EXCEPT !.pcb[p] = c]
           IN  /\ t \in KernelState /\ SameLists(s, t)
               /\ t.pcb[p] = c
               /\ \A q \in Pids : q # p => t.pcb[q] = s.pcb[q]
<1> DEFINE t == [s EXCEPT !.pcb[p] = c]
<1>1. s.pcb \in [Pids -> PCB]
    BY DEF KernelState
<1>2. t.pcb = [s.pcb EXCEPT ![p] = c]
    BY DEF KernelState
<1>3. t.pcb \in [Pids -> PCB] /\ t.pcb[p] = c /\ \A q \in Pids : q # p => t.pcb[q] = s.pcb[q]
    BY <1>1, <1>2
<1>4. SameLists(s, t) /\ t.idt0 = s.idt0
    BY DEF KernelState, SameLists
<1>5. t \in KernelState
    BY <1>3 DEF KernelState
<1> QED BY <1>3, <1>4, <1>5

(* What Core and AgreeBut depend on.                                       *)
LEMMA SameNodes ==
    ASSUME NEW s, Core(s), NEW t \in KernelState, SameLists(s, t),
           \A q \in Pids : t.pcb[q].state = s.pcb[q].state /\ t.pcb[q].rsp = s.pcb[q].rsp
    PROVE  /\ Core(t)
           /\ \A c : AgreeBut(s, c) => AgreeBut(t, c)
<1>1. s \in KernelState /\ ToSet(s.ready) \subseteq Pids /\ ToSet(s.blocked) \subseteq Pids
    BY SearchFacts DEF Core
<1>2. Shape(t)
    BY DEF Core, Shape, SameLists
<1>3. Own(t)
    BY DEF Core, Own, SameLists
<1>4. ASSUME NEW c, AgreeBut(s, c) PROVE AgreeBut(t, c)
    BY <1>1, <1>4 DEF AgreeBut, SameLists
<1> QED BY <1>2, <1>3, <1>4 DEF Core

(* Changing the console flag leaves lists, states and contexts alone.      *)
LEMMA SetBackgroundFacts ==
    ASSUME NEW s, Core(s), NEW p \in Int, NEW b \in Backgrounds
    PROVE  LET t == setBackground(s, p, b)
           IN  /\ Core(t) /\ SameLists(s, t)
               /\ \A q \in Pids : t.pcb[q].state = s.pcb[q].state
               /\ \A c : AgreeBut(s, c) => AgreeBut(t, c)
               /\ \A q \in Pids : q # p => t.pcb[q] = s.pcb[q]
               /\ p \in ToSet(s.ready) \cup ToSet(s.blocked) => t.pcb[p].background = b
<1> DEFINE t == setBackground(s, p, b)
<1>1. s \in KernelState /\ ToSet(s.ready) \subseteq Pids /\ ToSet(s.blocked) \subseteq Pids
    BY SearchFacts DEF Core
<1>2. CASE searchNode(s, p)
    <2>1. p \in Pids
        BY <1>1, <1>2, SearchFacts DEF searchNode
    <2>2. t = [s EXCEPT !.pcb[p].background = b]
        BY <1>2 DEF setBackground
    <2> DEFINE c == [s.pcb[p] EXCEPT !.background = b]
    <2>3. s.pcb[p] \in PCB
        BY <1>1, <2>1 DEF KernelState
    <2>4. c \in PCB /\ c.state = s.pcb[p].state /\ c.rsp = s.pcb[p].rsp /\ c.background = b
        BY <2>3 DEF PCB
    <2>5. t = [s EXCEPT !.pcb[p] = c]
        BY <2>2
    <2> HIDE DEF c, t
    <2>6. /\ t \in KernelState /\ SameLists(s, t) /\ t.pcb[p] = c
          /\ \A q \in Pids : q # p => t.pcb[q] = s.pcb[q]
        BY <1>1, <2>1, <2>4, <2>5, PcbUpdate
    <2>7. \A q \in Pids : t.pcb[q].state = s.pcb[q].state /\ t.pcb[q].rsp = s.pcb[q].rsp
        BY <2>4, <2>6
    <2> QED BY <2>4, <2>6, <2>7, SameNodes DEF t
<1>3. CASE ~searchNode(s, p)
    BY <1>1, <1>3, SearchFacts DEF setBackground, SameLists, searchNode
<1> QED BY <1>2, <1>3

(* Changing a priority leaves lists, states and contexts alone.            *)
LEMMA ChangePriorityFacts ==
    ASSUME NEW s, Core(s), NEW p \in Int, NEW n \in 0..(Word - 1)
    PROVE  LET t == changePriority(s, p, n)
           IN  /\ Core(t) /\ SameLists(s, t)
               /\ \A c : AgreeBut(s, c) => AgreeBut(t, c)
               /\ \A q \in Pids : t.pcb[q].background = s.pcb[q].background
<1> DEFINE t == changePriority(s, p, n)
<1>1. s \in KernelState
    BY DEF Core
<1>2. CASE searchNode(s, p)
    <2>1. p \in Pids
        BY <1>1, <1>2, SearchFacts DEF searchNode
    <2>2. s.pcb[p] \in PCB
        BY <1>1, <2>1 DEF KernelState
    <2> DEFINE m == IF s.pcb[p].priorityCounter > n THEN n ELSE s.pcb[p].priorityCounter
               c == [s.pcb[p] EXCEPT !.priority = n, !.priorityCounter = m]
    <2>3. m \in 0..(Word - 1)
        BY <2>2 DEF PCB
    <2>4. t = [s EXCEPT !.pcb[p] = c]
        BY <1>1, <1>2, <2>1, <2>2 DEF changePriority, KernelState, PCB
    <2> HIDE DEF m
    <2>5. c \in PCB /\ c.state = s.pcb[p].state /\ c.rsp = s.pcb[p].rsp
          /\ c.background = s.pcb[p].background
        BY <2>2, <2>3 DEF PCB
    <2> HIDE DEF c, t
    <2>6. /\ t \in KernelState /\ SameLists(s, t)
          /\ \A q \in Pids : t.pcb[q].state = s.pcb[q].state /\ t.pcb[q].rsp = s.pcb[q].rsp
          /\ \A q \in Pids : t.pcb[q].background = s.pcb[q].background
        BY <1>1, <2>1, <2>4, <2>5, PcbUpdate
    <2> QED BY <2>6, SameNodes DEF t
<1>3. CASE ~searchNode(s, p)
    BY <1>3 DEF changePriority, SameLists
<1> QED BY <1>2, <1>3

(* The state with other lists and another PCB of one process.              *)
Relink(s, r, b, p, c) == [s EXCEPT !.ready = r, !.blocked = b, !.pcb[p] = c]

(* Replacing both lists and the PCB of one process.                        *)
LEMMA NodeUpdate ==
    ASSUME NEW s \in KernelState, NEW r \in Seq(Pids), NEW b \in Seq(Pids),
           NEW p \in Pids, NEW c \in PCB, NEW t,
           t = Relink(s, r, b, p, c)
    PROVE  /\ t \in KernelState
           /\ t.ready = r /\ t.blocked = b /\ t.pcb[p] = c
           /\ \A q \in Pids : q # p => t.pcb[q] = s.pcb[q]
           /\ t.halt = s.halt /\ t.firstTime = s.firstTime /\ t.haltRsp = s.haltRsp
           /\ t.pid = s.pid /\ t.cpu = s.cpu /\ t.up = s.up /\ t.idt0 = s.idt0
<1>1. s.pcb \in [Pids -> PCB]
    BY DEF KernelState
<1>2. t.pcb = [s.pcb EXCEPT ![p] = c] /\ t.ready = r /\ t.blocked = b
    BY DEF KernelState, Relink
<1>3. t.pcb \in [Pids -> PCB] /\ t.pcb[p] = c /\ \A q \in Pids : q # p => t.pcb[q] = s.pcb[q]
    BY <1>1, <1>2
<1>4. /\ t.halt = s.halt /\ t.firstTime = s.firstTime /\ t.haltRsp = s.haltRsp
      /\ t.pid = s.pid /\ t.cpu = s.cpu /\ t.up = s.up /\ t.idt0 = s.idt0
    BY DEF KernelState, Relink
<1>5. t \in KernelState
    BY <1>2, <1>3 DEF KernelState, Relink
<1> QED BY <1>2, <1>3, <1>4, <1>5

(* A process that leaves the CPU, or is taken off the ready list by        *)
(* another, moves to the blocked list.                                     *)
LEMMA RemoveBlockedFacts ==
    ASSUME NEW s, Core(s), NEW p \in ToSet(s.ready), s.pcb[p].state = "BLOCKED",
           AgreeBut(s, p)
    PROVE  LET t == removeBlocked(s, p)
           IN  /\ Core(t) /\ Agree(t)
               /\ t.cpu = s.cpu /\ t.halt = s.halt /\ t.up = s.up
               /\ Current(s.ready) # p => t.ready # <<>> /\ Current(t.ready) = Current(s.ready)
<1> DEFINE t == removeBlocked(s, p)
           c == [s.pcb[p] EXCEPT !.priorityCounter = s.pcb[p].priority]
<1>1. /\ s \in KernelState /\ s.ready \in Seq(Pids) /\ s.blocked \in Seq(Pids)
      /\ ToSet(s.ready) \subseteq Pids /\ ToSet(s.blocked) \subseteq Pids /\ p \in Pids
    BY SearchFacts DEF Core, KernelState
<1>2. s.pcb[p] \in PCB
    BY <1>1 DEF KernelState
<1>3. c \in PCB /\ c.state = s.pcb[p].state /\ c.rsp = s.pcb[p].rsp
    BY <1>2 DEF PCB
<1>4. t = Relink(s, Unlink(s.ready, p), Push(s.blocked, p), p, c)
    BY DEF removeBlocked, Relink
<1>5. /\ IsInjective(s.ready) /\ IsInjective(s.blocked) /\ p \notin ToSet(s.blocked)
    BY DEF Core, Shape
<1>6. /\ Unlink(s.ready, p) \in Seq(Pids) /\ IsInjective(Unlink(s.ready, p))
      /\ ToSet(Unlink(s.ready, p)) = ToSet(s.ready) \ {p}
      /\ Head(s.ready) # p => /\ Unlink(s.ready, p) # <<>>
                              /\ Head(Unlink(s.ready, p)) = Head(s.ready)
    BY <1>1, <1>5, UnlinkFacts
<1>7. /\ Push(s.blocked, p) \in Seq(Pids) /\ IsInjective(Push(s.blocked, p))
      /\ ToSet(Push(s.blocked, p)) = ToSet(s.blocked) \cup {p}
    BY <1>1, <1>5, PushFacts
<1> HIDE DEF c, t
<1>8. /\ t \in KernelState
      /\ t.ready = Unlink(s.ready, p) /\ t.blocked = Push(s.blocked, p) /\ t.pcb[p] = c
      /\ \A q \in Pids : q # p => t.pcb[q] = s.pcb[q]
      /\ t.halt = s.halt /\ t.haltRsp = s.haltRsp /\ t.pid = s.pid /\ t.cpu = s.cpu
      /\ t.up = s.up
    <2>1. /\ s \in KernelState /\ p \in Pids /\ c \in PCB
          /\ Unlink(s.ready, p) \in Seq(Pids) /\ Push(s.blocked, p) \in Seq(Pids)
        BY <1>1, <1>3, <1>6, <1>7
    <2> QED BY <2>1, <1>4, NodeUpdate
<1>9. \A q \in Pids : t.pcb[q].state = s.pcb[q].state /\ t.pcb[q].rsp = s.pcb[q].rsp
    BY <1>3, <1>8
<1>10. Shape(t)
    BY <1>1, <1>5, <1>6, <1>7, <1>8, <1>9 DEF Core, Shape
<1>11. Own(t)
    BY <1>6, <1>7, <1>8, <1>9 DEF Core, Own
<1>12. Agree(t)
    BY <1>1, <1>6, <1>7, <1>8, <1>9, ZenonT(60) DEF Agree, AgreeBut
<1>13. Current(s.ready) # p => t.ready # <<>> /\ Current(t.ready) = Current(s.ready)
    BY <1>6, <1>8 DEF Current
<1> QED BY <1>8, <1>10, <1>11, <1>12, <1>13 DEF Core, t

(* Waking a process: c may be the current process, marked to leave.        *)
LEMMA UnblockFacts ==
    ASSUME NEW s, Core(s), NEW p \in Int, NEW c, AgreeBut(s, c), c \notin ToSet(s.blocked)
    PROVE  LET t == unblockProcess(s, p)
           IN  /\ Core(t) /\ AgreeBut(t, c) /\ c \notin ToSet(t.blocked)
               /\ t.cpu = s.cpu /\ t.halt = s.halt /\ t.firstTime = s.firstTime /\ t.up = s.up
               /\ t.pid = s.pid
               /\ s.ready # <<>> => t.ready # <<>> /\ Current(t.ready) = Current(s.ready)
               /\ ToSet(s.ready) \subseteq ToSet(t.ready)
               /\ p \in ToSet(s.blocked) => p \in ToSet(t.ready)
               /\ \A q \in Pids : q # p => t.pcb[q] = s.pcb[q]
               /\ \A q \in Pids : t.pcb[q].background = s.pcb[q].background
               /\ ToSet(t.ready) \cup ToSet(t.blocked) = ToSet(s.ready) \cup ToSet(s.blocked)
               /\ ToSet(t.blocked) \subseteq ToSet(s.blocked)
               /\ ToSet(t.ready) \subseteq ToSet(s.ready) \cup {p}
<1> DEFINE t == unblockProcess(s, p)
<1>1. /\ s \in KernelState /\ s.ready \in Seq(Pids) /\ s.blocked \in Seq(Pids)
      /\ ToSet(s.ready) \subseteq Pids /\ ToSet(s.blocked) \subseteq Pids
    BY SearchFacts DEF Core, KernelState
<1>2. CASE p \in ToSet(s.blocked)
    <2> DEFINE d == [s.pcb[p] EXCEPT !.state = "READY"]
               r == AddNext(s.ready, p)
               b == Unlink(s.blocked, p)
    <2>1. p \in Pids /\ s.pcb[p] \in PCB
        BY <1>1, <1>2 DEF KernelState
    <2>2. d \in PCB /\ d.state = "READY" /\ d.rsp = s.pcb[p].rsp
                     /\ d.background = s.pcb[p].background
        BY <2>1 DEF PCB, States
    <2>3. t = Relink(s, r, b, p, d)
        BY <1>1, <1>2, <2>1, SearchFacts DEF unblockProcess, KernelState, Relink
    <2>4. IsInjective(s.ready) /\ IsInjective(s.blocked) /\ p \notin ToSet(s.ready) /\ p # c
        BY <1>2 DEF Core, Shape
    <2>5. /\ b \in Seq(Pids) /\ IsInjective(b) /\ ToSet(b) = ToSet(s.blocked) \ {p}
        BY <1>1, <1>2, <2>4, UnlinkFacts
    <2>6. /\ r \in Seq(Pids) /\ r # <<>> /\ IsInjective(r) /\ ToSet(r) = ToSet(s.ready) \cup {p}
          /\ s.ready # <<>> => Head(r) = Head(s.ready)
        BY <1>1, <2>1, <2>4, AddNextFacts
    <2> HIDE DEF d, r, b, t
    <2>7. /\ t \in KernelState /\ t.ready = r /\ t.blocked = b /\ t.pcb[p] = d
          /\ \A q \in Pids : q # p => t.pcb[q] = s.pcb[q]
          /\ t.halt = s.halt /\ t.haltRsp = s.haltRsp /\ t.pid = s.pid /\ t.cpu = s.cpu
          /\ t.up = s.up /\ t.firstTime = s.firstTime
        <3>1. s \in KernelState /\ p \in Pids /\ d \in PCB /\ r \in Seq(Pids) /\ b \in Seq(Pids)
            BY <1>1, <2>1, <2>2, <2>5, <2>6
        <3> QED BY <3>1, <2>3, NodeUpdate
    <2>8. \A q \in Pids : /\ t.pcb[q].state # "FREE" <=> s.pcb[q].state # "FREE"
                          /\ t.pcb[q].rsp = s.pcb[q].rsp
                          /\ t.pcb[q].background = s.pcb[q].background
        BY <1>2, <2>1, <2>2, <2>7 DEF Core, Shape
    <2>9. Shape(t)
        BY <1>1, <1>2, <2>4, <2>5, <2>6, <2>7, <2>8 DEF Core, Shape
    <2>10. Own(t)
        BY <2>5, <2>6, <2>7, <2>8 DEF Core, Own
    <2>11. AgreeBut(t, c) /\ c \notin ToSet(t.blocked)
        <3>1. \A q \in ToSet(t.ready) : q # c => t.pcb[q].state = "READY"
            <4>1. ASSUME NEW q \in ToSet(t.ready), q # c, q # p PROVE t.pcb[q].state = "READY"
                <5>1. q \in ToSet(s.ready) /\ q \in Pids
                    BY <1>1, <2>6, <2>7, <4>1
                <5> QED BY <2>7, <4>1, <5>1 DEF AgreeBut
            <4> QED BY <2>2, <2>7, <4>1
        <3>2. \A q \in ToSet(t.blocked) : q # c => t.pcb[q].state = "BLOCKED"
            <4> SUFFICES ASSUME NEW q \in ToSet(t.blocked), q # c
                         PROVE  t.pcb[q].state = "BLOCKED"
                OBVIOUS
            <4>1. q \in ToSet(s.blocked) /\ q \in Pids /\ q # p
                BY <1>1, <2>5, <2>7
            <4> QED BY <2>7, <4>1 DEF AgreeBut
        <3>3. c \notin ToSet(t.blocked)
            BY <2>5, <2>7
        <3> QED BY <3>1, <3>2, <3>3 DEF AgreeBut
    <2>12. s.ready # <<>> => t.ready # <<>> /\ Current(t.ready) = Current(s.ready)
        BY <2>6, <2>7 DEF Current
    <2>13. /\ ToSet(t.ready) \cup ToSet(t.blocked) = ToSet(s.ready) \cup ToSet(s.blocked)
           /\ p \in ToSet(t.ready) /\ ToSet(s.ready) \subseteq ToSet(t.ready)
           /\ ToSet(t.blocked) \subseteq ToSet(s.blocked)
           /\ ToSet(t.ready) \subseteq ToSet(s.ready) \cup {p}
        BY <1>2, <2>5, <2>6, <2>7
    <2> QED BY <2>7, <2>8, <2>9, <2>10, <2>11, <2>12, <2>13 DEF Core, t
<1>3. CASE p \notin ToSet(s.blocked)
    <2>1. t = s
        BY <1>1, <1>3, SearchFacts DEF unblockProcess
    <2> QED BY <2>1, <1>3
<1> QED BY <1>2, <1>3

(* Ending a process other than the shell.                                  *)
LEMMA RemoveTerminatedFacts ==
    ASSUME NEW s, Core(s), NEW p \in ToSet(s.ready) \cup ToSet(s.blocked), p # 1,
           AgreeBut(s, p)
    PROVE  LET t == removeTerminated(s, p)
           IN  /\ Core(t) /\ Agree(t)
               /\ t.cpu = s.cpu /\ t.halt = s.halt /\ t.up = s.up /\ t.pid = s.pid
               /\ t.pcb[p] = Free /\ \A q \in Pids : q # p => t.pcb[q] = s.pcb[q]
               /\ ToSet(t.ready) = ToSet(s.ready) \ {p}
               /\ s.ready # <<>> /\ Current(s.ready) # p
                    => t.ready # <<>> /\ Current(t.ready) = Current(s.ready)
<1> DEFINE t == removeTerminated(s, p)
<1>1. /\ s \in KernelState /\ s.ready \in Seq(Pids) /\ s.blocked \in Seq(Pids)
      /\ ToSet(s.ready) \subseteq Pids /\ ToSet(s.blocked) \subseteq Pids /\ p \in Pids
    BY SearchFacts DEF Core, KernelState
<1>2. /\ IsInjective(s.ready) /\ IsInjective(s.blocked)
      /\ ToSet(s.ready) \cap ToSet(s.blocked) = {}
    BY DEF Core, Shape
<1>3. Free \in PCB /\ Free.state = "FREE"
    BY Constants1 DEF Free
<1>4. \E u \in KernelState, r \in Seq(Pids), b \in Seq(Pids) :
        /\ t = Relink(u, r, b, p, Free)
        /\ SameLists(s, u) /\ u.pcb = s.pcb
        /\ IsInjective(r) /\ ToSet(r) = ToSet(s.ready) \ {p}
        /\ IsInjective(b) /\ ToSet(b) = ToSet(s.blocked) \ {p}
        /\ s.ready # <<>> /\ Head(s.ready) # p => r # <<>> /\ Head(r) = Head(s.ready)
    <2>1. CASE p \in ToSet(s.ready)
        <3> DEFINE r == Unlink(s.ready, p)
        <3>1. /\ r \in Seq(Pids) /\ IsInjective(r) /\ ToSet(r) = ToSet(s.ready) \ {p}
              /\ Head(s.ready) # p => r # <<>> /\ Head(r) = Head(s.ready)
            BY <1>1, <1>2, <2>1, UnlinkFacts
        <3>2. ToSet(s.blocked) = ToSet(s.blocked) \ {p}
            BY <1>2, <2>1
        <3>3. t = Relink(s, r, s.blocked, p, Free)
            BY <1>1, <2>1, SearchFacts DEF removeTerminated, Relink, KernelState
        <3>4. SameLists(s, s)
            BY DEF SameLists
        <3> HIDE DEF r, t
        <3> QED BY <3>1, <3>2, <3>3, <3>4, <1>1, <1>2
    <2>2. CASE p \notin ToSet(s.ready)
        <3> DEFINE b == Unlink(s.blocked, p)
                   u == [s EXCEPT !.idt0 = @ /\ s.blocked # <<p>>]
        <3>1. b \in Seq(Pids) /\ IsInjective(b) /\ ToSet(b) = ToSet(s.blocked) \ {p}
            BY <1>1, <1>2, <2>2, UnlinkFacts
        <3>2. ToSet(s.ready) = ToSet(s.ready) \ {p}
            BY <2>2
        <3>3. t = Relink(u, s.ready, b, p, Free)
            BY <1>1, <2>2, SearchFacts DEF removeTerminated, Relink, KernelState
        <3>4. u \in KernelState /\ SameLists(s, u) /\ u.pcb = s.pcb
            BY <1>1 DEF SameLists, KernelState
        <3> HIDE DEF b, u, t
        <3> QED BY <3>1, <3>2, <3>3, <3>4, <1>1, <1>2
    <2> QED BY <2>1, <2>2
<1> HIDE DEF t
<1>5. PICK u \in KernelState, r \in Seq(Pids), b \in Seq(Pids) :
        /\ t = Relink(u, r, b, p, Free)
        /\ SameLists(s, u) /\ u.pcb = s.pcb
        /\ IsInjective(r) /\ ToSet(r) = ToSet(s.ready) \ {p}
        /\ IsInjective(b) /\ ToSet(b) = ToSet(s.blocked) \ {p}
        /\ s.ready # <<>> /\ Head(s.ready) # p => r # <<>> /\ Head(r) = Head(s.ready)
    BY <1>4
<1>6. /\ t \in KernelState /\ t.ready = r /\ t.blocked = b /\ t.pcb[p] = Free
      /\ \A q \in Pids : q # p => t.pcb[q] = s.pcb[q]
      /\ t.halt = s.halt /\ t.haltRsp = s.haltRsp /\ t.pid = s.pid /\ t.cpu = s.cpu
      /\ t.up = s.up
    <2>1. /\ t \in KernelState /\ t.ready = r /\ t.blocked = b /\ t.pcb[p] = Free
          /\ \A q \in Pids : q # p => t.pcb[q] = u.pcb[q]
          /\ t.halt = u.halt /\ t.haltRsp = u.haltRsp /\ t.pid = u.pid /\ t.cpu = u.cpu
          /\ t.up = u.up
        <3>1. p \in Pids /\ Free \in PCB /\ t = Relink(u, r, b, p, Free)
            BY <1>1, <1>3, <1>5
        <3> QED BY <3>1, NodeUpdate
    <2> QED BY <2>1, <1>5 DEF SameLists
<1>7. Shape(t)
    <2>1. \A q \in Pids : t.pcb[q].state # "FREE" <=> q \in ToSet(t.ready) \cup ToSet(t.blocked)
        BY <1>1, <1>3, <1>5, <1>6 DEF Core, Shape
    <2>2. \A q \in Pids : t.pcb[q].state # "FREE" => q < t.pid
        BY <1>3, <1>6 DEF Core, Shape
    <2> QED BY <2>1, <2>2, <1>2, <1>5, <1>6 DEF Shape
<1>8. Own(t)
    BY <1>3, <1>5, <1>6 DEF Core, Own
<1>9. Agree(t)
    BY <1>1, <1>5, <1>6 DEF Agree, AgreeBut
<1>10. s.ready # <<>> /\ Current(s.ready) # p
            => t.ready # <<>> /\ Current(t.ready) = Current(s.ready)
    BY <1>5, <1>6 DEF Current
<1> QED BY <1>5, <1>6, <1>7, <1>8, <1>9, <1>10 DEF Core, t

(* The state scheduler() works on: the current process may be marked to    *)
(* leave, and the shell is never marked TERMINATED.                        *)
Ready4Switch(s) ==
    /\ Core(s) /\ OnCpu(s)
    /\ s.ready = <<>> => Agree(s)
    /\ s.ready # <<>> =>
            /\ AgreeBut(s, Current(s.ready))
            /\ s.pcb[1].state # "TERMINATED"

(* A consistent state may enter scheduler().                               *)
LEMMA IInvSwitch ==
    ASSUME NEW s, IInv(s)
    PROVE  Ready4Switch(s)
<1>1. s \in KernelState /\ s.ready \in Seq(Pids) /\ 0 \notin Pids
    BY Constants1 DEF IInv, Core, KernelState
<1>2. ToSet(s.ready) \subseteq Pids /\ ToSet(s.blocked) \subseteq Pids
    BY <1>1, SearchFacts
<1>3. \A c : AgreeBut(s, c)
    BY <1>1, <1>2 DEF IInv, Agree, AgreeBut
<1>4. s.pcb[1].state # "TERMINATED"
    BY <1>1, <1>2 DEF IInv, Agree, AgreeBut, Core, Own
<1> QED BY <1>3, <1>4 DEF Ready4Switch, IInv

(* Saving the outgoing context changes nothing: it is the owner's already. *)
LEMMA SaveContextFacts ==
    ASSUME NEW s, Core(s), OnCpu(s), ~MemoryCollision(s)
    PROVE  SaveContext(s) = s
<1>1. s \in KernelState /\ s.cpu \in Contexts /\ s.halt \in BOOLEAN /\ s.firstTime \in BOOLEAN
    BY DEF Core, KernelState
<1>2. CASE s.halt
    BY <1>1, <1>2 DEF SaveContext, KernelState, OnCpu, Core, Own
<1>3. CASE ~s.halt /\ ~s.firstTime
    <2> DEFINE p == Current(s.ready)
    <2>1. s.cpu = p /\ p \in Pids
        BY <1>1, <1>3 DEF OnCpu, MemoryCollision, Contexts
    <2>2. p \in ToSet(s.ready)
        BY <1>1, <1>3, ListFacts DEF OnCpu, KernelState, Current
    <2>3. s.pcb[p].rsp = s.cpu
        BY <2>1, <2>2 DEF Core, Shape, Own
    <2>4. SaveContext(s) = [s EXCEPT !.pcb[p].rsp = s.cpu]
        BY <1>3 DEF SaveContext
    <2>5. s.pcb[p] \in PCB /\ s.pcb \in [Pids -> PCB]
        BY <1>1, <2>1 DEF KernelState
    <2> HIDE DEF p
    <2>6. [s.pcb[p] EXCEPT !.rsp = s.cpu] = s.pcb[p]
        BY <2>3, <2>5 DEF PCB
    <2>7. [s.pcb EXCEPT ![p] = s.pcb[p]] = s.pcb
        BY <2>5
    <2>8. [s EXCEPT !.pcb = s.pcb] = s
        BY <1>1 DEF KernelState
    <2>9. [s EXCEPT !.pcb[p].rsp = s.cpu]
            = [s EXCEPT !.pcb = [s.pcb EXCEPT ![p] = [s.pcb[p] EXCEPT !.rsp = s.cpu]]]
        BY <1>1 DEF KernelState
    <2> QED BY <2>4, <2>6, <2>7, <2>8, <2>9
<1>4. CASE ~s.halt /\ s.firstTime
    BY <1>4 DEF SaveContext
<1> QED BY <1>1, <1>2, <1>3, <1>4

(* The current process goes where its state says, and lists agree.         *)
LEMMA LeaveCpuFacts ==
    ASSUME NEW s, Core(s), s.ready # <<>>, AgreeBut(s, Current(s.ready)),
           s.pcb[1].state # "TERMINATED"
    PROVE  LET t == LeaveCpu(s)
           IN  /\ Core(t) /\ Agree(t)
               /\ t.cpu = s.cpu /\ t.halt = s.halt /\ t.up = s.up
<1> DEFINE t == LeaveCpu(s)
           p == Current(s.ready)
<1>1. /\ s \in KernelState /\ s.ready \in Seq(Pids)
      /\ ToSet(s.ready) \subseteq Pids /\ ToSet(s.blocked) \subseteq Pids
      /\ p \in ToSet(s.ready)
    BY SearchFacts, ListFacts DEF Core, KernelState, Current
<1>2. p \in Pids /\ s.pcb[p] \in PCB /\ s.pcb[p].state # "FREE" /\ p \notin ToSet(s.blocked)
    BY <1>1 DEF Core, Shape, KernelState
<1>3. s.pcb[p].state \in {"READY", "BLOCKED", "TERMINATED"}
    BY <1>2 DEF PCB, States
<1>4. CASE s.pcb[p].state = "TERMINATED"
    <2>1. t = removeTerminated(s, p) /\ p # 1
        BY <1>4 DEF LeaveCpu
    <2> QED BY <2>1, <1>1, RemoveTerminatedFacts
<1>5. CASE s.pcb[p].state = "BLOCKED"
    <2>1. t = removeBlocked(s, p)
        BY <1>5 DEF LeaveCpu
    <2> QED BY <2>1, <1>1, <1>5, RemoveBlockedFacts
<1>6. CASE s.pcb[p].state = "READY"
    <2>1. Agree(s)
        BY <1>1, <1>2, <1>6 DEF Agree, AgreeBut
    <2>2. CASE s.pcb[p].priorityCounter = 0
        <3> DEFINE c == [s.pcb[p] EXCEPT !.priorityCounter = s.pcb[p].priority]
                   r == Rotate(s.ready)
        <3>1. c \in PCB /\ c.state = s.pcb[p].state /\ c.rsp = s.pcb[p].rsp
            BY <1>2 DEF PCB
        <3>2. t = Relink(s, r, s.blocked, p, c)
            BY <1>1, <1>2, <1>6, <2>2 DEF LeaveCpu, Relink, KernelState
        <3>3. r \in Seq(Pids) /\ IsInjective(r) /\ ToSet(r) = ToSet(s.ready)
            BY <1>1, RotateFacts DEF Core, Shape
        <3>4. s.blocked \in Seq(Pids)
            BY <1>1 DEF KernelState
        <3> HIDE DEF c, r, t, p
        <3>5. /\ t \in KernelState /\ t.ready = r /\ t.blocked = s.blocked /\ t.pcb[p] = c
              /\ \A q \in Pids : q # p => t.pcb[q] = s.pcb[q]
              /\ t.halt = s.halt /\ t.haltRsp = s.haltRsp /\ t.pid = s.pid /\ t.cpu = s.cpu
              /\ t.up = s.up
            <4>1. s \in KernelState /\ p \in Pids /\ c \in PCB /\ r \in Seq(Pids)
                BY <1>1, <1>2, <3>1, <3>3
            <4> QED BY <4>1, <3>2, <3>4, NodeUpdate
        <3>6. \A q \in Pids : t.pcb[q].state = s.pcb[q].state /\ t.pcb[q].rsp = s.pcb[q].rsp
            BY <3>1, <3>5
        <3>7. Shape(t)
            BY <3>3, <3>5, <3>6 DEF Core, Shape
        <3>8. Own(t)
            BY <3>3, <3>5, <3>6 DEF Core, Own
        <3>9. Agree(t)
            BY <1>1, <2>1, <3>3, <3>5, <3>6 DEF Agree, AgreeBut
        <3> QED BY <3>5, <3>7, <3>8, <3>9 DEF Core, t
    <2>3. CASE s.pcb[p].priorityCounter # 0
        <3>1. t = s
            BY <1>6, <2>3 DEF LeaveCpu
        <3> QED BY <3>1, <2>1
    <2> QED BY <2>2, <2>3
<1> QED BY <1>3, <1>4, <1>5, <1>6

(* A size_t stays a size_t.                                                *)
LEMMA ModFact ==
    ASSUME NEW n \in Int
    PROVE  n % Word \in 0..(Word - 1)
BY SchedulerAssumption DEF HIGH

(* Dispatching the head of the ready list, or haltProc.                    *)
LEMMA TakeCpuFacts ==
    ASSUME NEW s, Core(s), Agree(s), ~s.halt
    PROVE  IInv(TakeCpu(s)) /\ TakeCpu(s).up = s.up /\ SameNodesOf(s, TakeCpu(s))
<1> DEFINE t == TakeCpu(s)
<1>1. s \in KernelState /\ s.ready \in Seq(Pids) /\ s.halt = FALSE
    BY DEF Core, KernelState
<1>2. CASE s.ready = <<>>
    <2>1. t = [s EXCEPT !.halt = TRUE, !.cpu = s.haltRsp]
        BY <1>2 DEF TakeCpu
    <2>2. /\ t \in KernelState /\ t.halt = TRUE /\ t.cpu = HaltProc /\ t.up = s.up
          /\ t.ready = s.ready /\ t.blocked = s.blocked /\ t.pcb = s.pcb
          /\ t.haltRsp = s.haltRsp /\ t.pid = s.pid
        BY <1>1, <2>1, Constants1 DEF KernelState, Core, Own
    <2> HIDE DEF t
    <2>3. Core(t)
        BY <2>2 DEF Core, Shape, Own
    <2>4. Agree(t)
        BY <2>2 DEF Agree, AgreeBut
    <2>5. OnCpu(t)
        BY <2>2, Constants1 DEF OnCpu
    <2> QED BY <2>2, <2>3, <2>4, <2>5 DEF IInv, SameNodesOf, t
<1>3. CASE s.ready # <<>>
    <2> DEFINE p == Current(s.ready)
               c == [s.pcb[p] EXCEPT !.priorityCounter = (@ - 1) % Word]
               u == [s EXCEPT !.pcb[p] = c]
    <2>1. p \in ToSet(s.ready) /\ p \in Pids /\ s.pcb[p] \in PCB
        BY <1>1, <1>3, ListFacts DEF Current, KernelState
    <2>2. s.pcb[p].rsp = p
        BY <2>1 DEF Core, Shape, Own
    <2>3. (s.pcb[p].priorityCounter - 1) % Word \in 0..(Word - 1)
        BY <2>1, ModFact DEF PCB
    <2>4. c \in PCB /\ c.state = s.pcb[p].state /\ c.rsp = s.pcb[p].rsp
              /\ c.background = s.pcb[p].background
        BY <2>1, <2>3 DEF PCB
    <2>5. t = [u EXCEPT !.cpu = p]
        BY <1>1, <1>3, <2>1, <2>2 DEF TakeCpu, KernelState, PCB
    <2> HIDE DEF c, p
    <2>6. /\ u \in KernelState /\ SameLists(s, u) /\ u.pcb[p] = c
          /\ \A q \in Pids : q # p => u.pcb[q] = s.pcb[q]
        <3>1. s \in KernelState /\ p \in Pids /\ c \in PCB
            BY <1>1, <2>1, <2>4
        <3> QED BY <3>1, PcbUpdate
    <2> HIDE DEF u, t
    <2>7. /\ t \in KernelState /\ t.cpu = p /\ t.halt = u.halt /\ t.up = u.up
          /\ t.ready = u.ready /\ t.blocked = u.blocked /\ t.pcb = u.pcb
          /\ t.haltRsp = u.haltRsp /\ t.pid = u.pid
        BY <2>1, <2>5, <2>6, Constants1 DEF KernelState
    <2>8. \A q \in Pids : /\ t.pcb[q].state = s.pcb[q].state /\ t.pcb[q].rsp = s.pcb[q].rsp
                          /\ t.pcb[q].background = s.pcb[q].background
        BY <2>4, <2>6, <2>7
    <2>9. Core(t)
        <3>1. /\ t.ready = s.ready /\ t.blocked = s.blocked
              /\ t.haltRsp = s.haltRsp /\ t.pid = s.pid
            BY <2>6, <2>7 DEF SameLists
        <3>2. Shape(t)
            BY <3>1, <2>8 DEF Core, Shape
        <3>3. Own(t)
            BY <3>1, <2>8 DEF Core, Own
        <3> QED BY <2>7, <3>2, <3>3 DEF Core
    <2>10. Agree(t)
        <3>1. ToSet(s.ready) \subseteq Pids /\ ToSet(s.blocked) \subseteq Pids
            BY <1>1, SearchFacts
        <3> QED BY <3>1, <2>6, <2>7, <2>8 DEF Agree, AgreeBut, SameLists
    <2>11. OnCpu(t)
        BY <1>1, <1>3, <2>1, <2>6, <2>7, Constants1 DEF OnCpu, SameLists, p
    <2> QED BY <2>6, <2>7, <2>8, <2>9, <2>10, <2>11 DEF IInv, SameNodesOf, SameLists, t
<1> QED BY <1>2, <1>3

(* scheduler() brings the kernel back to a consistent state, whatever the  *)
(* current process was marked with.                                        *)
LEMMA SchedulerFacts ==
    ASSUME NEW s, Ready4Switch(s)
    PROVE  IInv(scheduler(s)) \/ (MemoryCollision(s) /\ scheduler(s) = [s EXCEPT !.up = FALSE])
<1>1. s \in KernelState /\ Core(s) /\ OnCpu(s) /\ s.haltRsp # NULL
    BY Constants1 DEF Ready4Switch, Core, Own
<1>2. CASE MemoryCollision(s)
    BY <1>1, <1>2 DEF scheduler
<1>3. CASE ~MemoryCollision(s)
    <2> DEFINE u == [s EXCEPT !.halt = FALSE, !.firstTime = FALSE]
    <2>1. SaveContext(s) = s
        BY <1>1, <1>3, SaveContextFacts
    <2>2. scheduler(s) = TakeCpu(IF u.ready = <<>> THEN u ELSE LeaveCpu(u))
        BY <1>1, <1>3, <2>1 DEF scheduler
    <2>3. /\ u \in KernelState /\ u.ready = s.ready /\ u.blocked = s.blocked /\ u.pcb = s.pcb
          /\ u.haltRsp = s.haltRsp /\ u.pid = s.pid /\ u.halt = FALSE
        BY <1>1 DEF KernelState
    <2> HIDE DEF u
    <2>4. Core(u)
        BY <1>1, <2>3 DEF Core, Shape, Own
    <2>5. CASE u.ready = <<>>
        <3>1. Agree(u)
            BY <2>3, <2>5 DEF Ready4Switch, Agree, AgreeBut
        <3> QED BY <2>2, <2>3, <2>4, <2>5, <3>1, TakeCpuFacts
    <2>6. CASE u.ready # <<>>
        <3>1. AgreeBut(u, Current(u.ready)) /\ u.pcb[1].state # "TERMINATED"
            BY <2>3, <2>6 DEF Ready4Switch, AgreeBut
        <3>2. Core(LeaveCpu(u)) /\ Agree(LeaveCpu(u)) /\ ~LeaveCpu(u).halt
            BY <2>3, <2>4, <2>6, <3>1, LeaveCpuFacts
        <3> QED BY <2>2, <2>6, <3>2, TakeCpuFacts
    <2> QED BY <2>5, <2>6
<1> QED BY <1>2, <1>3

(* A process on the CPU is the current one, alive and READY.               *)
LEMMA RunningFacts ==
    ASSUME NEW s, IInv(s), NEW p \in Pids, s.cpu = p
    PROVE  /\ s \in KernelState /\ Current(s.ready) = p /\ s.ready # <<>> /\ ~s.halt
           /\ p \in ToSet(s.ready) /\ p \notin ToSet(s.blocked) /\ s.pcb[p].state = "READY"
           /\ s.pcb[p] \in PCB /\ ~MemoryCollision(s)
           /\ \A c : AgreeBut(s, c)
           /\ s.pcb[1].state # "TERMINATED"
<1>1. s \in KernelState /\ s.ready \in Seq(Pids) /\ s.pcb[p] \in PCB
    BY DEF IInv, Core, KernelState
<1>2. ~s.halt /\ s.ready # <<>> /\ Current(s.ready) = p
    BY Constants1 DEF IInv, OnCpu
<1>3. p \in ToSet(s.ready) /\ p \notin ToSet(s.blocked)
    BY <1>1, <1>2, ListFacts DEF Current, IInv, Core, Shape
<1>4. s.pcb[p].state = "READY"
    BY <1>3, Constants1 DEF IInv, Agree, AgreeBut
<1>5. ToSet(s.ready) \subseteq Pids /\ ToSet(s.blocked) \subseteq Pids
    BY <1>1, SearchFacts
<1>6. \A c : AgreeBut(s, c)
    BY <1>5, Constants1 DEF IInv, Agree, AgreeBut
<1>7. s.pcb[1].state # "TERMINATED"
    BY <1>5, Constants1 DEF IInv, Agree, AgreeBut, Core, Own
<1>8. ~MemoryCollision(s)
    BY Constants1 DEF MemoryCollision
<1> QED BY <1>1, <1>2, <1>3, <1>4, <1>6, <1>7, <1>8

(* Changing the state of one node that is in a list.                       *)
LEMMA MarkAny ==
    ASSUME NEW s, Core(s), NEW p \in ToSet(s.ready) \cup ToSet(s.blocked), AgreeBut(s, p),
           NEW x \in States, x # "FREE"
    PROVE  LET t == [s EXCEPT !.pcb[p].state = x]
           IN  /\ Core(t) /\ SameLists(s, t) /\ AgreeBut(t, p)
               /\ \A q \in Pids : q # p => t.pcb[q] = s.pcb[q]
               /\ \A q \in Pids : t.pcb[q].background = s.pcb[q].background
<1> DEFINE c == [s.pcb[p] EXCEPT !.state = x]
           t == [s EXCEPT !.pcb[p].state = x]
<1>1. /\ s \in KernelState /\ p \in Pids
      /\ ToSet(s.ready) \subseteq Pids /\ ToSet(s.blocked) \subseteq Pids
    BY SearchFacts DEF Core
<1>2. s.pcb[p] \in PCB /\ s.pcb[p].state # "FREE"
    BY <1>1 DEF KernelState, Core, Shape
<1>3. c \in PCB /\ c.state = x /\ c.rsp = s.pcb[p].rsp /\ c.background = s.pcb[p].background
    BY <1>2 DEF PCB
<1>4. t = [s EXCEPT !.pcb[p] = c]
    OBVIOUS
<1> HIDE DEF c, t
<1>5. /\ t \in KernelState /\ SameLists(s, t) /\ t.pcb[p] = c
      /\ \A q \in Pids : q # p => t.pcb[q] = s.pcb[q]
    BY <1>1, <1>3, <1>4, PcbUpdate
<1>6. \A q \in Pids : /\ t.pcb[q].state # "FREE" <=> s.pcb[q].state # "FREE"
                      /\ t.pcb[q].rsp = s.pcb[q].rsp
                      /\ t.pcb[q].background = s.pcb[q].background
    BY <1>2, <1>3, <1>5
<1>7. Shape(t)
    BY <1>5, <1>6 DEF Core, Shape, SameLists
<1>8. Own(t)
    BY <1>5, <1>6 DEF Core, Own, SameLists
<1>9. AgreeBut(t, p)
    BY <1>1, <1>5 DEF AgreeBut, SameLists
<1> QED BY <1>5, <1>6, <1>7, <1>8, <1>9 DEF Core, t

(* Marking the current process, then switching.                            *)
LEMMA MarkFacts ==
    ASSUME NEW s, IInv(s), NEW p \in Pids, s.cpu = p,
           NEW x \in {"BLOCKED", "TERMINATED"}, p = 1 => x # "TERMINATED"
    PROVE  LET t == [s EXCEPT !.pcb[p].state = x]
           IN  /\ Ready4Switch(t) /\ ~MemoryCollision(t) /\ SameLists(s, t)
               /\ AgreeBut(t, p) /\ t.pcb[p].background = s.pcb[p].background
<1> DEFINE t == [s EXCEPT !.pcb[p].state = x]
<1>1. /\ s \in KernelState /\ Current(s.ready) = p /\ s.ready # <<>> /\ ~s.halt
      /\ p \in ToSet(s.ready) /\ AgreeBut(s, p) /\ s.pcb[1].state # "TERMINATED"
      /\ ~MemoryCollision(s) /\ Core(s) /\ x \in States /\ x # "FREE"
    BY RunningFacts DEF IInv, States
<1>2. /\ Core(t) /\ SameLists(s, t) /\ AgreeBut(t, p)
      /\ \A q \in Pids : q # p => t.pcb[q] = s.pcb[q]
      /\ \A q \in Pids : t.pcb[q].background = s.pcb[q].background
    BY <1>1, MarkAny
<1>3. t.pcb[p].state = x
    BY <1>1 DEF KernelState, PCB
<1> HIDE DEF t
<1>4. t.pcb[1].state # "TERMINATED"
    BY <1>1, <1>2, <1>3, Constants1
<1>5. OnCpu(t) /\ ~MemoryCollision(t) /\ Current(t.ready) = p /\ t.ready # <<>>
    BY <1>1, <1>2 DEF IInv, OnCpu, MemoryCollision, SameLists
<1> QED BY <1>2, <1>4, <1>5 DEF Ready4Switch, t

---------------------------------------------------------------------------
(* One lemma for each kernel entry.                                        *)

(* Giving up the rest of a quantum.                                        *)
LEMMA YieldFacts ==
    ASSUME NEW s, IInv(s), NEW p \in Pids, s.cpu = p
    PROVE  IInv(yield(s))
<1> DEFINE c == [s.pcb[p] EXCEPT !.priorityCounter = 0]
           t == [s EXCEPT !.pcb[p].priorityCounter = 0]
<1>1. /\ s \in KernelState /\ Current(s.ready) = p /\ s.pcb[p] \in PCB
      /\ ~MemoryCollision(s)
    BY RunningFacts
<1>2. yield(s) = scheduler(t)
    BY <1>1 DEF yield
<1>3. c \in PCB /\ c.state = s.pcb[p].state /\ c.rsp = s.pcb[p].rsp
    BY <1>1, Constants1 DEF PCB
<1>4. t = [s EXCEPT !.pcb[p] = c]
    OBVIOUS
<1> HIDE DEF c, t
<1>5. /\ t \in KernelState /\ SameLists(s, t) /\ t.pcb[p] = c
      /\ \A q \in Pids : q # p => t.pcb[q] = s.pcb[q]
    BY <1>1, <1>3, <1>4, PcbUpdate
<1>6. \A q \in Pids : t.pcb[q].state = s.pcb[q].state /\ t.pcb[q].rsp = s.pcb[q].rsp
    BY <1>3, <1>5
<1>7. Core(t) /\ Agree(t)
    BY <1>5, <1>6, SameNodes DEF IInv, Agree
<1>8. OnCpu(t) /\ ~MemoryCollision(t)
    BY <1>1, <1>5 DEF IInv, OnCpu, MemoryCollision, SameLists
<1>9. Ready4Switch(t)
    BY <1>7, <1>8, IInvSwitch DEF IInv
<1> QED BY <1>2, <1>8, <1>9, SchedulerFacts

(* Stopping the machine changes nothing else.                              *)
LEMMA StoppedFacts ==
    ASSUME NEW s, IInv(s)
    PROVE  IInv([s EXCEPT !.up = FALSE])
<1> DEFINE t == [s EXCEPT !.up = FALSE]
<1>1. /\ t \in KernelState /\ t.ready = s.ready /\ t.blocked = s.blocked /\ t.pcb = s.pcb
      /\ t.haltRsp = s.haltRsp /\ t.pid = s.pid /\ t.halt = s.halt /\ t.cpu = s.cpu
    BY DEF IInv, Core, KernelState
<1> HIDE DEF t
<1>2. Core(t)
    BY <1>1 DEF IInv, Core, Shape, Own
<1>3. Agree(t)
    BY <1>1 DEF IInv, Agree, AgreeBut
<1>4. OnCpu(t)
    BY <1>1 DEF IInv, OnCpu
<1> QED BY <1>2, <1>3, <1>4 DEF IInv, t

(* A timer tick.                                                           *)
LEMMA TickFacts ==
    ASSUME NEW s, IInv(s)
    PROVE  IInv(scheduler(s))
BY IInvSwitch, SchedulerFacts, StoppedFacts

(* Blocking any process, the caller included.                              *)
LEMMA BlockFacts ==
    ASSUME NEW s, IInv(s), NEW p \in Pids, s.cpu = p, NEW q \in Pids
    PROVE  IInv(blockProcess(s, q))
<1>1. /\ s \in KernelState /\ Current(s.ready) = p /\ AgreeBut(s, q) /\ ~s.halt
      /\ p \in ToSet(s.ready)
    BY RunningFacts
<1>2. CASE q = p
    <2> DEFINE t == [s EXCEPT !.pcb[p].state = "BLOCKED"]
    <2>1. blockProcess(s, q) = scheduler(t)
        BY <1>1, <1>2 DEF blockProcess
    <2>2. Ready4Switch(t) /\ ~MemoryCollision(t)
        BY MarkFacts
    <2> QED BY <2>1, <2>2, SchedulerFacts
<1>3. CASE q # p /\ q \in ToSet(s.ready)
    <2> DEFINE t == [s EXCEPT !.pcb[q].state = "BLOCKED"]
    <2>1. blockProcess(s, q) = removeBlocked(t, q)
        BY <1>1, <1>3, SearchFacts DEF blockProcess
    <2>2. Core(t) /\ SameLists(s, t) /\ AgreeBut(t, q)
        BY <1>1, <1>3, MarkAny DEF IInv, States
    <2>3. t.pcb[q].state = "BLOCKED"
        BY <1>1 DEF KernelState, PCB
    <2> HIDE DEF t
    <2>4. q \in ToSet(t.ready) /\ Current(t.ready) # q
        BY <1>1, <1>3, <2>2 DEF SameLists
    <2> DEFINE u == removeBlocked(t, q)
    <2>5. /\ Core(u) /\ Agree(u) /\ u.cpu = t.cpu /\ u.halt = t.halt
          /\ u.ready # <<>> /\ Current(u.ready) = Current(t.ready)
        BY <2>2, <2>3, <2>4, RemoveBlockedFacts
    <2> HIDE DEF u
    <2>6. OnCpu(u)
        BY <1>1, <2>2, <2>5 DEF IInv, OnCpu, SameLists
    <2> QED BY <2>1, <2>5, <2>6 DEF IInv, u
<1>4. CASE q # p /\ q \notin ToSet(s.ready)
    BY <1>1, <1>4, SearchFacts DEF blockProcess
<1> QED BY <1>2, <1>3, <1>4

(* Waking any process.                                                     *)
LEMMA WakeFacts ==
    ASSUME NEW s, IInv(s), NEW p \in Pids
    PROVE  IInv(unblockProcess(s, p))
<1> DEFINE t == unblockProcess(s, p)
<1>1. 0 \notin ToSet(s.blocked)
    BY SearchFacts, Constants1 DEF IInv, Core
<1>2. /\ Core(t) /\ AgreeBut(t, 0)
      /\ t.cpu = s.cpu /\ t.halt = s.halt
      /\ s.ready # <<>> => t.ready # <<>> /\ Current(t.ready) = Current(s.ready)
    BY <1>1, Constants1, UnblockFacts DEF IInv, Agree
<1>3. s.cpu \in Pids => s.ready # <<>>
    BY Constants1 DEF IInv, OnCpu
<1> HIDE DEF t
<1>4. OnCpu(t)
    BY <1>2, <1>3 DEF IInv, OnCpu
<1> QED BY <1>2, <1>4 DEF IInv, Agree, t

(* Lists that agree, agree for all but one.                                *)
LEMMA AgreeAny ==
    ASSUME NEW s, Core(s), Agree(s)
    PROVE  \A c : AgreeBut(s, c)
<1>1. ToSet(s.ready) \subseteq Pids /\ ToSet(s.blocked) \subseteq Pids
    BY SearchFacts DEF Core
<1> QED BY <1>1, Constants1 DEF Agree, AgreeBut

(* Giving the console back to the shell, while c may be about to leave.    *)
LEMMA HandBackFacts ==
    ASSUME NEW s, Core(s), NEW p \in Pids, NEW c, AgreeBut(s, c), c \notin ToSet(s.blocked)
    PROVE  LET t == HandBack(s, p)
           IN  /\ Core(t) /\ AgreeBut(t, c) /\ c \notin ToSet(t.blocked)
               /\ t.cpu = s.cpu /\ t.halt = s.halt /\ t.firstTime = s.firstTime /\ t.up = s.up
               /\ t.pid = s.pid
               /\ s.ready # <<>> => t.ready # <<>> /\ Current(t.ready) = Current(s.ready)
               /\ ToSet(s.ready) \subseteq ToSet(t.ready)
               /\ ToSet(t.ready) \cup ToSet(t.blocked) = ToSet(s.ready) \cup ToSet(s.blocked)
               /\ ToSet(t.ready) \subseteq ToSet(s.ready) \cup {1}
               /\ \A q \in Pids : q # 1 => t.pcb[q] = s.pcb[q]
               /\ s.pcb[p].background = "FOREGROUND" =>
                    t.pcb[1].background = "FOREGROUND" /\ 1 \in ToSet(t.ready)
<1> DEFINE t == HandBack(s, p)
<1>1. CASE s.pcb[p].background = "FOREGROUND"
    <2> DEFINE u == setBackground(s, 1, "FOREGROUND")
    <2>1. t = unblockProcess(u, 1)
        BY <1>1 DEF HandBack
    <2>2. 1 \in Pids /\ 1 \in Int /\ "FOREGROUND" \in Backgrounds
          /\ 1 \in ToSet(s.ready) \cup ToSet(s.blocked)
        BY Constants1 DEF Backgrounds, Core, Own
    <2>3. /\ Core(u) /\ SameLists(s, u) /\ AgreeBut(u, c)
          /\ \A q \in Pids : q # 1 => u.pcb[q] = s.pcb[q]
          /\ u.pcb[1].background = "FOREGROUND"
        BY <2>2, SetBackgroundFacts
    <2> HIDE DEF u
    <2>4. c \notin ToSet(u.blocked)
        BY <2>3 DEF SameLists
    <2> DEFINE v == unblockProcess(u, 1)
    <2>5. /\ Core(v) /\ AgreeBut(v, c) /\ c \notin ToSet(v.blocked)
          /\ v.cpu = u.cpu /\ v.halt = u.halt /\ v.firstTime = u.firstTime /\ v.up = u.up
          /\ v.pid = u.pid
          /\ u.ready # <<>> => v.ready # <<>> /\ Current(v.ready) = Current(u.ready)
          /\ ToSet(u.ready) \subseteq ToSet(v.ready)
          /\ 1 \in ToSet(u.blocked) => 1 \in ToSet(v.ready)
          /\ \A q \in Pids : q # 1 => v.pcb[q] = u.pcb[q]
          /\ \A q \in Pids : v.pcb[q].background = u.pcb[q].background
          /\ ToSet(v.ready) \cup ToSet(v.blocked) = ToSet(u.ready) \cup ToSet(u.blocked)
        BY <2>2, <2>3, <2>4, UnblockFacts, ZenonT(60)
    <2>6. ToSet(v.ready) \subseteq ToSet(u.ready) \cup {1}
        BY <2>2, <2>3, <2>4, UnblockFacts, Zenon
    <2> HIDE DEF v
    <2>7. v.pcb[1].background = "FOREGROUND" /\ 1 \in ToSet(v.ready)
        BY <2>2, <2>3, <2>5 DEF SameLists
    <2> QED BY <2>1, <2>3, <2>5, <2>6, <2>7 DEF SameLists, v
<1>2. CASE s.pcb[p].background # "FOREGROUND"
    BY <1>2 DEF HandBack
<1> QED BY <1>1, <1>2

(* The process on the CPU ends itself: marked, and the console handed      *)
(* back, it is ready for the switch that frees it.                         *)
LEMMA EndSelfFacts ==
    ASSUME NEW s, IInv(s), NEW p \in Pids, s.cpu = p, p # 1
    PROVE  LET t == [s EXCEPT !.pcb[p].state = "TERMINATED"]
               u == HandBack(t, p)
           IN  /\ terminateProcess(s, p) = scheduler(u)
               /\ Core(t) /\ Core(u) /\ Ready4Switch(u) /\ ~MemoryCollision(u)
               /\ u.ready # <<>> /\ Current(u.ready) = p /\ u.pid = s.pid
               /\ \A q \in Pids : q # 1 => u.pcb[q] = t.pcb[q]
               /\ ToSet(u.ready) \subseteq ToSet(s.ready) \cup {1}
               /\ s.pcb[p].background # "FOREGROUND" => u = t /\ u.ready = s.ready
               /\ s.pcb[p].background = "FOREGROUND" =>
                    u.pcb[1].background = "FOREGROUND" /\ 1 \in ToSet(u.ready)
<1> DEFINE t == [s EXCEPT !.pcb[p].state = "TERMINATED"]
           u == HandBack(t, p)
<1>1. /\ s \in KernelState /\ Current(s.ready) = p /\ s.ready # <<>>
      /\ p \notin ToSet(s.blocked)
    BY RunningFacts
<1>2. terminateProcess(s, p) = scheduler(u)
    BY <1>1 DEF terminateProcess
<1>3. /\ Ready4Switch(t) /\ ~MemoryCollision(t) /\ SameLists(s, t) /\ AgreeBut(t, p)
      /\ t.pcb[p].background = s.pcb[p].background
    BY MarkFacts
<1> HIDE DEF t
<1>4. /\ p \notin ToSet(t.blocked) /\ t.ready # <<>> /\ Current(t.ready) = p
      /\ Core(t) /\ OnCpu(t)
    BY <1>1, <1>3 DEF SameLists, Ready4Switch
<1>5. /\ Core(u) /\ AgreeBut(u, p)
      /\ u.cpu = t.cpu /\ u.halt = t.halt /\ u.firstTime = t.firstTime
      /\ u.ready # <<>> /\ Current(u.ready) = Current(t.ready) /\ u.pid = t.pid
    BY <1>3, <1>4, HandBackFacts
<1>6. /\ \A q \in Pids : q # 1 => u.pcb[q] = t.pcb[q]
      /\ ToSet(u.ready) \subseteq ToSet(t.ready) \cup {1}
      /\ t.pcb[p].background = "FOREGROUND" =>
            u.pcb[1].background = "FOREGROUND" /\ 1 \in ToSet(u.ready)
    BY <1>3, <1>4, HandBackFacts
<1>7. t.pcb[p].background # "FOREGROUND" => u = t
    BY DEF HandBack
<1>8. t.pid = s.pid /\ t.ready = s.ready
    BY <1>3 DEF SameLists
<1> HIDE DEF u
<1>9. u.pcb[1].state # "TERMINATED"
    <2>1. 1 \in ToSet(u.ready) \cup ToSet(u.blocked)
        BY <1>5 DEF Core, Own
    <2> QED BY <2>1, <1>5 DEF AgreeBut
<1>10. OnCpu(u) /\ ~MemoryCollision(u)
    BY <1>3, <1>4, <1>5 DEF OnCpu, MemoryCollision
<1>11. Ready4Switch(u)
    BY <1>4, <1>5, <1>9, <1>10 DEF Ready4Switch
<1> QED BY <1>2, <1>3, <1>4, <1>5, <1>6, <1>7, <1>8, <1>10, <1>11 DEF t, u

(* The process on the CPU ends another one, which is in a list.            *)
LEMMA EndOtherFacts ==
    ASSUME NEW s, IInv(s), NEW p \in Pids, s.cpu = p, NEW q \in Pids, q # 1, q # p,
           q \in ToSet(s.ready) \cup ToSet(s.blocked)
    PROVE  LET u == HandBack(s, q)
               v == terminateProcess(s, q)
           IN  /\ IInv(v) /\ v.halt = s.halt /\ v.pid = s.pid /\ Core(u)
               /\ \A x \in ToSet(v.ready) : x # q /\ (x \in ToSet(s.ready) \/ x = 1)
               /\ s.pcb[q].background # "FOREGROUND" => ToSet(v.ready) \subseteq ToSet(s.ready)
               /\ v.ready # <<>> /\ Current(v.ready) = p /\ v.pcb[q] = Free
               /\ \A x \in Pids : x # q => v.pcb[x] = u.pcb[x]
               /\ s.pcb[q].background = "FOREGROUND" =>
                    v.pcb[1].background = "FOREGROUND" /\ 1 \in ToSet(v.ready)
<1> DEFINE u == HandBack(s, q)
           v == terminateProcess(s, q)
           none == 0
<1>1. /\ s \in KernelState /\ Current(s.ready) = p /\ ~s.halt /\ s.ready # <<>>
      /\ \A c : AgreeBut(s, c)
      /\ Core(s)
    BY RunningFacts DEF IInv
<1>2. AgreeBut(s, none) /\ none \notin ToSet(s.blocked)
    BY <1>1, SearchFacts, Constants1
<1> HIDE DEF none
<1>3. /\ Core(u) /\ AgreeBut(u, none)
      /\ u.cpu = s.cpu /\ u.halt = s.halt
      /\ u.ready # <<>> /\ Current(u.ready) = Current(s.ready) /\ u.pid = s.pid
    BY <1>1, <1>2, HandBackFacts
<1>4. /\ ToSet(s.ready) \subseteq ToSet(u.ready)
      /\ ToSet(u.ready) \subseteq ToSet(s.ready) \cup {1}
      /\ ToSet(u.ready) \cup ToSet(u.blocked) = ToSet(s.ready) \cup ToSet(s.blocked)
      /\ s.pcb[q].background = "FOREGROUND" =>
            u.pcb[1].background = "FOREGROUND" /\ 1 \in ToSet(u.ready)
    BY <1>1, <1>2, HandBackFacts, Zenon
<1>5. AgreeBut(u, q) /\ q \in ToSet(u.ready) \cup ToSet(u.blocked) /\ 1 \in Pids
    BY <1>3, <1>4, AgreeAny, Constants1 DEF Agree, none
<1>6. \E t : /\ v = removeTerminated(t, q) /\ Core(t) /\ SameLists(u, t) /\ AgreeBut(t, q)
            /\ \A x \in Pids : x # q => t.pcb[x] = u.pcb[x]
    <2>1. CASE q \in ToSet(s.ready)
        <3> DEFINE t == [u EXCEPT !.pcb[q].state = "TERMINATED"]
        <3>1. v = removeTerminated(t, q)
            BY <1>1, <2>1, SearchFacts DEF terminateProcess
        <3> HIDE DEF u, v
        <3>2. /\ Core(t) /\ SameLists(u, t) /\ AgreeBut(t, q)
              /\ \A x \in Pids : x # q => t.pcb[x] = u.pcb[x]
            BY <1>3, <1>5, MarkAny DEF States
        <3> HIDE DEF t
        <3> QED BY <3>1, <3>2
    <2>2. CASE q \notin ToSet(s.ready) /\ q \in ToSet(s.blocked)
        <3>1. v = removeTerminated(u, q)
            BY <1>1, <2>2, SearchFacts DEF terminateProcess
        <3> HIDE DEF u, v
        <3>2. SameLists(u, u)
            BY DEF SameLists
        <3> QED BY <3>1, <3>2, <1>3, <1>5
    <2> QED BY <2>1, <2>2
<1> HIDE DEF u, v
<1>7. PICK t : /\ v = removeTerminated(t, q) /\ Core(t) /\ SameLists(u, t) /\ AgreeBut(t, q)
               /\ \A x \in Pids : x # q => t.pcb[x] = u.pcb[x]
    BY <1>6
<1>8. q \in ToSet(t.ready) \cup ToSet(t.blocked) /\ t.ready # <<>> /\ Current(t.ready) = p
      /\ t.cpu = s.cpu /\ t.halt = s.halt /\ t.ready = u.ready /\ t.pid = s.pid
    BY <1>1, <1>3, <1>5, <1>7 DEF SameLists
<1>9. /\ Core(v) /\ Agree(v) /\ v.cpu = t.cpu /\ v.halt = t.halt /\ v.pid = t.pid
      /\ t.ready # <<>> /\ Current(t.ready) # q
            => v.ready # <<>> /\ Current(v.ready) = Current(t.ready)
    BY <1>7, <1>8, RemoveTerminatedFacts
<1>10. /\ v.pcb[q] = Free /\ \A x \in Pids : x # q => v.pcb[x] = t.pcb[x]
       /\ ToSet(v.ready) = ToSet(t.ready) \ {q}
    BY <1>7, <1>8, RemoveTerminatedFacts, ZenonT(60)
<1>11. OnCpu(v) /\ v.ready # <<>> /\ Current(v.ready) = p
    BY <1>1, <1>8, <1>9 DEF OnCpu, IInv
<1>12. \A x \in Pids : x # q => v.pcb[x] = u.pcb[x]
    BY <1>7, <1>10
<1>13. s.pcb[q].background = "FOREGROUND" =>
            v.pcb[1].background = "FOREGROUND" /\ 1 \in ToSet(v.ready)
    BY <1>4, <1>5, <1>8, <1>10, <1>12
<1>14. \A x \in ToSet(v.ready) : x # q /\ (x \in ToSet(s.ready) \/ x = 1)
    BY <1>4, <1>8, <1>10
<1>15. s.pcb[q].background # "FOREGROUND" => ToSet(v.ready) \subseteq ToSet(s.ready)
    BY <1>8, <1>10 DEF u, HandBack
<1> QED BY <1>3, <1>8, <1>9, <1>10, <1>11, <1>12, <1>13, <1>14, <1>15 DEF IInv, u, v

(* Ending any process, the caller and a foreground one included.           *)
LEMMA TerminateFacts ==
    ASSUME NEW s, IInv(s), NEW p \in Pids, s.cpu = p, NEW q \in Pids
    PROVE  IInv(terminateProcess(s, q))
<1>1. s \in KernelState /\ Current(s.ready) = p
    BY RunningFacts
<1>2. CASE q = 1
    BY <1>2 DEF terminateProcess
<1>3. CASE q # 1 /\ q = p
    <2> DEFINE u == HandBack([s EXCEPT !.pcb[p].state = "TERMINATED"], p)
    <2>1. terminateProcess(s, p) = scheduler(u) /\ Ready4Switch(u) /\ ~MemoryCollision(u)
        BY <1>3, EndSelfFacts, ZenonT(60)
    <2> HIDE DEF u
    <2> QED BY <1>3, <2>1, SchedulerFacts
<1>4. CASE q # 1 /\ q # p /\ q \in ToSet(s.ready) \cup ToSet(s.blocked)
    BY <1>4, EndOtherFacts
<1>5. CASE q # 1 /\ q # p /\ q \notin ToSet(s.ready) \cup ToSet(s.blocked)
    BY <1>1, <1>5, SearchFacts DEF terminateProcess
<1> QED BY <1>2, <1>3, <1>4, <1>5

(* A creation, with each of its three outcomes.                            *)
LEMMA CreateFacts ==
    ASSUME NEW s, Core(s), Agree(s), s.pid <= MaxPid, NEW outcome \in Outcomes
    PROVE  LET t == processCreate(s, outcome)
           IN  /\ Core(t) /\ Agree(t)
               /\ t.cpu = s.cpu /\ t.halt = s.halt
               /\ s.ready # <<>> => t.ready # <<>> /\ Current(t.ready) = Current(s.ready)
               /\ t.pid \in {s.pid, s.pid + 1}
               /\ s.pid \in Pids /\ s.pcb[s.pid].state = "FREE"
               /\ \A q \in Pids : q # s.pid => t.pcb[q] = s.pcb[q]
               /\ \/ t.pcb[s.pid] = s.pcb[s.pid]
                  \/ /\ t.pcb[s.pid].priority = MEDIUM
                     /\ t.pcb[s.pid].priorityCounter = MEDIUM
                     /\ t.pcb[s.pid].background = "BACKGROUND"
               /\ ToSet(t.ready) \subseteq ToSet(s.ready) \cup {s.pid}
<1> DEFINE t == processCreate(s, outcome)
           n == s.pid
           u == [s EXCEPT !.pid = @ + 1]
<1>1. /\ s \in KernelState /\ n \in Pids /\ n # 0 /\ n + 1 \in 1..(MaxPid + 1)
      /\ s.ready \in Seq(Pids) /\ s.blocked \in Seq(Pids)
    BY Constants1 DEF Core, KernelState, Pids
<1>2. /\ u \in KernelState /\ u.pid = n + 1
      /\ u.ready = s.ready /\ u.blocked = s.blocked /\ u.pcb = s.pcb
      /\ u.cpu = s.cpu /\ u.halt = s.halt /\ u.haltRsp = s.haltRsp
    BY <1>1 DEF KernelState
<1>3. \A p \in Pids : p < n => p < n + 1
    BY <1>1 DEF Pids
<1>4. ~(n < n)
    BY <1>1 DEF Pids
<1>5. s.pcb[n].state = "FREE"
    BY <1>1, <1>4 DEF Core, Shape
<1>6. CASE outcome = "noStack"
    BY <1>1, <1>6, <1>5 DEF processCreate
<1>7. CASE outcome = "noNode"
    <2>1. t = u
        BY <1>1, <1>7 DEF processCreate
    <2> HIDE DEF u
    <2>2. Core(u)
        BY <1>2, <1>3 DEF Core, Shape, Own
    <2>3. Agree(u)
        BY <1>2 DEF Agree, AgreeBut
    <2> QED BY <1>1, <1>2, <1>5, <2>1, <2>2, <2>3
<1>8. CASE outcome = "ok"
    <2> DEFINE c == [state |-> "READY", priority |-> MEDIUM, background |-> "BACKGROUND",
                     rsp |-> n, priorityCounter |-> MEDIUM]
               r == AddLast(s.ready, n)
    <2>1. c \in PCB /\ c.state = "READY" /\ c.rsp = n
          /\ c.priority = MEDIUM /\ c.priorityCounter = MEDIUM
          /\ c.background = "BACKGROUND"
        BY <1>1, Constants1 DEF PCB, States, Backgrounds
    <2>2. t = Relink(u, r, s.blocked, n, c)
        BY <1>1, <1>8 DEF processCreate, schedulerAddProcess, Relink, KernelState
    <2>3. n \notin ToSet(s.ready) /\ n \notin ToSet(s.blocked) /\ IsInjective(s.ready)
        BY <1>1, <1>4 DEF Core, Shape
    <2>4. /\ r \in Seq(Pids) /\ IsInjective(r) /\ ToSet(r) = ToSet(s.ready) \cup {n}
          /\ r # <<>>
          /\ s.ready # <<>> => Head(r) = Head(s.ready)
        BY <1>1, <2>3, AddLastFacts
    <2>5. ToSet(s.ready) \subseteq Pids /\ ToSet(s.blocked) \subseteq Pids
        BY <1>1, SearchFacts
    <2> HIDE DEF n, u, c, r, t
    <2>6. /\ t \in KernelState /\ t.ready = r /\ t.blocked = s.blocked /\ t.pcb[n] = c
          /\ \A q \in Pids : q # n => t.pcb[q] = s.pcb[q]
          /\ t.halt = s.halt /\ t.haltRsp = s.haltRsp /\ t.pid = n + 1 /\ t.cpu = s.cpu
        <3>1. u \in KernelState /\ n \in Pids /\ c \in PCB /\ r \in Seq(Pids)
              /\ s.blocked \in Seq(Pids)
            BY <1>1, <1>2, <2>1, <2>4
        <3>2. /\ t \in KernelState /\ t.ready = r /\ t.blocked = s.blocked /\ t.pcb[n] = c
              /\ \A q \in Pids : q # n => t.pcb[q] = u.pcb[q]
              /\ t.halt = u.halt /\ t.haltRsp = u.haltRsp /\ t.pid = u.pid /\ t.cpu = u.cpu
            BY <3>1, <2>2, NodeUpdate
        <3> QED BY <3>2, <1>2
    <2>7. Shape(t)
        <3>1. \A q \in Pids : t.pcb[q].state # "FREE"
                                <=> q \in ToSet(t.ready) \cup ToSet(t.blocked)
            BY <2>1, <2>3, <2>4, <2>6 DEF Core, Shape
        <3>2. \A q \in Pids : t.pcb[q].state # "FREE" => q < t.pid
            <4>1. n < n + 1
                BY <1>1 DEF Pids
            <4> QED BY <4>1, <1>3, <2>6 DEF Core, Shape, n
        <3> QED BY <3>1, <3>2, <2>3, <2>4, <2>6 DEF Core, Shape
    <2>8. Own(t)
        <3>1. \A q \in Pids : t.pcb[q].state # "FREE" => t.pcb[q].rsp = q
            BY <2>1, <2>6 DEF Core, Own
        <3>2. 1 \in ToSet(t.ready) \cup ToSet(t.blocked) /\ t.haltRsp = HaltProc
            BY <2>4, <2>6 DEF Core, Own
        <3> QED BY <3>1, <3>2 DEF Own
    <2>9. Agree(t)
        BY <2>1, <2>3, <2>4, <2>5, <2>6 DEF Agree, AgreeBut
    <2>10. Core(t)
        BY <2>6, <2>7, <2>8 DEF Core
    <2>11. s.ready # <<>> => t.ready # <<>> /\ Current(t.ready) = Current(s.ready)
        BY <2>4, <2>6 DEF Current
    <2>12. ToSet(t.ready) \subseteq ToSet(s.ready) \cup {n}
        BY <2>4, <2>6
    <2> QED BY <1>1, <1>5, <2>1, <2>6, <2>9, <2>10, <2>11, <2>12 DEF t, n
<1> QED BY <1>6, <1>7, <1>8 DEF Outcomes

(* main run again, on top of live lists.                                   *)
LEMMA RestartFacts ==
    ASSUME NEW s, IInv(s), NEW p \in Pids, s.cpu = p, s.pid + 1 <= MaxPid,
           NEW h \in Outcomes, NEW o \in Outcomes
    PROVE  IInv(main(s, h, o))
<1> DEFINE t == processCreate(s, h)
           u == processCreate(t, o)
           shell == IF o = "ok" THEN t.pid ELSE -1
           v == changePriority(u, shell, HIGH)
           w == setBackground(v, shell, "FOREGROUND")
           m == main(s, h, o)
<1>1. s.ready # <<>> /\ ~s.halt /\ s.pid \in Int /\ s.pid <= MaxPid
    BY RunningFacts, Constants1 DEF KernelState
<1>2. /\ Core(t) /\ Agree(t) /\ t.halt = s.halt /\ t.ready # <<>>
      /\ t.pid \in {s.pid, s.pid + 1}
    BY <1>1, CreateFacts DEF IInv
<1>3. t.pid \in Int /\ t.pid <= MaxPid
    BY <1>1, <1>2
<1> HIDE DEF t
<1>4. Core(u) /\ Agree(u) /\ u.halt = t.halt /\ u.ready # <<>>
    BY <1>2, <1>3, CreateFacts
<1>5. shell \in Int
    BY <1>3
<1> HIDE DEF u, shell
<1>6. Core(v) /\ Agree(v) /\ SameLists(u, v)
    BY <1>4, <1>5, Constants1, ChangePriorityFacts DEF Agree
<1> HIDE DEF v
<1>7. Core(w) /\ Agree(w) /\ SameLists(v, w)
    BY <1>5, <1>6, SetBackgroundFacts DEF Agree, Backgrounds
<1>8. m = [w EXCEPT !.cpu = Boot, !.idt0 = TRUE]
    BY DEF main, t, u, v, shell
<1> HIDE DEF w, m
<1>9. /\ m \in KernelState /\ m.cpu = Boot /\ m.ready = w.ready /\ m.blocked = w.blocked
      /\ m.pcb = w.pcb /\ m.halt = w.halt /\ m.haltRsp = w.haltRsp /\ m.pid = w.pid
    BY <1>7, <1>8, Constants1 DEF Core, KernelState
<1>10. Core(m)
    BY <1>7, <1>9 DEF Core, Shape, Own
<1>11. Agree(m)
    BY <1>7, <1>9 DEF Agree, AgreeBut
<1>12. OnCpu(m)
    BY <1>1, <1>2, <1>4, <1>6, <1>7, <1>9, Constants1 DEF OnCpu, SameLists
<1> QED BY <1>10, <1>11, <1>12 DEF IInv, m

(* An exception in the process on the CPU.                                 *)
LEMMA ExceptionFacts ==
    ASSUME NEW s, IInv(s), NEW p \in Pids, s.cpu = p, p = 1 => s.pid + 1 <= MaxPid,
           NEW vector, NEW h \in Outcomes, NEW o \in Outcomes
    PROVE  IInv(exceptionDispatcher(s, vector, h, o))
<1>1. s \in KernelState /\ Current(s.ready) = p
    BY RunningFacts
<1>2. CASE vector = "divideByZero" /\ ~s.idt0
    <2> DEFINE t == [s EXCEPT !.up = FALSE]
    <2>1. exceptionDispatcher(s, vector, h, o) = t
        BY <1>2 DEF exceptionDispatcher
    <2>2. IInv(t)
        BY StoppedFacts
    <2> QED BY <2>1, <2>2
<1>3. CASE ~(vector = "divideByZero" /\ ~s.idt0) /\ p # 1
    <2>1. exceptionDispatcher(s, vector, h, o) = terminateProcess(s, p)
        BY <1>1, <1>3 DEF exceptionDispatcher
    <2> QED BY <2>1, TerminateFacts
<1>4. CASE ~(vector = "divideByZero" /\ ~s.idt0) /\ p = 1
    <2>1. exceptionDispatcher(s, vector, h, o) = main(s, h, o)
        BY <1>1, <1>4 DEF exceptionDispatcher
    <2> QED BY <2>1, <1>4, RestartFacts
<1> QED BY <1>2, <1>3, <1>4

---------------------------------------------------------------------------
(* The kernel's statics before main has run: no haltProc, pid still 0.     *)
RawState == [ready : Seq(Pids), blocked : Seq(Pids), pcb : [Pids -> PCB],
             halt : BOOLEAN, firstTime : BOOLEAN, haltRsp : Contexts \cup {NULL},
             pid : Int, cpu : Contexts, idt0 : BOOLEAN, up : BOOLEAN]

(* The two creations of the first run of main leave one process, the       *)
(* shell, and haltProc.                                                    *)
LEMMA BootProcess ==
    LET t == processCreate(Loaded, "ok")
        u == processCreate(t, "ok")
    IN  /\ Core(u) /\ Agree(u) /\ u.halt = FALSE /\ u.ready # <<>> /\ t.pid = 1
        /\ u.pcb[1].priority = MEDIUM /\ u.pcb[1].priorityCounter = MEDIUM
        /\ u.blocked = <<>> /\ ToSet(u.ready) = {1}
        /\ \A p \in Pids : p # 1 => u.pcb[p] = Free
<1> DEFINE t == processCreate(Loaded, "ok")
           u == processCreate(t, "ok")
           c == [state |-> "READY", priority |-> MEDIUM, background |-> "BACKGROUND",
                 rsp |-> 1, priorityCounter |-> MEDIUM]
           e == <<>>
           pcb0 == [p \in Pids |-> Free]
           r == AddLast(e, 1)
           a == [Loaded EXCEPT !.pid = @ + 1]
           b == [t EXCEPT !.pid = @ + 1]
<1>1. e \in Seq(Pids) /\ IsInjective(e) /\ ToSet(e) = {} /\ 1 \in Pids
    BY Constants1 DEF IsInjective, ToSet
<1>2. /\ Loaded \in RawState /\ Loaded.ready = e /\ Loaded.blocked = e
      /\ Loaded.pcb = pcb0 /\ Loaded.halt = FALSE /\ Loaded.pid = 0
    BY <1>1, Constants1 DEF Loaded, RawState
<1> HIDE DEF e, pcb0
<1>3. t = [a EXCEPT !.haltRsp = HaltProc]
    <2>1. t = schedulerAddProcess(a, Loaded.pid)
        BY <1>2 DEF processCreate
    <2> QED BY <2>1, <1>2 DEF schedulerAddProcess
<1> HIDE DEF t
<1>4. /\ t \in RawState /\ t.ready = e /\ t.blocked = e /\ t.pcb = pcb0
      /\ t.halt = FALSE /\ t.pid = 1 /\ t.haltRsp = HaltProc
    <2>1. /\ a \in RawState /\ a.ready = e /\ a.blocked = e /\ a.pcb = pcb0
          /\ a.halt = FALSE /\ a.pid = 1
        BY <1>2 DEF RawState
    <2> HIDE DEF a
    <2> QED BY <2>1, <1>3, Constants1 DEF RawState
<1>5. /\ u = [b EXCEPT !.ready = r, !.pcb[1] = c]
      /\ b \in RawState /\ b.ready = e /\ b.blocked = e /\ b.pcb = pcb0
      /\ b.halt = FALSE /\ b.pid = 2 /\ b.haltRsp = HaltProc
    <2>1. /\ b \in RawState /\ b.ready = e /\ b.blocked = e /\ b.pcb = pcb0
          /\ b.halt = FALSE /\ b.pid = 2 /\ b.haltRsp = HaltProc
        BY <1>4 DEF RawState
    <2>2. u = schedulerAddProcess(b, 1)
        BY <1>4 DEF processCreate
    <2> HIDE DEF b
    <2> QED BY <2>1, <2>2 DEF schedulerAddProcess
<1> HIDE DEF b
<1>6. r \in Seq(Pids) /\ IsInjective(r) /\ ToSet(r) = {1} /\ r # <<>>
    BY <1>1, AddLastFacts
<1>7. c \in PCB /\ c.state = "READY" /\ c.rsp = 1 /\ Free \in PCB /\ Free.state = "FREE"
      /\ c.priority = MEDIUM /\ c.priorityCounter = MEDIUM
    BY Constants1 DEF PCB, States, Backgrounds, Free
<1> HIDE DEF c, r, u
<1>9. /\ u.ready = r /\ u.blocked = e /\ u.halt = FALSE
      /\ u.haltRsp = HaltProc /\ u.pid = 2 /\ 2 \in 1..(MaxPid + 1)
      /\ u.pcb = [pcb0 EXCEPT ![1] = c]
    BY <1>5, SchedulerAssumption DEF RawState
<1>10. u \in KernelState /\ u.pcb[1] = c /\ \A p \in Pids : p # 1 => u.pcb[p] = Free
    <2>1. u.pcb \in [Pids -> PCB] /\ u.pcb[1] = c /\ \A p \in Pids : p # 1 => u.pcb[p] = Free
        BY <1>1, <1>7, <1>9 DEF pcb0
    <2>2. u \in KernelState
        BY <2>1, <1>5, <1>6, <1>9, Constants1 DEF KernelState, RawState
    <2> QED BY <2>1, <2>2
<1>11. Shape(u)
    <2>1. \A p \in Pids : u.pcb[p].state # "FREE" <=> p \in ToSet(u.ready) \cup ToSet(u.blocked)
        BY <1>1, <1>6, <1>7, <1>9, <1>10
    <2>2. \A p \in Pids : u.pcb[p].state # "FREE" => p < u.pid
        BY <1>7, <1>9, <1>10
    <2> QED BY <2>1, <2>2, <1>1, <1>6, <1>9 DEF Shape
<1>12. Own(u)
    BY <1>6, <1>7, <1>9, <1>10 DEF Own
<1>13. Agree(u)
    BY <1>1, <1>6, <1>7, <1>9, <1>10 DEF Agree, AgreeBut
<1>14. Core(u)
    BY <1>10, <1>11, <1>12 DEF Core
<1>15. u.blocked = <<>> /\ u.ready # <<>> /\ ToSet(u.ready) = {1}
    BY <1>6, <1>9 DEF e
<1> QED BY <1>4, <1>7, <1>9, <1>10, <1>13, <1>14, <1>15 DEF u, t

(* The first run of main.                                                  *)
LEMMA BootFacts ==
    IInv(main(Loaded, "ok", "ok"))
<1> DEFINE t == processCreate(Loaded, "ok")
           u == processCreate(t, "ok")
           v == changePriority(u, 1, HIGH)
           w == setBackground(v, 1, "FOREGROUND")
           m == main(Loaded, "ok", "ok")
<1>1. Core(u) /\ Agree(u) /\ u.halt = FALSE /\ u.ready # <<>> /\ t.pid = 1
    BY BootProcess
<1>2. m = [w EXCEPT !.cpu = Boot, !.idt0 = TRUE]
    BY <1>1 DEF main
<1> HIDE DEF t, u
<1>3. Core(v) /\ Agree(v) /\ SameLists(u, v)
    <2>1. 1 \in Int /\ HIGH \in 0..(Word - 1) /\ AgreeBut(u, 0)
        BY <1>1, Constants1 DEF Agree
    <2> QED BY <1>1, <2>1, ChangePriorityFacts DEF Agree
<1> HIDE DEF v
<1>4. Core(w) /\ Agree(w) /\ SameLists(v, w)
    BY <1>3, SetBackgroundFacts DEF Agree, Backgrounds
<1> HIDE DEF w, m
<1>5. /\ m \in KernelState /\ m.cpu = Boot /\ m.ready = w.ready /\ m.blocked = w.blocked
      /\ m.pcb = w.pcb /\ m.halt = w.halt /\ m.haltRsp = w.haltRsp /\ m.pid = w.pid
    BY <1>2, <1>4, Constants1 DEF Core, KernelState
<1>6. Core(m)
    BY <1>4, <1>5 DEF Core, Shape, Own
<1>7. Agree(m)
    BY <1>4, <1>5 DEF Agree, AgreeBut
<1>8. OnCpu(m)
    BY <1>1, <1>3, <1>4, <1>5, Constants1 DEF OnCpu, SameLists
<1> QED BY <1>6, <1>7, <1>8 DEF IInv, m

(* A call that leaves lists, contexts and flags alone.                     *)
LEMMA QuietFacts ==
    ASSUME NEW s, IInv(s), NEW t, Core(t), Agree(t), SameLists(s, t)
    PROVE  IInv(t)
BY DEF IInv, OnCpu, SameLists

(* A creation by the process on the CPU.                                   *)
LEMMA CreateStep ==
    ASSUME NEW s, IInv(s), NEW p \in Pids, s.cpu = p, s.pid <= MaxPid, NEW o \in Outcomes
    PROVE  IInv(processCreate(s, o))
<1> DEFINE t == processCreate(s, o)
<1>1. s.ready # <<>> /\ ~s.halt
    BY RunningFacts
<1>2. /\ Core(t) /\ Agree(t) /\ t.cpu = s.cpu /\ t.halt = s.halt
      /\ t.ready # <<>> /\ Current(t.ready) = Current(s.ready)
    BY <1>1, CreateFacts DEF IInv
<1> HIDE DEF t
<1>3. OnCpu(t)
    BY <1>1, <1>2 DEF IInv, OnCpu
<1> QED BY <1>2, <1>3 DEF IInv, t

(* Every entry into the kernel, however it interleaves with the others,    *)
(* leaves a consistent state.                                              *)
LEMMA NextIInv ==
    ASSUME IInv(k), [Next]_k
    PROVE  IInv(k')
<1>1. CASE Tick
    BY <1>1, TickFacts DEF Tick
<1>2. CASE \E p \in Readers : KeyboardIrq(p)
    BY <1>2, WakeFacts, Constants1 DEF KeyboardIrq
<1>3. CASE SysYield
    BY <1>3, YieldFacts DEF SysYield, Running
<1>4. CASE SysExit
    BY <1>4, TerminateFacts DEF SysExit, Running
<1>5. CASE \E q \in Victims : SysKill(q)
    BY <1>5, TerminateFacts, Constants1 DEF SysKill, Running
<1>6. CASE \E q \in Pids : SysBlock(q)
    BY <1>6, BlockFacts DEF SysBlock, Running
<1>7. CASE \E q \in Third : SysUnblock(q)
    BY <1>7, WakeFacts, Constants1 DEF SysUnblock
<1>8. CASE \E q \in Pids, n \in Priorities : SysChangePriority(q, n)
    <2>1. PICK q \in Pids, n \in Priorities : k' = changePriority(k, q, n)
        BY <1>8 DEF SysChangePriority
    <2>2. q \in Int /\ n \in 0..(Word - 1) /\ Core(k)
        BY Constants1 DEF IInv
    <2>3. Core(k') /\ Agree(k') /\ SameLists(k, k')
        BY <2>1, <2>2, ChangePriorityFacts DEF IInv, Agree
    <2> QED BY <2>3, QuietFacts
<1>9. CASE \E q \in Consoles, b \in Backgrounds : SysSetBackground(q, b)
    <2>1. PICK q \in Consoles, b \in Backgrounds : k' = setBackground(k, q, b)
        BY <1>9 DEF SysSetBackground
    <2>2. q \in Int /\ Core(k)
        BY Constants1 DEF IInv
    <2>3. Core(k') /\ Agree(k') /\ SameLists(k, k')
        BY <2>1, <2>2, SetBackgroundFacts DEF IInv, Agree
    <2> QED BY <2>3, QuietFacts
<1>10. CASE \E outcome \in Outcomes : SysCreateProcess(outcome)
    BY <1>10, CreateStep DEF SysCreateProcess, Running
<1>11. CASE \E vector \in Vectors, h \in Outcomes, o \in Outcomes : Exception(vector, h, o)
    BY <1>11, ExceptionFacts, Constants1 DEF Exception, Running
<1>12. CASE UNCHANGED k
    BY <1>12
<1> QED
    BY <1>1, <1>2, <1>3, <1>4, <1>5, <1>6, <1>7, <1>8, <1>9, <1>10, <1>11, <1>12 DEF Next

(* The lists, the PCBs and the saved contexts are consistent after every   *)
(* entry into the kernel.                                                  *)
THEOREM Consistent ==
    Spec => []IInv(k)
<1>1. Init => IInv(k)
    BY BootFacts DEF Init
<1>2. IInv(k) /\ [Next]_k => IInv(k)'
    BY NextIInv
<1> QED BY <1>1, <1>2, PTL DEF Spec

(* Type correctness of the kernel's static data: every pid in a list has a *)
(* PCB, every counter fits a size_t and every saved stack pointer is one   *)
(* of a process, of haltProc or of the boot stack.                         *)
THEOREM TypeCorrect ==
    Spec => []TypeOK
<1>1. IInv(k) => TypeOK
    BY DEF IInv, Core, TypeOK
<1> QED BY <1>1, Consistent, PTL

(* readyList and blockedList hold each live process exactly once, in the   *)
(* list its PCB's state names (schedulerAddProcess, removeBlocked,         *)
(* unblockProcess, removeTerminated, in every interleaving of kernel       *)
(* entries).                                                               *)
THEOREM ListsCorrect ==
    Spec => []ListsAgree
<1>1. ASSUME IInv(k) PROVE ListsAgree
    <2>1. /\ k \in KernelState /\ Shape(k)
          /\ ToSet(k.ready) \subseteq Pids /\ ToSet(k.blocked) \subseteq Pids
        BY <1>1, SearchFacts DEF IInv, Core
    <2>2. \A p \in ToSet(k.ready) : k.pcb[p].state = "READY"
        BY <1>1, <2>1, Constants1 DEF IInv, Agree, AgreeBut
    <2>3. \A p \in ToSet(k.blocked) : k.pcb[p].state = "BLOCKED"
        BY <1>1, <2>1, Constants1 DEF IInv, Agree, AgreeBut
    <2>4. \A p \in Pids : k.pcb[p].state # "FREE"
                            => p \in ToSet(k.ready) \/ p \in ToSet(k.blocked)
        BY <2>1 DEF Shape
    <2>5. ToSet(k.ready) = {p \in Pids : k.pcb[p].state = "READY"}
        BY <2>1, <2>2, <2>3, <2>4
    <2>6. ToSet(k.blocked) = {p \in Pids : k.pcb[p].state = "BLOCKED"}
        BY <2>1, <2>2, <2>3, <2>4
    <2>7. \A p \in Pids : k.pcb[p].state # "TERMINATED"
        BY <2>2, <2>3, <2>4
    <2> QED BY <2>1, <2>5, <2>6, <2>7 DEF ListsAgree, Shape, Live
<1> QED BY <1>1, Consistent, PTL

(* scheduler() never stores a stack pointer into the PCB of another        *)
(* process, and the CPU always runs the current process of readyList, the  *)
(* idle context or the boot context.                                       *)
THEOREM ContextsCorrect ==
    Spec => []ContextIntegrity
<1>1. ASSUME IInv(k) PROVE ContextIntegrity
    BY <1>1 DEF IInv, Core, Own, OnCpu, ContextIntegrity, Live
<1> QED BY <1>1, Consistent, PTL

---------------------------------------------------------------------------
Alive(s, p) == s.pcb[p].state # "FREE"

(* Two PCBs that differ in the saved context and the quantum only.         *)
SameProcess(a, b) ==
    b.state = a.state /\ b.background = a.background /\ b.priority = a.priority

(* Two states in which the same processes are alive, with the same         *)
(* priorities and the same rest of their quanta.                           *)
SameQuanta(s, t) ==
    \A q \in Pids : /\ Alive(t, q) <=> Alive(s, q)
                    /\ t.pcb[q].priority = s.pcb[q].priority
                    /\ t.pcb[q].priorityCounter = s.pcb[q].priorityCounter

(* Only process p is different.                                            *)
OnlyPcb(s, t, p) == \A q \in Pids : q # p => t.pcb[q] = s.pcb[q]

---------------------------------------------------------------------------
(* The two flags scheduler() clears before it looks at the lists.          *)
Cleared(s) == [s EXCEPT !.halt = FALSE, !.firstTime = FALSE]

LeaveCpuIfAny(s) == IF s.ready = <<>> THEN s ELSE LeaveCpu(s)

(* Clearing the flags leaves everything else alone.                        *)
LEMMA ClearedFacts ==
    ASSUME NEW s, Ready4Switch(s)
    PROVE  LET u == Cleared(s)
           IN  /\ Core(u) /\ u.halt = FALSE
               /\ u.ready = s.ready /\ u.blocked = s.blocked /\ u.pcb = s.pcb
               /\ u.pid = s.pid /\ u.cpu = s.cpu /\ u.up = s.up
               /\ u.ready = <<>> => Agree(u)
               /\ u.ready # <<>> => AgreeBut(u, Current(u.ready)) /\ u.pcb[1].state # "TERMINATED"
<1> DEFINE u == Cleared(s)
<1>1. /\ u \in KernelState /\ u.ready = s.ready /\ u.blocked = s.blocked /\ u.pcb = s.pcb
      /\ u.haltRsp = s.haltRsp /\ u.pid = s.pid /\ u.halt = FALSE
      /\ u.cpu = s.cpu /\ u.up = s.up
    BY DEF Ready4Switch, Core, KernelState, Cleared
<1> HIDE DEF u
<1>2. Core(u)
    BY <1>1 DEF Ready4Switch, Core, Shape, Own
<1>3. u.ready = <<>> => Agree(u)
    BY <1>1 DEF Ready4Switch, Agree, AgreeBut
<1>4. u.ready # <<>> => AgreeBut(u, Current(u.ready)) /\ u.pcb[1].state # "TERMINATED"
    BY <1>1 DEF Ready4Switch, AgreeBut
<1> QED BY <1>1, <1>2, <1>3, <1>4 DEF u

(* scheduler() is the old process leaving and the new one taking the CPU.  *)
LEMMA TwoSteps ==
    ASSUME NEW s, Ready4Switch(s), ~MemoryCollision(s)
    PROVE  scheduler(s) = TakeCpu(LeaveCpuIfAny(Cleared(s)))
<1>1. Core(s) /\ OnCpu(s) /\ s.haltRsp # NULL
    BY Constants1 DEF Ready4Switch, Core, Own
<1>2. SaveContext(s) = s
    BY <1>1, SaveContextFacts
<1> QED BY <1>1, <1>2 DEF scheduler, Cleared, LeaveCpuIfAny

(* removeBlocked reloads the quantum of the process it moves.              *)
LEMMA RemoveBlockedPcb ==
    ASSUME NEW s, Core(s), NEW p \in ToSet(s.ready)
    PROVE  LET t == removeBlocked(s, p)
           IN  /\ OnlyPcb(s, t, p) /\ SameProcess(s.pcb[p], t.pcb[p])
               /\ t.pcb[p].priorityCounter = s.pcb[p].priority
               /\ ToSet(t.ready) = ToSet(s.ready) \ {p}
               /\ ToSet(t.blocked) = ToSet(s.blocked) \cup {p}
               /\ t.pid = s.pid
<1> DEFINE t == removeBlocked(s, p)
           c == [s.pcb[p] EXCEPT !.priorityCounter = s.pcb[p].priority]
<1>1. /\ s \in KernelState /\ s.ready \in Seq(Pids) /\ s.blocked \in Seq(Pids)
      /\ ToSet(s.ready) \subseteq Pids /\ p \in Pids
    BY SearchFacts DEF Core, KernelState
<1>2. s.pcb[p] \in PCB
    BY <1>1 DEF KernelState
<1>3. c \in PCB /\ SameProcess(s.pcb[p], c) /\ c.priorityCounter = s.pcb[p].priority
    BY <1>2 DEF PCB, SameProcess
<1>4. t = Relink(s, Unlink(s.ready, p), Push(s.blocked, p), p, c)
    BY DEF removeBlocked, Relink
<1>5. IsInjective(s.ready) /\ IsInjective(s.blocked) /\ p \notin ToSet(s.blocked)
    BY DEF Core, Shape
<1>6. Unlink(s.ready, p) \in Seq(Pids) /\ ToSet(Unlink(s.ready, p)) = ToSet(s.ready) \ {p}
    BY <1>1, <1>5, UnlinkFacts
<1>7. Push(s.blocked, p) \in Seq(Pids) /\ ToSet(Push(s.blocked, p)) = ToSet(s.blocked) \cup {p}
    BY <1>1, <1>5, PushFacts
<1> HIDE DEF c, t
<1>8. /\ t.ready = Unlink(s.ready, p) /\ t.blocked = Push(s.blocked, p) /\ t.pcb[p] = c
      /\ t.pid = s.pid /\ \A q \in Pids : q # p => t.pcb[q] = s.pcb[q]
    <2>1. /\ s \in KernelState /\ p \in Pids /\ c \in PCB
          /\ Unlink(s.ready, p) \in Seq(Pids) /\ Push(s.blocked, p) \in Seq(Pids)
        BY <1>1, <1>3, <1>6, <1>7
    <2> QED BY <2>1, <1>4, NodeUpdate
<1> QED BY <1>3, <1>6, <1>7, <1>8 DEF OnlyPcb, t

(* What becomes of the current process c when scheduler() looks at it.     *)
Left(s, t, c) ==
    /\ OnlyPcb(s, t, c) /\ t.pid = s.pid
    /\ s.pcb[c].state = "TERMINATED" =>
            /\ t.pcb[c] = Free /\ ToSet(t.ready) = ToSet(s.ready) \ {c}
            /\ ToSet(t.blocked) = ToSet(s.blocked)
    /\ s.pcb[c].state # "TERMINATED" => SameProcess(s.pcb[c], t.pcb[c])
    /\ s.pcb[c].state = "BLOCKED" =>
            /\ t.pcb[c].priorityCounter = s.pcb[c].priority
            /\ ToSet(t.ready) = ToSet(s.ready) \ {c}
            /\ ToSet(t.blocked) = ToSet(s.blocked) \cup {c}
    /\ s.pcb[c].state = "READY" => t.blocked = s.blocked
    /\ s.pcb[c].state = "READY" /\ s.pcb[c].priorityCounter = 0 =>
            /\ t.pcb[c].priorityCounter = s.pcb[c].priority /\ t.ready = Rotate(s.ready)
    /\ s.pcb[c].state = "READY" /\ s.pcb[c].priorityCounter # 0 =>
            t.pcb[c] = s.pcb[c] /\ t.ready = s.ready

(* LeaveCpu does that.                                                     *)
LEMMA LeavePcb ==
    ASSUME NEW s, Core(s), s.ready # <<>>, AgreeBut(s, Current(s.ready)),
           s.pcb[1].state # "TERMINATED"
    PROVE  /\ Left(s, LeaveCpu(s), Current(s.ready))
           /\ s.pcb[Current(s.ready)].state \in {"READY", "BLOCKED", "TERMINATED"}
           /\ Current(s.ready) \in ToSet(s.ready) /\ Current(s.ready) \in Pids
<1> DEFINE t == LeaveCpu(s)
           p == Current(s.ready)
<1>1. /\ s \in KernelState /\ s.ready \in Seq(Pids)
      /\ ToSet(s.ready) \subseteq Pids /\ ToSet(s.blocked) \subseteq Pids
      /\ p \in ToSet(s.ready)
    BY SearchFacts, ListFacts DEF Core, KernelState, Current
<1>2. p \in Pids /\ s.pcb[p] \in PCB /\ s.pcb[p].state # "FREE" /\ p \notin ToSet(s.blocked)
    BY <1>1 DEF Core, Shape, KernelState
<1>3. s.pcb[p].state \in {"READY", "BLOCKED", "TERMINATED"}
    BY <1>2 DEF PCB, States
<1>4. CASE s.pcb[p].state = "TERMINATED"
    <2>1. t = removeTerminated(s, p) /\ p # 1
        BY <1>4 DEF LeaveCpu
    <2>2. t.blocked = s.blocked
        <3>1. t = [s EXCEPT !.ready = Unlink(@, p), !.pcb[p] = Free]
            BY <2>1, <1>1, SearchFacts DEF removeTerminated
        <3> QED BY <3>1, <1>1 DEF KernelState
    <2>3. /\ t.pcb[p] = Free /\ \A q \in Pids : q # p => t.pcb[q] = s.pcb[q]
          /\ ToSet(t.ready) = ToSet(s.ready) \ {p} /\ t.pid = s.pid
        BY <2>1, <1>1, RemoveTerminatedFacts
    <2> HIDE DEF t, p
    <2> QED BY <2>2, <2>3, <1>1, <1>2, <1>4 DEF Left, OnlyPcb, t, p
<1>5. CASE s.pcb[p].state = "BLOCKED"
    <2>1. t = removeBlocked(s, p)
        BY <1>5 DEF LeaveCpu
    <2>2. /\ OnlyPcb(s, t, p) /\ SameProcess(s.pcb[p], t.pcb[p])
          /\ t.pcb[p].priorityCounter = s.pcb[p].priority
          /\ ToSet(t.ready) = ToSet(s.ready) \ {p}
          /\ ToSet(t.blocked) = ToSet(s.blocked) \cup {p} /\ t.pid = s.pid
        <3> HIDE DEF t, p
        <3> QED BY <2>1, <1>1, RemoveBlockedPcb, ZenonT(60)
    <2> HIDE DEF t, p
    <2> QED BY <2>2, <1>1, <1>2, <1>5 DEF Left, t, p
<1>6. CASE s.pcb[p].state = "READY" /\ s.pcb[p].priorityCounter = 0
    <2> DEFINE c == [s.pcb[p] EXCEPT !.priorityCounter = s.pcb[p].priority]
               r == Rotate(s.ready)
    <2>1. c \in PCB /\ SameProcess(s.pcb[p], c) /\ c.priorityCounter = s.pcb[p].priority
        BY <1>2 DEF PCB, SameProcess
    <2>2. t = Relink(s, r, s.blocked, p, c)
        BY <1>1, <1>2, <1>6 DEF LeaveCpu, Relink, KernelState
    <2>3. r \in Seq(Pids) /\ s.blocked \in Seq(Pids)
        BY <1>1, RotateFacts DEF Core, Shape, KernelState
    <2> HIDE DEF c, r, t, p
    <2>4. /\ t.ready = r /\ t.blocked = s.blocked /\ t.pcb[p] = c /\ t.pid = s.pid
          /\ \A q \in Pids : q # p => t.pcb[q] = s.pcb[q]
        <3>1. s \in KernelState /\ p \in Pids /\ c \in PCB /\ r \in Seq(Pids)
            BY <1>1, <1>2, <2>1, <2>3
        <3> QED BY <3>1, <2>2, <2>3, NodeUpdate
    <2> QED BY <2>1, <2>4, <1>1, <1>2, <1>6 DEF Left, OnlyPcb, t, p, r
<1>7. CASE s.pcb[p].state = "READY" /\ s.pcb[p].priorityCounter # 0
    <2>1. t = s
        BY <1>7 DEF LeaveCpu
    <2> QED BY <2>1, <1>1, <1>2, <1>7 DEF Left, OnlyPcb, SameProcess
<1> QED BY <1>3, <1>4, <1>5, <1>6, <1>7

(* The process that takes the CPU is h, or none is ready.                  *)
Took(s, t, h) ==
    /\ t.ready = s.ready /\ t.blocked = s.blocked /\ t.pid = s.pid
    /\ s.ready = <<>> => t.pcb = s.pcb /\ t.halt = TRUE /\ t.cpu = HaltProc
    /\ s.ready # <<>> =>
            /\ h \in ToSet(s.ready) /\ h \in Pids
            /\ t.cpu = h /\ t.halt = s.halt
            /\ OnlyPcb(s, t, h) /\ SameProcess(s.pcb[h], t.pcb[h])
            /\ t.pcb[h].priorityCounter = (s.pcb[h].priorityCounter - 1) % Word

(* One tick is charged to the process that takes the CPU.                  *)
LEMMA TakePcb ==
    ASSUME NEW s, Core(s)
    PROVE  Took(s, TakeCpu(s), Current(s.ready))
<1> DEFINE t == TakeCpu(s)
           p == Current(s.ready)
<1>1. s \in KernelState /\ s.ready \in Seq(Pids) /\ s.haltRsp = HaltProc
    BY DEF Core, KernelState, Own
<1>2. CASE s.ready = <<>>
    <2>1. t = [s EXCEPT !.halt = TRUE, !.cpu = s.haltRsp]
        BY <1>2 DEF TakeCpu
    <2>2. t.pcb = s.pcb /\ t.halt = TRUE /\ t.cpu = HaltProc /\ t.ready = s.ready /\ t.blocked = s.blocked
          /\ t.pid = s.pid
        BY <1>1, <2>1 DEF KernelState
    <2> QED BY <2>2, <1>2 DEF Took
<1>3. CASE s.ready # <<>>
    <2> DEFINE c == [s.pcb[p] EXCEPT !.priorityCounter = (@ - 1) % Word]
               u == [s EXCEPT !.pcb[p] = c]
    <2>1. p \in ToSet(s.ready) /\ p \in Pids /\ s.pcb[p] \in PCB
        BY <1>1, <1>3, ListFacts DEF Current, KernelState
    <2>2. s.pcb[p].rsp = p
        BY <2>1 DEF Core, Shape, Own
    <2>3. (s.pcb[p].priorityCounter - 1) % Word \in 0..(Word - 1)
        BY <2>1, ModFact DEF PCB
    <2>4. /\ c \in PCB /\ SameProcess(s.pcb[p], c)
          /\ c.priorityCounter = (s.pcb[p].priorityCounter - 1) % Word
        BY <2>1, <2>3 DEF PCB, SameProcess
    <2>5. t = [u EXCEPT !.cpu = p]
        BY <1>1, <1>3, <2>1, <2>2 DEF TakeCpu, KernelState, PCB
    <2> HIDE DEF c, p
    <2>6. /\ u \in KernelState /\ SameLists(s, u) /\ u.pcb[p] = c
          /\ \A q \in Pids : q # p => u.pcb[q] = s.pcb[q]
        BY <1>1, <2>1, <2>4, PcbUpdate
    <2> HIDE DEF u, t
    <2>7. /\ t.cpu = p /\ t.halt = u.halt /\ t.pcb = u.pcb
          /\ t.ready = u.ready /\ t.blocked = u.blocked /\ t.pid = u.pid
        BY <2>1, <2>5, <2>6, Constants1 DEF KernelState
    <2> QED BY <1>3, <2>1, <2>4, <2>6, <2>7 DEF Took, OnlyPcb, SameLists, t, p
<1> QED BY <1>2, <1>3

(* The state between the two halves of scheduler().                        *)
Between(s) == LeaveCpuIfAny(Cleared(s))

(* A context switch.                                                       *)
LEMMA SwitchSteps ==
    ASSUME NEW s, Ready4Switch(s), ~MemoryCollision(s)
    PROVE  LET l == Between(s)
               t == scheduler(s)
               c == Current(s.ready)
           IN  /\ IInv(t) /\ Core(l) /\ Agree(l) /\ l.halt = FALSE
               /\ s.ready = <<>> => l.pcb = s.pcb /\ l.ready = <<>> /\ l.blocked = s.blocked
               /\ l.pid = s.pid
               /\ s.ready # <<>> =>
                    /\ Left(s, l, c) /\ c \in ToSet(s.ready) /\ c \in Pids
                    /\ s.pcb[c].state \in {"READY", "BLOCKED", "TERMINATED"}
               /\ Took(l, t, Current(l.ready))
<1> DEFINE u == Cleared(s)
           l == Between(s)
           t == scheduler(s)
<1>1. /\ Core(u) /\ u.halt = FALSE
      /\ u.ready = s.ready /\ u.blocked = s.blocked /\ u.pcb = s.pcb /\ u.pid = s.pid
      /\ u.ready = <<>> => Agree(u)
      /\ u.ready # <<>> => AgreeBut(u, Current(u.ready)) /\ u.pcb[1].state # "TERMINATED"
    BY ClearedFacts
<1>2. t = TakeCpu(l)
    BY TwoSteps DEF Between
<1>3. l = IF u.ready = <<>> THEN u ELSE LeaveCpu(u)
    BY DEF Between, LeaveCpuIfAny
<1>4. IInv(t)
    BY SchedulerFacts
<1> HIDE DEF u, l, t
<1>5. Core(l) /\ Agree(l) /\ l.halt = FALSE
    <2>1. CASE u.ready = <<>>
        BY <1>1, <1>3, <2>1
    <2>2. CASE u.ready # <<>>
        BY <1>1, <1>3, <2>2, LeaveCpuFacts
    <2> QED BY <2>1, <2>2
<1>6. s.ready = <<>> => l.pcb = s.pcb /\ l.ready = <<>> /\ l.blocked = s.blocked
    BY <1>1, <1>3
<1>7. ASSUME s.ready # <<>>
      PROVE  LET c == Current(s.ready)
             IN  /\ Left(s, l, c) /\ c \in ToSet(s.ready) /\ c \in Pids
                 /\ s.pcb[c].state \in {"READY", "BLOCKED", "TERMINATED"}
    <2> DEFINE c == Current(s.ready)
    <2>1. /\ Left(u, LeaveCpu(u), Current(u.ready))
          /\ u.pcb[Current(u.ready)].state \in {"READY", "BLOCKED", "TERMINATED"}
          /\ Current(u.ready) \in ToSet(u.ready) /\ Current(u.ready) \in Pids
        BY <1>1, <1>7, LeavePcb
    <2>2. l = LeaveCpu(u) /\ Current(u.ready) = c
        BY <1>1, <1>3, <1>7
    <2> HIDE DEF c
    <2>3. Left(u, l, c) => Left(s, l, c)
        BY <1>1 DEF Left, OnlyPcb
    <2> QED BY <2>1, <2>2, <2>3, <1>1 DEF c
<1>8. l.pid = s.pid
    <2>1. CASE s.ready = <<>>
        BY <1>1, <1>3, <2>1
    <2>2. CASE s.ready # <<>>
        BY <1>7, <2>2 DEF Left
    <2> QED BY <2>1, <2>2
<1>9. Took(l, t, Current(l.ready))
    BY <1>2, <1>5, TakePcb
<1> QED BY <1>4, <1>5, <1>6, <1>7, <1>8, <1>9 DEF l, t

---------------------------------------------------------------------------
(* Every live process but c has a tick left, and none has more ticks than  *)
(* its priority.                                                           *)
Timed(s, c) ==
    \A q \in Pids : Alive(s, q) =>
        /\ s.pcb[q].priority >= 1
        /\ s.pcb[q].priorityCounter <= s.pcb[q].priority
        /\ q # c => s.pcb[q].priorityCounter >= 1

(* The strengthening of QuantumBounded that is inductive.                  *)
QInv(s) == Timed(s, IF s.halt THEN 0 ELSE Current(s.ready))

(* The counters are numbers.                                               *)
LEMMA CounterType ==
    ASSUME NEW s \in KernelState, NEW q \in Pids
    PROVE  /\ s.pcb[q] \in PCB
           /\ s.pcb[q].priority \in Nat /\ s.pcb[q].priorityCounter \in Nat
           /\ s.pcb[q].priority < Word /\ s.pcb[q].priorityCounter < Word
<1>1. s.pcb[q] \in PCB /\ Word \in Nat
    BY Constants1 DEF KernelState
<1> QED BY <1>1 DEF PCB

(* After the current process has left, every live process has a tick, and  *)
(* the one that takes the CPU is charged one: the counter does not wrap.   *)
LEMMA TimedSwitch ==
    ASSUME NEW s, Ready4Switch(s), ~MemoryCollision(s),
           s.ready = <<>> => Timed(s, 0),
           s.ready # <<>> => Timed(s, Current(s.ready))
    PROVE  QInv(scheduler(s))
<1> DEFINE l == Between(s)
           t == scheduler(s)
           c == Current(s.ready)
           h == Current(l.ready)
<1>1. /\ Core(l) /\ l.halt = FALSE
      /\ s.ready = <<>> => l.pcb = s.pcb /\ l.ready = <<>>
      /\ s.ready # <<>> => /\ Left(s, l, c) /\ c \in Pids
                           /\ s.pcb[c].state \in {"READY", "BLOCKED", "TERMINATED"}
      /\ Took(l, t, h)
    BY SwitchSteps
<1>2. s \in KernelState /\ l \in KernelState
    BY <1>1 DEF Ready4Switch, Core
<1> HIDE DEF l, t, c, h
<1>3. Timed(l, 0)
    <2>1. CASE s.ready = <<>>
        BY <2>1, <1>1 DEF Timed, Alive
    <2>2. CASE s.ready # <<>>
        <3> SUFFICES ASSUME NEW q \in Pids, Alive(l, q)
                     PROVE  /\ l.pcb[q].priority >= 1
                            /\ l.pcb[q].priorityCounter <= l.pcb[q].priority
                            /\ l.pcb[q].priorityCounter >= 1
            BY DEF Timed
        <3>0. Timed(s, c)
            BY <2>2 DEF c
        <3>1. CASE q # c
            <4>1. l.pcb[q] = s.pcb[q]
                BY <2>2, <3>1, <1>1 DEF Left, OnlyPcb
            <4> QED BY <3>0, <3>1, <4>1 DEF Timed, Alive
        <3>2. CASE q = c
            <4>1. s.pcb[c].state # "TERMINATED"
                BY <2>2, <3>2, <1>1 DEF Left, Alive, Free
            <4>2. SameProcess(s.pcb[c], l.pcb[c])
                BY <2>2, <4>1, <1>1 DEF Left
            <4>3. /\ s.pcb[c].priority >= 1
                  /\ s.pcb[c].priorityCounter <= s.pcb[c].priority
                BY <3>0, <3>2, <4>2 DEF Timed, Alive, SameProcess
            <4>4. \/ l.pcb[c].priorityCounter = s.pcb[c].priority
                  \/ l.pcb[c].priorityCounter = s.pcb[c].priorityCounter /\ s.pcb[c].priorityCounter # 0
                BY <2>2, <4>1, <1>1 DEF Left
            <4>5. s.pcb[c].priorityCounter \in Nat /\ s.pcb[c].priority \in Nat
                BY <3>2, <1>2, CounterType
            <4> QED BY <3>2, <4>2, <4>3, <4>4, <4>5 DEF SameProcess
        <3> QED BY <3>1, <3>2
    <2> QED BY <2>1, <2>2
<1>4. CASE l.ready = <<>>
    <2>1. t.pcb = l.pcb /\ t.halt = TRUE
        BY <1>1, <1>4 DEF Took
    <2> QED BY <2>1, <1>3 DEF QInv, Timed, Alive, t
<1>5. CASE l.ready # <<>>
    <2>1. /\ t.ready = l.ready /\ t.halt = FALSE /\ h \in Pids
          /\ OnlyPcb(l, t, h) /\ SameProcess(l.pcb[h], t.pcb[h])
          /\ t.pcb[h].priorityCounter = (l.pcb[h].priorityCounter - 1) % Word
        BY <1>1, <1>5 DEF Took
    <2>2. /\ l.pcb[h].priorityCounter \in Nat /\ l.pcb[h].priority \in Nat
          /\ l.pcb[h].priorityCounter < Word /\ Word \in Nat
        BY <2>1, <1>2, CounterType, Constants1
    <2>3. Timed(t, h)
        <3> SUFFICES ASSUME NEW q \in Pids, Alive(t, q)
                     PROVE  /\ t.pcb[q].priority >= 1
                            /\ t.pcb[q].priorityCounter <= t.pcb[q].priority
                            /\ q # h => t.pcb[q].priorityCounter >= 1
            BY DEF Timed
        <3>1. CASE q # h
            <4>1. t.pcb[q] = l.pcb[q] /\ q # 0
                BY <2>1, <3>1, Constants1 DEF OnlyPcb
            <4> QED BY <4>1, <1>3 DEF Timed, Alive
        <3>2. CASE q = h
            <4>1. /\ l.pcb[h].priority >= 1 /\ l.pcb[h].priorityCounter >= 1
                  /\ l.pcb[h].priorityCounter <= l.pcb[h].priority
                BY <2>1, <3>2, <1>3, Constants1 DEF Timed, Alive, SameProcess
            <4>2. (l.pcb[h].priorityCounter - 1) % Word = l.pcb[h].priorityCounter - 1
                BY <2>2, <4>1
            <4>3. t.pcb[h].priority = l.pcb[h].priority
                BY <2>1 DEF SameProcess
            <4>4. t.pcb[h].priorityCounter <= l.pcb[h].priority
                BY <2>1, <2>2, <4>1, <4>2, SMTT(40)
            <4> QED BY <3>2, <4>1, <4>3, <4>4
        <3> QED BY <3>1, <3>2
    <2> QED BY <2>1, <2>3 DEF QInv, t, h
<1> QED BY <1>4, <1>5

(* The turn passes on when the quantum of the current process is used up.  *)
LEMMA RotateHead ==
    ASSUME NEW S, NEW s \in Seq(S), IsInjective(s), Len(s) > 1
    PROVE  /\ Rotate(s) # <<>> /\ Head(Rotate(s)) = s[2]
           /\ s # <<>> /\ Head(s) = s[1] /\ s[2] # s[1]
<1>1. Len(s) \in Nat /\ s # <<>> /\ Head(s) = s[1] /\ 1 \in DOMAIN s /\ 2 \in DOMAIN s
    OBVIOUS
<1>2. s[2] # s[1]
    BY <1>1 DEF IsInjective
<1>3. Rotate(s) # <<>> /\ Head(Rotate(s)) = s[2]
    BY <1>1 DEF Rotate
<1> QED BY <1>1, <1>2, <1>3

(* A process that has the CPU before and after a switch, while another one *)
(* was ready, was not marked to leave and was charged a tick.              *)
LEMMA SwitchNoGain ==
    ASSUME NEW s, Ready4Switch(s), ~MemoryCollision(s), Len(s.ready) > 1,
           scheduler(s).cpu = Current(s.ready)
    PROVE  LET c == Current(s.ready)
           IN  /\ s.pcb[c].state = "READY" /\ s.pcb[c].priorityCounter # 0
               /\ scheduler(s).pcb[c].priorityCounter <= s.pcb[c].priorityCounter
<1> DEFINE l == Between(s)
           t == scheduler(s)
           c == Current(s.ready)
           h == Current(l.ready)
<1>1. /\ s \in KernelState /\ s.ready \in Seq(Pids) /\ IsInjective(s.ready)
    BY DEF Ready4Switch, Core, KernelState, Shape
<1>2. s.ready # <<>> /\ c = s.ready[1] /\ s.ready[2] # s.ready[1]
      /\ Head(Rotate(s.ready)) = s.ready[2]
    BY <1>1, RotateHead DEF Current
<1>3. /\ Left(s, l, c) /\ c \in Pids
      /\ s.pcb[c].state \in {"READY", "BLOCKED", "TERMINATED"}
      /\ Took(l, t, h)
    BY <1>2, SwitchSteps
<1>4. t.cpu = c /\ c # HaltProc
    BY <1>3, Constants1
<1>5. h = Head(l.ready)
    BY DEF Current
<1> HIDE DEF l, t, c, h
<1>6. l.ready # <<>> /\ h = c /\ h \in ToSet(l.ready)
    BY <1>3, <1>4 DEF Took
<1>7. s.pcb[c].state = "READY"
    BY <1>3, <1>6 DEF Left
<1>8. s.pcb[c].priorityCounter # 0
    <2>1. s.pcb[c].priorityCounter = 0 => h = s.ready[2]
        BY <1>2, <1>3, <1>5, <1>7 DEF Left
    <2> QED BY <2>1, <1>2, <1>6
<1>9. l.pcb[c] = s.pcb[c]
    BY <1>3, <1>7, <1>8 DEF Left
<1>10. t.pcb[c].priorityCounter = (s.pcb[c].priorityCounter - 1) % Word
    BY <1>3, <1>6, <1>9 DEF Took
<1>11. s.pcb[c].priorityCounter \in Nat /\ s.pcb[c].priorityCounter < Word /\ Word \in Nat
    BY <1>1, <1>3, CounterType, Constants1
<1>12. (s.pcb[c].priorityCounter - 1) % Word <= s.pcb[c].priorityCounter
    BY <1>8, <1>11
<1> QED BY <1>7, <1>8, <1>10, <1>12 DEF t, c

---------------------------------------------------------------------------
(* What each step must satisfy.  No gain for the process on the CPU:       *)
NoGain(s, t) ==
    s.cpu \in Pids /\ t.cpu = s.cpu /\ Len(s.ready) > 1 /\ Len(t.ready) > 1
        => t.pcb[s.cpu].priorityCounter <= s.pcb[s.cpu].priorityCounter

(* and no foreground process ends but the shell takes over.                *)
Handed(s, t) ==
    \A p \in Pids : Alive(s, p) /\ s.pcb[p].background = "FOREGROUND" /\ ~Alive(t, p)
        => t.pcb[1].background = "FOREGROUND" /\ 1 \in ToSet(t.ready)

(* A call that leaves the quanta, the current process and `halt' alone.    *)
LEMMA QuietQuanta ==
    ASSUME NEW s, IInv(s), NEW t, SameQuanta(s, t), t.halt = s.halt,
           s.ready # <<>> => Current(t.ready) = Current(s.ready)
    PROVE  (QInv(s) => QInv(t)) /\ NoGain(s, t) /\ Handed(s, t)
<1>1. QInv(s) => QInv(t)
    <2>1. ~s.halt => s.ready # <<>>
        BY DEF IInv, OnCpu
    <2> DEFINE c == IF s.halt THEN 0 ELSE Current(s.ready)
    <2>2. (IF t.halt THEN 0 ELSE Current(t.ready)) = c
        BY <2>1
    <2> HIDE DEF c
    <2>3. Timed(s, c) => Timed(t, c)
        BY DEF Timed, SameQuanta
    <2> QED BY <2>2, <2>3 DEF QInv, c
<1>2. NoGain(s, t)
    <2>1. s \in KernelState
        BY DEF IInv, Core
    <2>2. ASSUME NEW c \in Pids PROVE t.pcb[c].priorityCounter <= s.pcb[c].priorityCounter
        <3>1. s.pcb[c].priorityCounter \in Nat
            BY <2>1, CounterType
        <3>2. t.pcb[c].priorityCounter = s.pcb[c].priorityCounter
            BY DEF SameQuanta
        <3> QED BY <3>1, <3>2
    <2> QED BY <2>2 DEF NoGain
<1>3. Handed(s, t)
    BY DEF Handed, SameQuanta
<1> QED BY <1>1, <1>2, <1>3

(* setBackground and unblockProcess are such calls, and so is HandBack,    *)
(* which makes both.                                                       *)
LEMMA SetBackgroundQuanta ==
    ASSUME NEW s, Core(s), NEW p \in Int, NEW b \in Backgrounds
    PROVE  SameQuanta(s, setBackground(s, p, b))
<1> DEFINE t == setBackground(s, p, b)
           c == [s.pcb[p] EXCEPT !.background = b]
<1>1. s \in KernelState /\ (searchNode(s, p) => p \in Pids /\ s.pcb[p] \in PCB)
    BY SearchFacts DEF Core, KernelState, searchNode
<1>2. CASE searchNode(s, p)
    <2>1. t = [s EXCEPT !.pcb[p] = c]
        BY <1>2 DEF setBackground
    <2>2. /\ c \in PCB /\ c.state = s.pcb[p].state /\ c.priority = s.pcb[p].priority
          /\ c.priorityCounter = s.pcb[p].priorityCounter
        BY <1>1, <1>2 DEF PCB
    <2> HIDE DEF c, t
    <2>3. t.pcb[p] = c /\ \A q \in Pids : q # p => t.pcb[q] = s.pcb[q]
        <3>1. p \in Pids /\ c \in PCB
            BY <1>1, <1>2, <2>2
        <3> QED BY <1>1, <2>1, <3>1, PcbUpdate
    <2> QED BY <2>2, <2>3 DEF SameQuanta, Alive, t
<1>3. CASE ~searchNode(s, p)
    BY <1>3 DEF setBackground, SameQuanta
<1> QED BY <1>2, <1>3

(* Waking a process changes its state, and no quantum.                     *)
LEMMA UnblockQuanta ==
    ASSUME NEW s, Core(s), NEW p \in Pids
    PROVE  SameQuanta(s, unblockProcess(s, p))
<1> DEFINE t == unblockProcess(s, p)
           d == [s.pcb[p] EXCEPT !.state = "READY"]
           r == AddNext(s.ready, p)
           b == Unlink(s.blocked, p)
<1>1. /\ s \in KernelState /\ s.ready \in Seq(Pids) /\ s.blocked \in Seq(Pids)
      /\ s.pcb[p] \in PCB
    BY DEF Core, KernelState
<1>2. CASE p \in ToSet(s.blocked)
    <2>1. /\ d \in PCB /\ d.state = "READY" /\ d.priority = s.pcb[p].priority
          /\ d.priorityCounter = s.pcb[p].priorityCounter
        BY <1>1 DEF PCB, States
    <2>2. t = Relink(s, r, b, p, d)
        BY <1>1, <1>2, SearchFacts DEF unblockProcess, KernelState, Relink
    <2>3. /\ IsInjective(s.ready) /\ IsInjective(s.blocked) /\ p \notin ToSet(s.ready)
          /\ s.pcb[p].state # "FREE"
        BY <1>2 DEF Core, Shape
    <2>4. b \in Seq(Pids)
        BY <1>1, <1>2, <2>3, UnlinkFacts
    <2>5. r \in Seq(Pids)
        BY <1>1, <2>3, AddNextFacts
    <2> HIDE DEF d, r, b, t
    <2>6. t.pcb[p] = d /\ \A q \in Pids : q # p => t.pcb[q] = s.pcb[q]
        <3>1. s \in KernelState /\ d \in PCB /\ r \in Seq(Pids) /\ b \in Seq(Pids)
            BY <1>1, <2>1, <2>4, <2>5
        <3> QED BY <3>1, <2>2, NodeUpdate
    <2> QED BY <2>1, <2>3, <2>6 DEF SameQuanta, Alive, t
<1>3. CASE p \notin ToSet(s.blocked)
    <2>1. t = s
        BY <1>1, <1>3, SearchFacts DEF unblockProcess
    <2> QED BY <2>1 DEF SameQuanta
<1> QED BY <1>2, <1>3

(* One call after the other.                                               *)
LEMMA QuantaChain ==
    ASSUME NEW s, NEW t, NEW u, SameQuanta(s, t), SameQuanta(t, u)
    PROVE  SameQuanta(s, u)
BY DEF SameQuanta

(* Handing the console back changes no quantum.                            *)
LEMMA HandBackQuanta ==
    ASSUME NEW s, Core(s), NEW p \in Pids
    PROVE  SameQuanta(s, HandBack(s, p))
<1>1. CASE s.pcb[p].background = "FOREGROUND"
    <2> DEFINE u == setBackground(s, 1, "FOREGROUND")
    <2>1. HandBack(s, p) = unblockProcess(u, 1)
        BY <1>1 DEF HandBack
    <2>2. 1 \in Pids /\ 1 \in Int /\ "FOREGROUND" \in Backgrounds
        BY Constants1 DEF Backgrounds
    <2>3. Core(u) /\ SameQuanta(s, u)
        BY <2>2, SetBackgroundFacts, SetBackgroundQuanta
    <2> HIDE DEF u
    <2>4. SameQuanta(u, unblockProcess(u, 1))
        BY <2>2, <2>3, UnblockQuanta
    <2> QED BY <2>1, <2>3, <2>4, QuantaChain
<1>2. CASE s.pcb[p].background # "FOREGROUND"
    BY <1>2 DEF HandBack, SameQuanta
<1> QED BY <1>1, <1>2

(* Marking a process that is in a list.                                    *)
LEMMA MarkQuanta ==
    ASSUME NEW s, Core(s), NEW p \in Pids, Alive(s, p), NEW x \in States, x # "FREE"
    PROVE  LET t == [s EXCEPT !.pcb[p].state = x]
           IN  SameQuanta(s, t) /\ t.pcb[p].state = x /\ t.pcb[p].background = s.pcb[p].background
<1> DEFINE c == [s.pcb[p] EXCEPT !.state = x]
           t == [s EXCEPT !.pcb[p].state = x]
<1>1. s \in KernelState /\ s.pcb[p] \in PCB
    BY DEF Core, KernelState
<1>2. /\ c \in PCB /\ c.state = x /\ c.priority = s.pcb[p].priority
      /\ c.priorityCounter = s.pcb[p].priorityCounter /\ c.background = s.pcb[p].background
    BY <1>1 DEF PCB
<1>3. t = [s EXCEPT !.pcb[p] = c]
    OBVIOUS
<1> HIDE DEF c, t
<1>4. t.pcb[p] = c /\ \A q \in Pids : q # p => t.pcb[q] = s.pcb[q]
    BY <1>1, <1>2, <1>3, PcbUpdate
<1> QED BY <1>2, <1>4 DEF SameQuanta, Alive, t

---------------------------------------------------------------------------
(* Who is alive and ready after a switch.                                  *)
LEMMA SwitchLive ==
    ASSUME NEW s, Ready4Switch(s), ~MemoryCollision(s)
    PROVE  LET t == scheduler(s)
               c == Current(s.ready)
           IN  /\ \A q \in Pids : Alive(s, q) /\ ~Alive(t, q) =>
                        s.ready # <<>> /\ q = c /\ s.pcb[q].state = "TERMINATED"
               /\ \A q \in Pids : q # c => t.pcb[q].background = s.pcb[q].background
               /\ \A q \in ToSet(s.ready) : q # c => q \in ToSet(t.ready)
               /\ s.ready # <<>> /\ s.pcb[c].state # "READY" => t.cpu # c
<1> DEFINE l == Between(s)
           t == scheduler(s)
           c == Current(s.ready)
           h == Current(l.ready)
<1>1. /\ Core(l)
      /\ s.ready = <<>> => l.pcb = s.pcb /\ l.ready = <<>> /\ l.blocked = s.blocked
      /\ s.ready # <<>> =>
            /\ Left(s, l, c) /\ c \in ToSet(s.ready) /\ c \in Pids
            /\ s.pcb[c].state \in {"READY", "BLOCKED", "TERMINATED"}
      /\ Took(l, t, h)
    BY SwitchSteps
<1>2. s.ready # <<>> => s.ready \in Seq(Pids) /\ IsInjective(s.ready)
    BY DEF Ready4Switch, Core, KernelState, Shape
<1> HIDE DEF l, t, c, h
<1>3. /\ t.ready = l.ready
      /\ \A q \in Pids : /\ t.pcb[q].state = l.pcb[q].state
                         /\ t.pcb[q].background = l.pcb[q].background
    <2>1. CASE l.ready = <<>>
        BY <2>1, <1>1 DEF Took
    <2>2. CASE l.ready # <<>>
        BY <2>2, <1>1 DEF Took, OnlyPcb, SameProcess
    <2> QED BY <2>1, <2>2
<1>4. CASE s.ready = <<>>
    <2>1. ToSet(s.ready) = {}
        BY <1>4 DEF ToSet
    <2>2. l.pcb = s.pcb
        BY <1>1, <1>4
    <2>3. \A q \in Pids : Alive(s, q) => Alive(t, q)
        BY <1>3, <2>2 DEF Alive
    <2>4. \A q \in Pids : t.pcb[q].background = s.pcb[q].background
        BY <1>3, <2>2
    <2> QED BY <2>1, <2>3, <2>4, <1>4 DEF t, c
<1>5. CASE s.ready # <<>>
    <2>1. \A q \in Pids : q # c => l.pcb[q] = s.pcb[q]
        BY <1>1, <1>5 DEF Left, OnlyPcb
    <2>2. s.pcb[c].state # "TERMINATED" => l.pcb[c].state = s.pcb[c].state
        BY <1>1, <1>5 DEF Left, SameProcess
    <2>3. \A q \in Pids : Alive(s, q) /\ ~Alive(l, q) => q = c /\ s.pcb[q].state = "TERMINATED"
        BY <2>1, <2>2 DEF Alive
    <2>4. \A q \in ToSet(s.ready) : q # c => q \in ToSet(l.ready)
        <3>1. ToSet(Rotate(s.ready)) = ToSet(s.ready)
            BY <1>2, <1>5, RotateFacts
        <3> QED BY <3>1, <1>1, <1>5 DEF Left
    <2>5. s.pcb[c].state # "READY" => t.cpu # c
        <3> SUFFICES ASSUME s.pcb[c].state # "READY" PROVE t.cpu # c
            OBVIOUS
        <3>1. c \notin ToSet(l.ready)
            BY <1>1, <1>5 DEF Left
        <3>2. t.cpu = HaltProc \/ t.cpu \in ToSet(l.ready)
            BY <1>1 DEF Took
        <3> QED BY <3>1, <3>2, <1>1, <1>5, Constants1
    <2>6. \A q \in Pids : Alive(s, q) /\ ~Alive(t, q) => q = c /\ s.pcb[q].state = "TERMINATED"
        BY <2>3, <1>3 DEF Alive
    <2>7. \A q \in Pids : q # c => t.pcb[q].background = s.pcb[q].background
        BY <2>1, <1>3
    <2>8. \A q \in ToSet(s.ready) : q # c => q \in ToSet(t.ready)
        BY <2>4, <1>3
    <2> QED BY <2>5, <2>6, <2>7, <2>8, <1>5 DEF t, c
<1> QED BY <1>4, <1>5

(* The process on the CPU is marked BLOCKED or TERMINATED and switches.    *)
LEMMA LeavingSwitch ==
    ASSUME NEW s, IInv(s), NEW p \in Pids, s.cpu = p,
           NEW u, Ready4Switch(u), ~MemoryCollision(u), SameQuanta(s, u),
           u.ready # <<>>, Current(u.ready) = p, u.pcb[p].state # "READY"
    PROVE  (QInv(s) => QInv(scheduler(u))) /\ NoGain(s, scheduler(u))
<1>1. Current(s.ready) = p /\ ~s.halt
    BY RunningFacts
<1>2. scheduler(u).cpu # p
    BY SwitchLive
<1>3. QInv(s) => Timed(u, p)
    BY <1>1 DEF QInv, Timed, SameQuanta
<1>4. QInv(s) => QInv(scheduler(u))
    BY <1>3, TimedSwitch
<1> QED BY <1>2, <1>4 DEF NoGain

(* A timer tick.                                                           *)
LEMMA TickQuanta ==
    ASSUME NEW s, IInv(s)
    PROVE  /\ QInv(s) => QInv(scheduler(s))
           /\ NoGain(s, scheduler(s)) /\ Handed(s, scheduler(s))
<1>1. Ready4Switch(s) /\ s \in KernelState /\ s.ready \in Seq(Pids) /\ s.haltRsp # NULL
    BY IInvSwitch, Constants1 DEF IInv, Core, KernelState, Own
<1>2. CASE MemoryCollision(s)
    <2> DEFINE t == [s EXCEPT !.up = FALSE]
    <2>1. scheduler(s) = t
        BY <1>1, <1>2 DEF scheduler
    <2>2. t.pcb = s.pcb /\ t.halt = s.halt /\ t.ready = s.ready
        BY <1>1 DEF KernelState
    <2> HIDE DEF t
    <2>3. SameQuanta(s, t)
        BY <2>2 DEF SameQuanta, Alive
    <2> QED BY <2>1, <2>2, <2>3, QuietQuanta
<1>3. CASE ~MemoryCollision(s)
    <2>1. QInv(s) => QInv(scheduler(s))
        <3> SUFFICES ASSUME QInv(s) PROVE QInv(scheduler(s))
            OBVIOUS
        <3>1. s.ready = <<>> => Timed(s, 0)
            BY DEF QInv, IInv, OnCpu
        <3>2. Timed(s, 0) => Timed(s, Current(s.ready))
            BY Constants1 DEF Timed
        <3>3. s.ready # <<>> => Timed(s, Current(s.ready))
            BY <3>2 DEF QInv
        <3> QED BY <3>1, <3>3, <1>1, <1>3, TimedSwitch
    <2>2. NoGain(s, scheduler(s))
        <3>1. s.cpu \in Pids => s.cpu = Current(s.ready)
            BY DEF IInv, OnCpu
        <3>2. Len(s.ready) > 1 /\ scheduler(s).cpu = Current(s.ready) =>
                scheduler(s).pcb[Current(s.ready)].priorityCounter
                    <= s.pcb[Current(s.ready)].priorityCounter
            BY <1>1, <1>3, SwitchNoGain
        <3> QED BY <3>1, <3>2 DEF NoGain
    <2>3. Handed(s, scheduler(s))
        <3>1. s.ready # <<>> => s.pcb[Current(s.ready)].state = "READY"
            <4>1. s.ready # <<>> => Current(s.ready) \in ToSet(s.ready) /\ Current(s.ready) # 0
                BY <1>1, ListFacts, Constants1 DEF Current
            <4> QED BY <4>1 DEF IInv, Agree, AgreeBut
        <3> QED BY <3>1, <1>1, <1>3, SwitchLive DEF Handed
    <2> QED BY <2>1, <2>2, <2>3
<1> QED BY <1>2, <1>3

(* yield gives up the rest of the quantum.                                 *)
LEMMA YieldQuanta ==
    ASSUME NEW s, IInv(s), NEW p \in Pids, s.cpu = p
    PROVE  /\ QInv(s) => QInv(yield(s))
           /\ NoGain(s, yield(s)) /\ Handed(s, yield(s))
<1> DEFINE c == [s.pcb[p] EXCEPT !.priorityCounter = 0]
           u == [s EXCEPT !.pcb[p].priorityCounter = 0]
<1>1. /\ s \in KernelState /\ Current(s.ready) = p /\ s.pcb[p] \in PCB
      /\ ~MemoryCollision(s) /\ ~s.halt /\ s.ready # <<>> /\ s.pcb[p].state = "READY"
    BY RunningFacts
<1>2. yield(s) = scheduler(u)
    BY <1>1 DEF yield
<1>3. /\ c \in PCB /\ SameProcess(s.pcb[p], c) /\ c.rsp = s.pcb[p].rsp
      /\ c.priorityCounter = 0
    BY <1>1, Constants1, SMTT(40) DEF PCB, SameProcess
<1>4. u = [s EXCEPT !.pcb[p] = c]
    OBVIOUS
<1> HIDE DEF c, u
<1>5. /\ u \in KernelState /\ SameLists(s, u) /\ u.pcb[p] = c
      /\ \A q \in Pids : q # p => u.pcb[q] = s.pcb[q]
    BY <1>1, <1>3, <1>4, PcbUpdate
<1>6. \A q \in Pids : u.pcb[q].state = s.pcb[q].state /\ u.pcb[q].rsp = s.pcb[q].rsp
    BY <1>3, <1>5 DEF SameProcess
<1>7. Core(u) /\ Agree(u)
    BY <1>5, <1>6, SameNodes DEF IInv, Agree
<1>8. OnCpu(u) /\ ~MemoryCollision(u) /\ u.ready = s.ready
    BY <1>1, <1>5 DEF IInv, OnCpu, MemoryCollision, SameLists
<1>9. Ready4Switch(u)
    BY <1>7, <1>8, IInvSwitch DEF IInv
<1>10. QInv(s) => QInv(scheduler(u))
    <2> SUFFICES ASSUME QInv(s) PROVE QInv(scheduler(u))
        OBVIOUS
    <2>1. Timed(s, p)
        BY <1>1 DEF QInv
    <2>2. \A q \in Pids : q # p => u.pcb[q] = s.pcb[q]
        BY <1>5
    <2>3. /\ u.pcb[p].priority = s.pcb[p].priority /\ u.pcb[p].priorityCounter = 0
          /\ s.pcb[p].priority \in Nat /\ Alive(s, p)
        BY <1>1, <1>3, <1>5, CounterType DEF SameProcess, Alive
    <2>4. s.pcb[p].priority >= 1 /\ 0 <= s.pcb[p].priority
        BY <2>1, <2>3 DEF Timed
    <2>5. Timed(u, p)
        BY <2>1, <2>2, <2>3, <2>4 DEF Timed, Alive
    <2> QED BY <2>5, <1>1, <1>8, <1>9, TimedSwitch
<1>11. NoGain(s, scheduler(u))
    <2>1. Len(u.ready) > 1 /\ scheduler(u).cpu = p => u.pcb[p].priorityCounter # 0
        BY <1>1, <1>8, <1>9, SwitchNoGain
    <2> QED BY <2>1, <1>3, <1>5, <1>8 DEF NoGain
<1>12. Handed(s, scheduler(u))
    <2>1. \A q \in Pids : Alive(u, q) /\ ~Alive(scheduler(u), q) => u.pcb[q].state = "TERMINATED" /\ q = p
        BY <1>1, <1>8, <1>9, SwitchLive
    <2>2. \A q \in Pids : Alive(s, q) => Alive(u, q)
        BY <1>6 DEF Alive
    <2> QED BY <2>1, <2>2, <1>1, <1>6 DEF Handed
<1> QED BY <1>2, <1>10, <1>11, <1>12

(* No gain when the process on the CPU keeps its PCB.                      *)
LEMMA NoGainSame ==
    ASSUME NEW s, IInv(s), NEW t, NEW p \in Pids, s.cpu = p,
           t.pcb[p].priorityCounter = s.pcb[p].priorityCounter
    PROVE  NoGain(s, t)
<1>1. s.pcb[p].priorityCounter \in Nat
    BY CounterType DEF IInv, Core
<1> QED BY <1>1 DEF NoGain

(* Blocking a process: the caller gives up the CPU, another one has its    *)
(* quantum reloaded.                                                       *)
LEMMA BlockQuanta ==
    ASSUME NEW s, IInv(s), NEW p \in Pids, s.cpu = p, NEW q \in Pids
    PROVE  /\ QInv(s) => QInv(blockProcess(s, q))
           /\ NoGain(s, blockProcess(s, q)) /\ Handed(s, blockProcess(s, q))
<1>1. /\ s \in KernelState /\ Current(s.ready) = p /\ AgreeBut(s, q) /\ ~s.halt
      /\ p \in ToSet(s.ready) /\ s.ready # <<>> /\ Core(s) /\ s.pcb[p].state = "READY"
    BY RunningFacts DEF IInv
<1>2. CASE q = p
    <2> DEFINE u == [s EXCEPT !.pcb[p].state = "BLOCKED"]
    <2>1. blockProcess(s, q) = scheduler(u)
        BY <1>1, <1>2 DEF blockProcess
    <2>2. Ready4Switch(u) /\ ~MemoryCollision(u) /\ SameLists(s, u)
        BY MarkFacts
    <2>3. SameQuanta(s, u) /\ u.pcb[p].state = "BLOCKED"
        <3>1. Alive(s, p) /\ "BLOCKED" \in States /\ "BLOCKED" # "FREE"
            BY <1>1 DEF Alive, States
        <3> QED BY <1>1, <3>1, MarkQuanta
    <2> HIDE DEF u
    <2>4. u.ready # <<>> /\ Current(u.ready) = p
        BY <1>1, <2>2 DEF SameLists
    <2>5. (QInv(s) => QInv(scheduler(u))) /\ NoGain(s, scheduler(u))
        BY <2>2, <2>3, <2>4, LeavingSwitch
    <2>6. \A x \in Pids : Alive(u, x) => Alive(scheduler(u), x)
        BY <2>2, <2>3, <2>4, SwitchLive
    <2>7. Handed(s, scheduler(u))
        BY <2>3, <2>6 DEF Handed, SameQuanta
    <2> QED BY <2>1, <2>5, <2>7
<1>3. CASE q # p /\ q \in ToSet(s.ready)
    <2> DEFINE t == [s EXCEPT !.pcb[q].state = "BLOCKED"]
               u == removeBlocked(t, q)
    <2>1. blockProcess(s, q) = u
        BY <1>1, <1>3, SearchFacts DEF blockProcess
    <2>2. Core(t) /\ SameLists(s, t) /\ AgreeBut(t, q)
        BY <1>1, <1>3, MarkAny DEF States
    <2>3. SameQuanta(s, t) /\ t.pcb[q].state = "BLOCKED"
        <3>1. Alive(s, q) /\ "BLOCKED" \in States /\ "BLOCKED" # "FREE"
            BY <1>1, <1>3 DEF Alive, States, Core, Shape
        <3> QED BY <1>1, <3>1, MarkQuanta
    <2> HIDE DEF t
    <2>4. q \in ToSet(t.ready) /\ Current(t.ready) # q
        BY <1>1, <1>3, <2>2 DEF SameLists
    <2>5. u.halt = t.halt /\ u.ready # <<>> /\ Current(u.ready) = Current(t.ready)
        BY <2>2, <2>3, <2>4, RemoveBlockedFacts
    <2>6. /\ OnlyPcb(t, u, q) /\ SameProcess(t.pcb[q], u.pcb[q])
          /\ u.pcb[q].priorityCounter = t.pcb[q].priority
        BY <2>2, <2>4, RemoveBlockedPcb
    <2> HIDE DEF u
    <2>7. QInv(s) => QInv(u)
        <3>1. QInv(s) => Timed(t, p)
            BY <1>1, <2>3 DEF QInv, Timed, SameQuanta
        <3>2. ASSUME Timed(t, p) PROVE Timed(u, p)
            <4> SUFFICES ASSUME NEW x \in Pids, Alive(u, x)
                         PROVE  /\ u.pcb[x].priority >= 1
                                /\ u.pcb[x].priorityCounter <= u.pcb[x].priority
                                /\ x # p => u.pcb[x].priorityCounter >= 1
                BY DEF Timed
            <4>1. CASE x # q
                <5>1. u.pcb[x] = t.pcb[x]
                    BY <2>6, <4>1 DEF OnlyPcb
                <5> QED BY <3>2, <5>1 DEF Timed, Alive
            <4>2. CASE x = q
                <5>1. t.pcb[q].priority >= 1 /\ t.pcb[q].priority \in Nat
                    BY <2>2, <2>3, <3>2, CounterType DEF Timed, Alive, Core
                <5>2. u.pcb[q].priority = t.pcb[q].priority
                    BY <2>6 DEF SameProcess
                <5> QED BY <2>6, <4>2, <5>1, <5>2
            <4> QED BY <4>1, <4>2
        <3>3. u.halt = FALSE /\ Current(u.ready) = p
            BY <1>1, <2>2, <2>5 DEF SameLists, KernelState
        <3> QED BY <3>1, <3>2, <3>3 DEF QInv
    <2>8. NoGain(s, u)
        <3>1. u.pcb[p] = t.pcb[p]
            BY <1>3, <2>6 DEF OnlyPcb
        <3>2. u.pcb[p].priorityCounter = s.pcb[p].priorityCounter
            BY <3>1, <2>3 DEF SameQuanta
        <3> QED BY <3>2, NoGainSame
    <2>9. Handed(s, u)
        <3>1. \A x \in Pids : Alive(t, x) => Alive(u, x)
            BY <2>6 DEF OnlyPcb, SameProcess, Alive
        <3> QED BY <2>3, <3>1 DEF Handed, SameQuanta
    <2> QED BY <2>1, <2>7, <2>8, <2>9
<1>4. CASE q # p /\ q \notin ToSet(s.ready)
    <2>1. blockProcess(s, q) = s
        BY <1>1, <1>4, SearchFacts DEF blockProcess
    <2> QED BY <2>1, NoGainSame DEF Handed
<1> QED BY <1>2, <1>3, <1>4

(* Ending a process.                                                       *)
LEMMA TerminateQuanta ==
    ASSUME NEW s, IInv(s), NEW p \in Pids, s.cpu = p, NEW q \in Pids
    PROVE  /\ QInv(s) => QInv(terminateProcess(s, q))
           /\ NoGain(s, terminateProcess(s, q)) /\ Handed(s, terminateProcess(s, q))
<1>1. /\ s \in KernelState /\ Current(s.ready) = p /\ ~s.halt /\ s.halt = FALSE
      /\ s.ready # <<>> /\ Core(s) /\ s.pcb[p].state = "READY"
    BY RunningFacts DEF IInv, KernelState
<1>2. CASE terminateProcess(s, q) = s
    BY <1>2, NoGainSame DEF Handed
<1>3. CASE q # 1 /\ q = p
    <2> DEFINE t == [s EXCEPT !.pcb[p].state = "TERMINATED"]
               u == HandBack(t, p)
               v == scheduler(u)
    <2>1. /\ terminateProcess(s, p) = v
          /\ Core(t) /\ Ready4Switch(u) /\ ~MemoryCollision(u)
          /\ u.ready # <<>> /\ Current(u.ready) = p
          /\ \A x \in Pids : x # 1 => u.pcb[x] = t.pcb[x]
          /\ s.pcb[p].background = "FOREGROUND" =>
                u.pcb[1].background = "FOREGROUND" /\ 1 \in ToSet(u.ready)
        BY <1>3, EndSelfFacts
    <2>2. SameQuanta(s, t) /\ t.pcb[p].state = "TERMINATED"
        <3>1. Alive(s, p) /\ "TERMINATED" \in States /\ "TERMINATED" # "FREE"
            BY <1>1 DEF Alive, States
        <3> QED BY <1>1, <3>1, MarkQuanta
    <2> HIDE DEF t
    <2>3. SameQuanta(s, u)
        BY <2>1, <2>2, HandBackQuanta, QuantaChain
    <2> HIDE DEF u
    <2>4. (QInv(s) => QInv(v)) /\ NoGain(s, v)
        BY <1>3, <2>1, <2>2, <2>3, LeavingSwitch
    <2>5. /\ \A x \in Pids : Alive(u, x) /\ ~Alive(v, x) => x = p
          /\ \A x \in Pids : x # p => v.pcb[x].background = u.pcb[x].background
          /\ \A x \in ToSet(u.ready) : x # p => x \in ToSet(v.ready)
        BY <2>1, SwitchLive
    <2> HIDE DEF v
    <2>6. Handed(s, v)
        <3> SUFFICES ASSUME NEW x \in Pids, Alive(s, x), ~Alive(v, x),
                            s.pcb[x].background = "FOREGROUND"
                     PROVE  v.pcb[1].background = "FOREGROUND" /\ 1 \in ToSet(v.ready)
            BY DEF Handed
        <3>1. x = p
            BY <2>3, <2>5 DEF SameQuanta
        <3>2. u.pcb[1].background = "FOREGROUND" /\ 1 \in ToSet(u.ready)
            BY <2>1, <3>1
        <3> QED BY <1>3, <2>5, <3>2, Constants1
    <2> QED BY <1>3, <2>1, <2>4, <2>6
<1>4. CASE q # 1 /\ q # p /\ q \in ToSet(s.ready) \cup ToSet(s.blocked)
    <2> DEFINE u == HandBack(s, q)
               v == terminateProcess(s, q)
    <2>1. /\ IInv(v) /\ v.halt = s.halt
          /\ v.ready # <<>> /\ Current(v.ready) = p /\ v.pcb[q] = Free
          /\ \A x \in Pids : x # q => v.pcb[x] = u.pcb[x]
          /\ s.pcb[q].background = "FOREGROUND" =>
                v.pcb[1].background = "FOREGROUND" /\ 1 \in ToSet(v.ready)
        BY <1>4, EndOtherFacts
    <2>2. SameQuanta(s, u)
        BY <1>1, HandBackQuanta
    <2>3. ~Alive(v, q)
        BY <2>1 DEF Alive, Free
    <2> HIDE DEF u, v
    <2>4. QInv(s) => QInv(v)
        <3>1. QInv(s) => Timed(u, p)
            BY <1>1, <2>2 DEF QInv, Timed, SameQuanta
        <3>2. Timed(u, p) => Timed(v, p)
            BY <2>1, <2>3 DEF Timed, Alive
        <3> QED BY <1>1, <2>1, <3>1, <3>2 DEF QInv
    <2>5. NoGain(s, v)
        <3>1. v.pcb[p].priorityCounter = s.pcb[p].priorityCounter
            BY <1>4, <2>1, <2>2 DEF SameQuanta
        <3> QED BY <3>1, NoGainSame
    <2>6. Handed(s, v)
        <3>1. \A x \in Pids : Alive(s, x) /\ ~Alive(v, x) => x = q
            BY <2>1, <2>2 DEF SameQuanta, Alive
        <3> QED BY <2>1, <3>1 DEF Handed
    <2> QED BY <2>4, <2>5, <2>6 DEF v
<1>5. CASE q # 1 /\ q # p /\ q \notin ToSet(s.ready) \cup ToSet(s.blocked)
    <2>1. terminateProcess(s, q) = s
        BY <1>1, <1>5, SearchFacts DEF terminateProcess
    <2> QED BY <2>1, <1>2
<1>6. q = 1 => terminateProcess(s, q) = s
    BY DEF terminateProcess
<1> QED BY <1>2, <1>3, <1>4, <1>5, <1>6

(* A new process starts with a whole quantum; the others keep theirs.      *)
LEMMA CreateTimed ==
    ASSUME NEW s, Core(s), Agree(s), s.pid <= MaxPid, NEW o \in Outcomes
    PROVE  LET t == processCreate(s, o)
           IN  /\ \A c : Timed(s, c) => Timed(t, c)
               /\ \A q \in Pids : Alive(s, q) => Alive(t, q) /\ t.pcb[q] = s.pcb[q]
<1> DEFINE t == processCreate(s, o)
           n == s.pid
<1>1. /\ n \in Pids /\ s.pcb[n].state = "FREE"
      /\ \A q \in Pids : q # n => t.pcb[q] = s.pcb[q]
      /\ \/ t.pcb[n] = s.pcb[n]
         \/ t.pcb[n].priority = MEDIUM /\ t.pcb[n].priorityCounter = MEDIUM
    BY CreateFacts
<1> HIDE DEF t, n
<1>2. ASSUME NEW c, Timed(s, c) PROVE Timed(t, c)
    <2> SUFFICES ASSUME NEW q \in Pids, Alive(t, q)
                 PROVE  /\ t.pcb[q].priority >= 1
                        /\ t.pcb[q].priorityCounter <= t.pcb[q].priority
                        /\ q # c => t.pcb[q].priorityCounter >= 1
        BY DEF Timed
    <2>1. CASE t.pcb[q] = s.pcb[q]
        BY <1>2, <2>1 DEF Timed, Alive
    <2>2. CASE t.pcb[q] # s.pcb[q]
        <3>1. t.pcb[q].priority = MEDIUM /\ t.pcb[q].priorityCounter = MEDIUM
            BY <1>1, <2>2
        <3> QED BY <3>1 DEF MEDIUM
    <2> QED BY <2>1, <2>2
<1>3. \A q \in Pids : Alive(s, q) => Alive(t, q) /\ t.pcb[q] = s.pcb[q]
    BY <1>1 DEF Alive
<1> QED BY <1>2, <1>3 DEF t

(* A new priority cuts the rest of the quantum, and never extends it.      *)
LEMMA PriorityTimed ==
    ASSUME NEW s, Core(s), NEW p \in Int, NEW n \in 0..(Word - 1)
    PROVE  LET t == changePriority(s, p, n)
           IN  /\ n >= 1 => \A c : Timed(s, c) => Timed(t, c)
               /\ \A q \in Pids : /\ Alive(t, q) <=> Alive(s, q)
                                  /\ t.pcb[q].priorityCounter <= s.pcb[q].priorityCounter
<1> DEFINE t == changePriority(s, p, n)
<1>1. s \in KernelState
    BY DEF Core
<1>2. CASE searchNode(s, p)
    <2>1. p \in Pids
        BY <1>1, <1>2, SearchFacts DEF searchNode
    <2> DEFINE old == s.pcb[p].priorityCounter
               m == IF old > n THEN n ELSE old
               c == [s.pcb[p] EXCEPT !.priority = n, !.priorityCounter = m]
    <2>2. s.pcb[p] \in PCB /\ old \in Nat /\ n \in Nat
        BY <1>1, <2>1, CounterType, Constants1
    <2>3. m \in 0..(Word - 1) /\ m <= n /\ m <= old /\ (n >= 1 /\ old >= 1 => m >= 1)
        BY <2>2 DEF PCB
    <2>4. t = [s EXCEPT !.pcb[p] = c]
        BY <1>1, <1>2, <2>1, <2>2 DEF changePriority, KernelState, PCB
    <2> HIDE DEF m
    <2>5. c \in PCB /\ c.state = s.pcb[p].state /\ c.priority = n /\ c.priorityCounter = m
        BY <2>2, <2>3 DEF PCB
    <2> HIDE DEF c, t
    <2>6. t.pcb[p] = c /\ \A q \in Pids : q # p => t.pcb[q] = s.pcb[q]
        <3>1. s \in KernelState /\ p \in Pids /\ c \in PCB
            BY <1>1, <2>1, <2>5
        <3> QED BY <3>1, <2>4, PcbUpdate
    <2>7. ASSUME n >= 1, NEW x, Timed(s, x) PROVE Timed(t, x)
        <3> SUFFICES ASSUME NEW q \in Pids, Alive(t, q)
                     PROVE  /\ t.pcb[q].priority >= 1
                            /\ t.pcb[q].priorityCounter <= t.pcb[q].priority
                            /\ q # x => t.pcb[q].priorityCounter >= 1
            BY DEF Timed
        <3>1. CASE q # p
            <4>1. t.pcb[q] = s.pcb[q]
                BY <2>6, <3>1
            <4> QED BY <4>1, <2>7 DEF Timed, Alive
        <3>2. CASE q = p
            <4>1. q # x => old >= 1
                BY <2>5, <2>6, <2>7, <3>2 DEF Timed, Alive
            <4> HIDE DEF old
            <4> QED BY <4>1, <3>2, <2>3, <2>5, <2>6, <2>7
        <3> QED BY <3>1, <3>2
    <2>8. ASSUME NEW q \in Pids
          PROVE  /\ Alive(t, q) <=> Alive(s, q)
                 /\ t.pcb[q].priorityCounter <= s.pcb[q].priorityCounter
        <3>1. s.pcb[q].priorityCounter \in Nat
            BY <1>1, CounterType
        <3>2. CASE q # p
            <4>1. t.pcb[q] = s.pcb[q]
                BY <2>6, <3>2
            <4> QED BY <4>1, <3>1 DEF Alive
        <3>3. CASE q = p
            BY <3>3, <2>3, <2>5, <2>6 DEF Alive
        <3> QED BY <3>2, <3>3
    <2> QED BY <2>7, <2>8 DEF t
<1>3. CASE ~searchNode(s, p)
    <2>1. t = s
        BY <1>3 DEF changePriority
    <2>2. \A q \in Pids : s.pcb[q].priorityCounter <= s.pcb[q].priorityCounter
        <3> TAKE q \in Pids
        <3>1. s.pcb[q].priorityCounter \in Nat
            BY <1>1, CounterType
        <3> QED BY <3>1
    <2> QED BY <2>1, <2>2
<1> QED BY <1>2, <1>3

(* The shell cannot be ended: an exception in it runs main on top of the   *)
(* live lists, and every process keeps its quantum.                        *)
LEMMA RestartQuanta ==
    ASSUME NEW s, IInv(s), NEW p \in Pids, s.cpu = p, s.pid + 1 <= MaxPid,
           NEW h \in Outcomes, NEW o \in Outcomes
    PROVE  LET m == main(s, h, o)
           IN  (QInv(s) => QInv(m)) /\ NoGain(s, m) /\ Handed(s, m)
<1> DEFINE t == processCreate(s, h)
           u == processCreate(t, o)
           shell == IF o = "ok" THEN t.pid ELSE -1
           v == changePriority(u, shell, HIGH)
           w == setBackground(v, shell, "FOREGROUND")
           m == main(s, h, o)
           cur == Current(s.ready)
<1>1. /\ s.ready # <<>> /\ ~s.halt /\ s.halt = FALSE /\ s.pid \in Int /\ s.pid <= MaxPid
      /\ Core(s) /\ Agree(s)
    BY RunningFacts, Constants1 DEF KernelState, IInv
<1>2. m = [w EXCEPT !.cpu = Boot, !.idt0 = TRUE]
    BY DEF main
<1>3. /\ Core(t) /\ Agree(t) /\ t.halt = FALSE /\ t.ready # <<>> /\ Current(t.ready) = cur
      /\ t.pid \in {s.pid, s.pid + 1}
    BY <1>1, CreateFacts
<1>4. /\ \A c : Timed(s, c) => Timed(t, c)
      /\ \A q \in Pids : Alive(s, q) => Alive(t, q)
    BY <1>1, CreateTimed
<1>5. t.pid \in Int /\ t.pid <= MaxPid
    BY <1>1, <1>3
<1> HIDE DEF t, cur, m
<1>6. Core(u) /\ Agree(u) /\ u.halt = FALSE /\ u.ready # <<>> /\ Current(u.ready) = cur
    BY <1>3, <1>5, CreateFacts
<1>7. /\ \A c : Timed(t, c) => Timed(u, c)
      /\ \A q \in Pids : Alive(t, q) => Alive(u, q)
    BY <1>3, <1>5, CreateTimed
<1>8. shell \in Int
    BY <1>5
<1> HIDE DEF u, shell
<1>9. /\ Core(v) /\ SameLists(u, v)
      /\ \A c : Timed(u, c) => Timed(v, c)
      /\ \A q \in Pids : Alive(v, q) <=> Alive(u, q)
    <2>1. HIGH \in 0..(Word - 1) /\ HIGH >= 1
        BY Constants1 DEF HIGH
    <2> QED BY <1>6, <1>8, <2>1, ChangePriorityFacts, PriorityTimed
<1> HIDE DEF v
<1>10. Core(w) /\ SameLists(v, w) /\ SameQuanta(v, w)
    BY <1>8, <1>9, SetBackgroundFacts, SetBackgroundQuanta DEF Backgrounds
<1> HIDE DEF w
<1>11. m.cpu = Boot /\ m.pcb = w.pcb /\ m.ready = w.ready /\ m.halt = w.halt
    BY <1>2, <1>10 DEF Core, KernelState
<1>12. QInv(s) => QInv(m)
    <2>1. QInv(s) => Timed(v, cur)
        BY <1>1, <1>4, <1>7, <1>9 DEF QInv, cur
    <2>2. Timed(v, cur) => Timed(w, cur)
        BY <1>10 DEF Timed, SameQuanta
    <2>3. Timed(w, cur) => Timed(m, cur)
        BY <1>11 DEF Timed, Alive
    <2>4. m.halt = FALSE /\ Current(m.ready) = cur
        BY <1>6, <1>9, <1>10, <1>11 DEF SameLists
    <2> QED BY <2>1, <2>2, <2>3, <2>4 DEF QInv
<1>13. NoGain(s, m)
    BY <1>11, Constants1 DEF NoGain
<1>14. Handed(s, m)
    <2>1. \A q \in Pids : Alive(s, q) => Alive(w, q)
        BY <1>4, <1>7, <1>9, <1>10 DEF SameQuanta
    <2>2. \A q \in Pids : Alive(w, q) => Alive(m, q)
        BY <1>11 DEF Alive
    <2> QED BY <2>1, <2>2 DEF Handed
<1> QED BY <1>12, <1>13, <1>14 DEF m

(* An exception.                                                           *)
LEMMA ExceptionQuanta ==
    ASSUME NEW s, IInv(s), NEW p \in Pids, s.cpu = p, p = 1 => s.pid + 1 <= MaxPid,
           NEW vector, NEW h \in Outcomes, NEW o \in Outcomes
    PROVE  LET t == exceptionDispatcher(s, vector, h, o)
           IN  (QInv(s) => QInv(t)) /\ NoGain(s, t) /\ Handed(s, t)
<1>1. s \in KernelState /\ Current(s.ready) = p
    BY RunningFacts
<1>2. CASE vector = "divideByZero" /\ ~s.idt0
    <2> DEFINE t == [s EXCEPT !.up = FALSE]
    <2>1. exceptionDispatcher(s, vector, h, o) = t
        BY <1>2 DEF exceptionDispatcher
    <2>2. t.pcb = s.pcb /\ t.ready = s.ready /\ t.halt = s.halt
        BY <1>1 DEF KernelState
    <2> HIDE DEF t
    <2>3. SameQuanta(s, t)
        BY <2>2 DEF SameQuanta, Alive
    <2> QED BY <2>1, <2>2, <2>3, QuietQuanta
<1>3. CASE ~(vector = "divideByZero" /\ ~s.idt0) /\ p # 1
    <2>1. exceptionDispatcher(s, vector, h, o) = terminateProcess(s, p)
        BY <1>1, <1>3 DEF exceptionDispatcher
    <2> QED BY <2>1, TerminateQuanta
<1>4. CASE ~(vector = "divideByZero" /\ ~s.idt0) /\ p = 1
    <2>1. exceptionDispatcher(s, vector, h, o) = main(s, h, o)
        BY <1>1, <1>4 DEF exceptionDispatcher
    <2> QED BY <2>1, <1>4, RestartQuanta
<1> QED BY <1>2, <1>3, <1>4

(* The first run of main: one process, with a quantum.                     *)
LEMMA BootQuanta ==
    QInv(main(Loaded, "ok", "ok"))
<1> DEFINE t == processCreate(Loaded, "ok")
           u == processCreate(t, "ok")
           v == changePriority(u, 1, HIGH)
           w == setBackground(v, 1, "FOREGROUND")
           m == main(Loaded, "ok", "ok")
<1>1. /\ Core(u) /\ t.pid = 1
      /\ u.pcb[1].priority = MEDIUM /\ u.pcb[1].priorityCounter = MEDIUM
      /\ \A p \in Pids : p # 1 => u.pcb[p] = Free
    BY BootProcess
<1>2. m = [w EXCEPT !.cpu = Boot, !.idt0 = TRUE]
    BY <1>1 DEF main
<1> HIDE DEF t, u, m
<1>3. \A c : Timed(u, c)
    BY <1>1 DEF Timed, Alive, Free, MEDIUM
<1>4. Core(v) /\ \A c : Timed(v, c)
    <2>1. HIGH \in 0..(Word - 1) /\ HIGH >= 1
        BY Constants1 DEF HIGH
    <2>2. Core(u) /\ 1 \in Int
        BY <1>1
    <2>3. Core(v)
        BY <2>1, <2>2, ChangePriorityFacts
    <2>4. \A c : Timed(u, c) => Timed(v, c)
        BY <2>1, <2>2, PriorityTimed
    <2> QED BY <1>3, <2>3, <2>4
<1> HIDE DEF v
<1>5. Core(w) /\ SameQuanta(v, w)
    BY <1>4, SetBackgroundFacts, SetBackgroundQuanta DEF Backgrounds
<1> HIDE DEF w
<1>6. m.pcb = w.pcb
    BY <1>2, <1>5 DEF Core, KernelState
<1>7. \A c : Timed(m, c)
    BY <1>4, <1>5, <1>6, ZenonT(60) DEF Timed, SameQuanta, Alive
<1> QED BY <1>7 DEF QInv, m

---------------------------------------------------------------------------
(* What every step satisfies.                                              *)
KeepsQuanta(s, t) == (QInv(s) => QInv(t)) /\ NoGain(s, t) /\ Handed(s, t)

(* Waking a process.                                                       *)
LEMMA WakeQuanta ==
    ASSUME NEW s, IInv(s), NEW p \in Pids
    PROVE  KeepsQuanta(s, unblockProcess(s, p))
<1> DEFINE t == unblockProcess(s, p)
           none == 0
<1>1. Core(s) /\ AgreeBut(s, none) /\ none \notin ToSet(s.blocked) /\ p \in Int
    BY SearchFacts, Constants1 DEF IInv, Core, Agree
<1> HIDE DEF none
<1>2. t.halt = s.halt /\ (s.ready # <<>> => Current(t.ready) = Current(s.ready))
    BY <1>1, UnblockFacts
<1>3. SameQuanta(s, t)
    BY UnblockQuanta DEF IInv
<1> HIDE DEF t
<1> QED BY <1>2, <1>3, QuietQuanta DEF KeepsQuanta, t

(* Changing a priority.                                                    *)
LEMMA PriorityQuanta ==
    ASSUME NEW s, IInv(s), NEW q \in Pids, NEW n \in Priorities
    PROVE  LET t == changePriority(s, q, n)
           IN  (n # 0 => (QInv(s) => QInv(t))) /\ NoGain(s, t) /\ Handed(s, t)
<1> DEFINE t == changePriority(s, q, n)
           c == IF s.halt THEN 0 ELSE Current(s.ready)
<1>1. q \in Int /\ n \in 0..(Word - 1) /\ Core(s) /\ (n # 0 => n >= 1)
    BY Constants1 DEF IInv
<1>2. SameLists(s, t)
    BY <1>1, ChangePriorityFacts
<1>3. /\ n >= 1 => \A x : Timed(s, x) => Timed(t, x)
      /\ \A x \in Pids : /\ Alive(t, x) <=> Alive(s, x)
                         /\ t.pcb[x].priorityCounter <= s.pcb[x].priorityCounter
    BY <1>1, PriorityTimed
<1> HIDE DEF t
<1>4. n # 0 => (QInv(s) => QInv(t))
    <2>1. (IF t.halt THEN 0 ELSE Current(t.ready)) = c
        BY <1>2 DEF SameLists
    <2> HIDE DEF c
    <2> QED BY <1>1, <1>3, <2>1 DEF QInv, c
<1>5. NoGain(s, t)
    BY <1>3 DEF NoGain
<1>6. Handed(s, t)
    BY <1>3 DEF Handed
<1> QED BY <1>4, <1>5, <1>6 DEF t

(* Creating a process.                                                     *)
LEMMA CreateQuanta ==
    ASSUME NEW s, IInv(s), NEW p \in Pids, s.cpu = p, s.pid <= MaxPid, NEW o \in Outcomes
    PROVE  KeepsQuanta(s, processCreate(s, o))
<1> DEFINE t == processCreate(s, o)
<1>1. /\ s.ready # <<>> /\ ~s.halt /\ Core(s) /\ Agree(s) /\ s.pcb[p].state = "READY"
      /\ Current(s.ready) = p
    BY RunningFacts DEF IInv
<1>2. t.halt = s.halt /\ Current(t.ready) = p
    BY <1>1, CreateFacts
<1>3. /\ \A c : Timed(s, c) => Timed(t, c)
      /\ \A q \in Pids : Alive(s, q) => Alive(t, q) /\ t.pcb[q] = s.pcb[q]
    BY <1>1, CreateTimed
<1> HIDE DEF t
<1>4. QInv(s) => QInv(t)
    BY <1>1, <1>2, <1>3 DEF QInv
<1>5. NoGain(s, t)
    <2>1. t.pcb[p].priorityCounter = s.pcb[p].priorityCounter
        BY <1>1, <1>3 DEF Alive
    <2> QED BY <2>1, NoGainSame
<1>6. Handed(s, t)
    BY <1>3 DEF Handed
<1> QED BY <1>4, <1>5, <1>6 DEF KeepsQuanta, t

(* Moving a process to the foreground or the background.                   *)
LEMMA BackgroundQuanta ==
    ASSUME NEW s, IInv(s), NEW q \in Pids, NEW b \in Backgrounds
    PROVE  KeepsQuanta(s, setBackground(s, q, b))
<1> DEFINE t == setBackground(s, q, b)
<1>1. q \in Int /\ Core(s)
    BY Constants1 DEF IInv
<1>2. SameLists(s, t) /\ SameQuanta(s, t)
    BY <1>1, SetBackgroundFacts, SetBackgroundQuanta
<1> HIDE DEF t
<1> QED BY <1>2, QuietQuanta DEF KeepsQuanta, SameLists, t

(* Every entry into the kernel, in every interleaving.                     *)
LEMMA NextQuanta ==
    ASSUME IInv(k), [Next]_k
    PROVE  /\ 0 \notin Priorities => (QInv(k) => QInv(k'))
           /\ NoGain(k, k') /\ Handed(k, k')
<1>1. CASE Tick
    BY <1>1, TickQuanta DEF Tick
<1>2. CASE \E p \in Readers : KeyboardIrq(p)
    BY <1>2, WakeQuanta, Constants1 DEF KeyboardIrq, KeepsQuanta
<1>3. CASE SysYield
    BY <1>3, YieldQuanta DEF SysYield, Running
<1>4. CASE SysExit
    BY <1>4, TerminateQuanta DEF SysExit, Running
<1>5. CASE \E q \in Victims : SysKill(q)
    BY <1>5, TerminateQuanta, Constants1 DEF SysKill, Running
<1>6. CASE \E q \in Pids : SysBlock(q)
    BY <1>6, BlockQuanta DEF SysBlock, Running
<1>7. CASE \E q \in Third : SysUnblock(q)
    BY <1>7, WakeQuanta, Constants1 DEF SysUnblock, KeepsQuanta
<1>8. CASE \E q \in Pids, n \in Priorities : SysChangePriority(q, n)
    BY <1>8, PriorityQuanta DEF SysChangePriority
<1>9. CASE \E q \in Consoles, b \in Backgrounds : SysSetBackground(q, b)
    BY <1>9, BackgroundQuanta, Constants1 DEF SysSetBackground, KeepsQuanta
<1>10. CASE \E outcome \in Outcomes : SysCreateProcess(outcome)
    BY <1>10, CreateQuanta DEF SysCreateProcess, Running, KeepsQuanta
<1>11. CASE \E vector \in Vectors, h \in Outcomes, o \in Outcomes : Exception(vector, h, o)
    BY <1>11, ExceptionQuanta, Constants1 DEF Exception, Running
<1>12. CASE UNCHANGED k
    <2>1. SameQuanta(k, k') /\ k'.halt = k.halt /\ k'.ready = k.ready
        BY <1>12 DEF SameQuanta
    <2> QED BY <2>1, QuietQuanta
<1> QED
    BY <1>1, <1>2, <1>3, <1>4, <1>5, <1>6, <1>7, <1>8, <1>9, <1>10, <1>11, <1>12 DEF Next

(* The unsigned priorityCounter never wraps and never exceeds the priority *)
(* (schedulerAddProcess, changePriority, removeBlocked, yield, scheduler), *)
(* as long as sys_changePriority is not called with the priority 0, for    *)
(* which the run SchedulerLowest finds the wrap.                           *)
THEOREM QuantumCorrect ==
    ASSUME 0 \notin Priorities
    PROVE  Spec => []QuantumBounded
<1>1. Init => IInv(k) /\ QInv(k)
    BY BootFacts, BootQuanta DEF Init
<1>2. IInv(k) /\ QInv(k) /\ [Next]_k => IInv(k)' /\ QInv(k)'
    BY NextIInv, NextQuanta
<1>3. ASSUME IInv(k), QInv(k) PROVE QuantumBounded
    <2> DEFINE c == IF k.halt THEN 0 ELSE Current(k.ready)
    <2>1. Timed(k, c)
        BY <1>3 DEF QInv
    <2>2. \A p \in Pids : Waiting(p) => Alive(k, p) /\ p # c
        BY Constants1 DEF Waiting, Live, Alive
    <2> HIDE DEF c
    <2>3. QuantumWithinPriority
        BY <2>1 DEF QuantumWithinPriority, Timed, Live, Alive
    <2> QED BY <2>1, <2>2, <2>3 DEF QuantumBounded, Timed
<1> QED BY <1>1, <1>2, <1>3, PTL DEF Spec

(* Nothing the process on the CPU calls, and no interrupt, gives it more   *)
(* ticks while another process is ready (changePriority cuts and never     *)
(* reloads, unblockProcess queues behind the current process, scheduler()  *)
(* reloads only a process that lets the next one run).                     *)
THEOREM NoExtensionCorrect ==
    Spec => NoQuantumExtension
<1>1. IInv(k) /\ [Next]_k =>
        [ k.cpu \in Pids /\ k'.cpu = k.cpu /\ Len(k.ready) > 1 /\ Len(k'.ready) > 1
          => k'.pcb[k.cpu].priorityCounter <= k.pcb[k.cpu].priorityCounter ]_k
    BY NextQuanta DEF NoGain
<1> QED BY <1>1, Consistent, PTL DEF Spec, NoQuantumExtension

(* Whoever ends a foreground process, by exit, kill or an exception, the   *)
(* same kernel entry leaves the shell in the foreground and ready          *)
(* (terminateProcess, HandBack, scheduler).                                *)
THEOREM HandbackCorrect ==
    Spec => ShellHandback
<1>1. IInv(k) /\ IInv(k)' /\ [Next]_k =>
        [ \A p \in Pids : Live(p) /\ k.pcb[p].background = "FOREGROUND" /\ ~Live(p)'
            => k'.pcb[1].background = "FOREGROUND" /\ Contains(k'.ready, 1) ]_k
    <2> SUFFICES ASSUME IInv(k), IInv(k'), [Next]_k
                 PROVE  \A p \in Pids :
                            Live(p) /\ k.pcb[p].background = "FOREGROUND" /\ ~Live(p)'
                            => k'.pcb[1].background = "FOREGROUND" /\ Contains(k'.ready, 1)
        OBVIOUS
    <2>1. Handed(k, k')
        BY NextQuanta
    <2>2. Contains(k'.ready, 1) <=> 1 \in ToSet(k'.ready)
        <3>1. k'.ready \in Seq(Pids)
            BY DEF IInv, Core, KernelState
        <3> QED BY <3>1, ListFacts
    <2> QED BY <2>1, <2>2 DEF Handed, Alive, Live
<1> QED BY <1>1, Consistent, PTL DEF Spec, ShellHandback
===========================================================================
