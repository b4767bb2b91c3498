--------------------------- MODULE KeyboardProofs ---------------------------
(***************************************************************************)
(* Proofs about Keyboard: the order of the keys and the caller's line,     *)
(* whatever the processes do, and the one reader that SEM_READ lets in,    *)
(* when the shell shares the console with one other process.               *)
(***************************************************************************)
EXTENDS Keyboard, SemaphoresProofs

(* What the assumptions on the constants say.                              *)
LEMMA KbdConstants ==
    /\ BUFF_LEN \in Nat /\ BUFF_LEN >= 1 /\ Bytes \in Nat /\ Bytes >= 1
    /\ SEM_READ \in SemIds /\ SEM_READ \in Int /\ User # SEM_READ
    /\ \A r \in RawModes : r \in BOOLEAN
BY KeyboardAssumption, SemConstants DEF SEM_READ

(* The fields of the driver's record.                                      *)
LEMMA KbdFields ==
    ASSUME kbd \in Keyboards
    PROVE  /\ kbd.buffer \in [0..(BUFF_LEN - 1) -> Keys \cup {NoKey}]
           /\ kbd.read_idx \in 0..(BUFF_LEN - 1) /\ kbd.write_idx \in 0..(BUFF_LEN - 1)
           /\ kbd.keysToRead \in 0..BUFF_LEN /\ kbd.blockedpid \in Pids \cup {0}
           /\ kbd.isSpecialKey \in BOOLEAN /\ kbd.ctrl \in BOOLEAN /\ kbd.rawMode \in BOOLEAN
BY DEF Keyboards

(* An index that has gone around the ring once at most.                    *)
LEMMA Wrap ==
    ASSUME NEW n \in Int, 0 <= n, n < BUFF_LEN + BUFF_LEN
    PROVE  n % BUFF_LEN = IF n < BUFF_LEN THEN n ELSE n - BUFF_LEN
<1>1. BUFF_LEN \in Nat /\ BUFF_LEN >= 1
    BY KbdConstants
<1>2. CASE n < BUFF_LEN
    BY <1>1, <1>2
<1>3. CASE n >= BUFF_LEN
    BY <1>1, <1>3
<1> QED BY <1>1, <1>2, <1>3

(* The place of the key that is j places after index r.                    *)
LEMMA RingIndex ==
    ASSUME NEW r \in 0..(BUFF_LEN - 1), NEW j \in 0..BUFF_LEN
    PROVE  /\ (r + j) % BUFF_LEN = IF r + j < BUFF_LEN THEN r + j ELSE (r + j) - BUFF_LEN
           /\ (r + j) % BUFF_LEN \in 0..(BUFF_LEN - 1)
<1>1. BUFF_LEN \in Nat /\ BUFF_LEN >= 1
    BY KbdConstants
<1> DEFINE n == r + j
<1>2. n \in Int /\ 0 <= n /\ n < BUFF_LEN + BUFF_LEN
    BY <1>1
<1> HIDE DEF n
<1>3. n % BUFF_LEN = IF n < BUFF_LEN THEN n ELSE n - BUFF_LEN
    BY <1>2, Wrap
<1>4. n % BUFF_LEN \in 0..(BUFF_LEN - 1)
    BY <1>1, <1>2, <1>3
<1>5. /\ n % BUFF_LEN = IF n < BUFF_LEN THEN n ELSE n - BUFF_LEN
      /\ n % BUFF_LEN \in 0..(BUFF_LEN - 1)
    BY <1>3, <1>4
<1> QED BY <1>5 DEF n

(* What the interrupt handler does to the driver with the key.             *)
LEMMA StoreFacts ==
    ASSUME kbd \in Keyboards, NEW key \in Keys, NEW c \in BOOLEAN, NEW s,
           s = [kbd EXCEPT !.isSpecialKey = FALSE, !.ctrl = c]
    PROVE  /\ s \in Keyboards /\ Store(s, key) \in Keyboards
           /\ s.buffer = kbd.buffer /\ s.read_idx = kbd.read_idx
           /\ s.write_idx = kbd.write_idx /\ s.keysToRead = kbd.keysToRead
           /\ s.blockedpid = kbd.blockedpid
           /\ LET t == Store(s, key)
              IN  /\ t.buffer = [kbd.buffer EXCEPT ![kbd.write_idx] = key]
                  /\ t.read_idx = kbd.read_idx /\ t.blockedpid = kbd.blockedpid
                  /\ t.write_idx = IF kbd.write_idx + 1 = BUFF_LEN THEN 0 ELSE kbd.write_idx + 1
                  /\ t.keysToRead = IF kbd.keysToRead = BUFF_LEN THEN BUFF_LEN
                                    ELSE kbd.keysToRead + 1
<1>1. BUFF_LEN \in Nat /\ BUFF_LEN >= 1
    BY KbdConstants
<1>2. /\ s \in Keyboards
      /\ s.buffer = kbd.buffer /\ s.read_idx = kbd.read_idx
      /\ s.write_idx = kbd.write_idx /\ s.keysToRead = kbd.keysToRead
      /\ s.blockedpid = kbd.blockedpid
    BY DEF Keyboards
<1> DEFINE w == IF kbd.write_idx + 1 = BUFF_LEN THEN 0 ELSE kbd.write_idx + 1
           n == IF kbd.keysToRead + 1 > BUFF_LEN THEN BUFF_LEN ELSE kbd.keysToRead + 1
           b == [kbd.buffer EXCEPT ![kbd.write_idx] = key]
           t == [s EXCEPT !.buffer = b, !.write_idx = w, !.keysToRead = n]
           R == [0..(BUFF_LEN - 1) -> Keys \cup {NoKey}]
<1>3. w \in 0..(BUFF_LEN - 1) /\ n \in 0..BUFF_LEN
      /\ n = IF kbd.keysToRead = BUFF_LEN THEN BUFF_LEN ELSE kbd.keysToRead + 1
    BY <1>1, KbdFields
<1>4. b \in R
    BY KbdFields
<1>5. Store(s, key) = t
    BY <1>2 DEF Store, Keyboards
<1> DEFINE K(B) == [buffer : B, read_idx : 0..(BUFF_LEN - 1), write_idx : 0..(BUFF_LEN - 1),
                    keysToRead : 0..BUFF_LEN, blockedpid : Pids \cup {0},
                    isSpecialKey : BOOLEAN, ctrl : BOOLEAN, rawMode : BOOLEAN]
<1>6. Keyboards = K(R)
    BY DEF Keyboards
<1> HIDE DEF w, n, b, R
<1>7. /\ t \in Keyboards /\ t.buffer = b /\ t.read_idx = s.read_idx
      /\ t.blockedpid = s.blockedpid /\ t.write_idx = w /\ t.keysToRead = n
    BY <1>2, <1>3, <1>4, <1>6
<1> QED BY <1>2, <1>3, <1>5, <1>7 DEF w, b

(* The key taken out of the ring.                                          *)
LEMMA FetchedFacts ==
    ASSUME kbd \in Keyboards, kbd.keysToRead > 0
    PROVE  /\ Fetched \in Keyboards /\ Fetched.blockedpid = 0
           /\ Fetched.buffer = kbd.buffer /\ Fetched.write_idx = kbd.write_idx
           /\ Fetched.keysToRead = kbd.keysToRead - 1
           /\ Fetched.read_idx = IF kbd.read_idx + 1 = BUFF_LEN THEN 0 ELSE kbd.read_idx + 1
<1>1. BUFF_LEN \in Nat /\ BUFF_LEN >= 1
    BY KbdConstants
<1> DEFINE r == IF kbd.read_idx + 1 = BUFF_LEN THEN 0 ELSE kbd.read_idx + 1
           n == kbd.keysToRead - 1
<1>2. r \in 0..(BUFF_LEN - 1) /\ n \in 0..BUFF_LEN /\ 0 \in Pids \cup {0}
    BY <1>1, KbdFields
<1>3. Fetched = [kbd EXCEPT !.blockedpid = 0, !.keysToRead = n, !.read_idx = r]
    BY DEF Fetched
<1> HIDE DEF r, n
<1>4. /\ Fetched \in Keyboards /\ Fetched.blockedpid = 0
      /\ Fetched.buffer = kbd.buffer /\ Fetched.write_idx = kbd.write_idx
      /\ Fetched.keysToRead = n /\ Fetched.read_idx = r
    BY <1>2, <1>3 DEF Keyboards
<1> QED BY <1>4 DEF r, n

(* The key of a scan code, and its character, are of their types.          *)
LEMMA KeyFacts ==
    /\ \A code : InTable(code) /\ KeyOf(code) # "none" => KeyOf(code) \in Keys
    /\ \A key, ctrl : HasAscii(key) => Ascii(key, ctrl) \in Characters
<1>1. ASSUME NEW code, InTable(code), KeyOf(code) # "none" PROVE KeyOf(code) \in Keys
    <2>1. CASE kbd.isSpecialKey
        BY <1>1, <2>1 DEF KeyOf, handleSpecialKey, Keys
    <2>2. CASE ~kbd.isSpecialKey
        BY <1>1, <2>2 DEF KeyOf, InTable, Keys
    <2> QED BY <2>1, <2>2
<1>2. ASSUME NEW key, NEW ctrl, HasAscii(key) PROVE Ascii(key, ctrl) \in Characters
    BY <1>2 DEF HasAscii, Ascii, Characters
<1> QED BY <1>1, <1>2

(* A frame of sys_read, of which byte i is the next to fill.               *)
Frame(s) == s \in Calls /\ s.i < Bytes

(* The caller's buffer holds the line as it was edited.                    *)
Edited(s) == s.i = Len(s.line) /\ \A j \in 1..s.i : s.buffer[j - 1] = s.line[j]

(* A process that is not in sys_read.                                      *)
LEMMA IdleSelf ==
    Frame(Idle) /\ Edited(Idle) /\ Idle.at = "user"
<1>1. 0 < Bytes /\ 0 \in 0..Bytes
    BY KbdConstants
<1> DEFINE b == [j \in 0..(Bytes - 1) |-> NoKey]
           B == [0..(Bytes - 1) -> Characters \cup {NoKey}]
           n == <<>>
<1>2. b \in B /\ n \in Seq(Characters) /\ Len(n) = 0
    OBVIOUS
<1>3. Calls = [at : {"user", "sem", "loop", "key"}, i : 0..Bytes, buffer : B,
               raw : BOOLEAN, line : Seq(Characters)]
    BY DEF Calls
<1>4. Idle = [at |-> "user", i |-> 0, buffer |-> b, raw |-> FALSE, line |-> n]
    BY DEF Idle
<1> HIDE DEF b, B, n
<1>5. Idle \in Calls /\ Idle.i = 0 /\ Idle.line = n /\ Idle.at = "user"
    BY <1>1, <1>2, <1>3, <1>4
<1> QED BY <1>1, <1>2, <1>5 DEF Frame, Edited

(* A frame as sys_read starts it.                                          *)
LEMMA IdleFacts ==
    ASSUME NEW at \in {"user", "sem", "loop", "key"}, NEW raw \in BOOLEAN
    PROVE  LET s == [Idle EXCEPT !.at = at, !.raw = raw]
           IN  Frame(s) /\ Edited(s) /\ s.at = at
<1>1. 0 < Bytes /\ 0 \in 0..Bytes
    BY KbdConstants
<1> DEFINE b == [j \in 0..(Bytes - 1) |-> NoKey]
           B == [0..(Bytes - 1) -> Characters \cup {NoKey}]
           n == <<>>
<1>2. b \in B /\ n \in Seq(Characters) /\ Len(n) = 0
    OBVIOUS
<1>3. Calls = [at : {"user", "sem", "loop", "key"}, i : 0..Bytes, buffer : B,
               raw : BOOLEAN, line : Seq(Characters)]
    BY DEF Calls
<1>4. Idle = [at |-> "user", i |-> 0, buffer |-> b, raw |-> FALSE, line |-> n]
    BY DEF Idle
<1> HIDE DEF b, B, n
<1>5. Idle \in Calls /\ Idle.i = 0 /\ Idle.line = n
    BY <1>1, <1>2, <1>3, <1>4
<1> DEFINE t == [Idle EXCEPT !.at = at, !.raw = raw]
<1>6. t \in Calls /\ t.at = at /\ t.i = 0 /\ t.line = n
    BY <1>3, <1>5
<1> HIDE DEF t
<1>7. Edited(t)
    BY <1>2, <1>6 DEF Edited
<1> QED BY <1>1, <1>6, <1>7 DEF Frame, t

(* A frame that falls asleep, or goes on.                                  *)
LEMMA AtFacts ==
    ASSUME NEW s, Frame(s), NEW at \in {"user", "sem", "loop", "key"}
    PROVE  LET t == [s EXCEPT !.at = at]
           IN  Frame(t) /\ (Edited(s) => Edited(t)) /\ t.at = at
<1> DEFINE B == [0..(Bytes - 1) -> Characters \cup {NoKey}]
           t == [s EXCEPT !.at = at]
<1>1. Calls = [at : {"user", "sem", "loop", "key"}, i : 0..Bytes, buffer : B,
               raw : BOOLEAN, line : Seq(Characters)]
    BY DEF Calls
<1> HIDE DEF B
<1>2. t \in Calls /\ t.at = at /\ t.i = s.i /\ t.buffer = s.buffer /\ t.line = s.line
    BY <1>1 DEF Frame
<1> QED BY <1>2 DEF Frame, Edited

(* A character that is put in the buffer.                                  *)
LEMMA PutFacts ==
    ASSUME NEW s, Frame(s), NEW c \in Characters
    PROVE  LET t == Put(s, c)
           IN  t \in Calls /\ t.at = "loop" /\ (Edited(s) => Edited(t))
<1> DEFINE B == [0..(Bytes - 1) -> Characters \cup {NoKey}]
           b == [s.buffer EXCEPT ![s.i] = c]
           n == Append(s.line, c)
           t == [s EXCEPT !.at = "loop", !.buffer = b, !.i = s.i + 1, !.line = n]
<1>1. Calls = [at : {"user", "sem", "loop", "key"}, i : 0..Bytes, buffer : B,
               raw : BOOLEAN, line : Seq(Characters)]
    BY DEF Calls
<1>2. /\ s.i \in Nat /\ s.i < Bytes /\ s.i + 1 \in 0..Bytes /\ s.i \in 0..(Bytes - 1)
      /\ s.buffer \in [0..(Bytes - 1) -> Characters \cup {NoKey}] /\ s.line \in Seq(Characters)
    BY KbdConstants DEF Frame, Calls
<1>3. b \in B /\ n \in Seq(Characters)
    BY <1>2
<1>4. Put(s, c) = t
    BY DEF Put, Frame, Calls
<1>5. \A j \in 0..(Bytes - 1) : b[j] = IF j = s.i THEN c ELSE s.buffer[j]
    BY <1>2
<1>6. Len(n) = Len(s.line) + 1 /\ \A j \in 1..Len(n) : n[j] = IF j = Len(n) THEN c ELSE s.line[j]
    <2> DEFINE l == s.line
    <2>1. l \in Seq(Characters)
        BY <1>2
    <2> HIDE DEF l
    <2>2. /\ Len(Append(l, c)) = Len(l) + 1
          /\ \A j \in 1..(Len(l) + 1) : Append(l, c)[j] = IF j = Len(l) + 1 THEN c ELSE l[j]
        BY <2>1
    <2> QED BY <2>2 DEF l
<1> HIDE DEF B, b, n
<1>7. t \in Calls /\ t.at = "loop" /\ t.i = s.i + 1 /\ t.buffer = b /\ t.line = n
    BY <1>1, <1>2, <1>3 DEF Frame
<1> HIDE DEF t
<1>8. ASSUME Edited(s) PROVE Edited(t)
    <2>1. s.i = Len(s.line) /\ \A j \in 1..s.i : s.buffer[j - 1] = s.line[j]
        BY <1>8 DEF Edited
    <2>2. t.i = Len(n)
        BY <1>6, <1>7, <2>1
    <2>3. ASSUME NEW j \in 1..(s.i + 1) PROVE b[j - 1] = n[j]
        <3>1. j - 1 \in 0..(Bytes - 1)
            BY <1>2, KbdConstants
        <3> QED BY <1>2, <1>5, <1>6, <2>1, <3>1
    <2> QED BY <1>7, <2>2, <2>3 DEF Edited
<1> QED BY <1>4, <1>7, <1>8

(* A character that takes the last one back.                               *)
LEMMA RubOutFacts ==
    ASSUME NEW s, Frame(s), Edited(s)
    PROVE  LET t == RubOut(s)
           IN  t \in Calls /\ t.at = "loop" /\ Edited(t)
<1> DEFINE B == [0..(Bytes - 1) -> Characters \cup {NoKey}]
           n == Front(s.line)
           t == [s EXCEPT !.at = "loop", !.i = s.i - 1, !.line = n]
<1>1. Calls = [at : {"user", "sem", "loop", "key"}, i : 0..Bytes, buffer : B,
               raw : BOOLEAN, line : Seq(Characters)]
    BY DEF Calls
<1>2. s.i \in Nat /\ s.i < Bytes /\ s.line \in Seq(Characters) /\ Bytes \in Nat
    BY KbdConstants DEF Frame, Calls
<1>3. CASE s.i <= 0
    <2>1. RubOut(s) = [s EXCEPT !.at = "loop"]
        BY <1>3 DEF RubOut
    <2> QED BY <2>1, AtFacts DEF Frame
<1>4. CASE s.i > 0
    <2>1. RubOut(s) = t
        BY <1>2, <1>4 DEF RubOut, Frame, Calls
    <2>2. s.i = Len(s.line) /\ \A j \in 1..s.i : s.buffer[j - 1] = s.line[j]
        BY DEF Edited
    <2>3. /\ n \in Seq(Characters) /\ Len(n) = Len(s.line) - 1
          /\ \A j \in 1..Len(n) : n[j] = s.line[j]
        BY <1>2, <1>4, <2>2 DEF Front
    <2>4. s.i - 1 \in 0..Bytes
        BY <1>2, <1>4
    <2> HIDE DEF B, n
    <2>5. t \in Calls /\ t.at = "loop" /\ t.i = s.i - 1 /\ t.buffer = s.buffer /\ t.line = n
        BY <1>1, <2>3, <2>4 DEF Frame
    <2> HIDE DEF t
    <2>6. Edited(t)
        BY <1>2, <1>4, <2>2, <2>3, <2>5 DEF Edited
    <2> QED BY <2>1, <2>5, <2>6
<1> QED BY <1>2, <1>3, <1>4

(* One turn of the loop that does not end the call.                        *)
LEMMA TurnFacts ==
    ASSUME NEW p \in Pids, Frame(call[p]), Edited(call[p]), NEW c \in Characters, ~Ends(p, c)
    PROVE  LET t == Turn(call[p], c)
           IN  Frame(t) /\ Edited(t) /\ t.at = "loop"
<1> DEFINE s == call[p]
           t == Turn(s, c)
<1>1. t \in Calls /\ t.at = "loop" /\ Edited(t)
    <2>1. CASE t = Put(s, c)
        BY <2>1, PutFacts
    <2>2. CASE t = RubOut(s)
        BY <2>2, RubOutFacts
    <2>3. CASE t = [s EXCEPT !.at = "loop"]
        BY <2>3, AtFacts DEF Frame
    <2> QED BY <2>1, <2>2, <2>3 DEF Turn
<1>2. t.i # Bytes
    BY DEF Ends
<1> HIDE DEF t
<1>3. t.i < Bytes
    BY <1>1, <1>2, KbdConstants DEF Calls
<1> QED BY <1>1, <1>3 DEF Frame, t

---------------------------------------------------------------------------
(* Inside the part of sys_read that SEM_READ protects.                     *)
InLoop(p) == call[p].at \in {"loop", "key"}

(* The data of the driver and of its callers.                              *)
DataState ==
    /\ SemState
    /\ kbd \in Keyboards /\ pending \in Seq(Keys) /\ lost \in BOOLEAN
    /\ call \in [Pids -> Calls]
    /\ \A p \in Pids : Frame(call[p]) /\ Edited(call[p])
    /\ \A p \in Pids : call[p].at # "user" => sems[SEM_READ].exists = TRUE
    /\ \A p \in Pids : frame[p] \in {User, SEM_READ}

(* The ring and the keys that are pending.                                 *)
RingOrder ==
    /\ kbd.keysToRead = Len(pending)
    /\ ~lost => /\ kbd.write_idx = (kbd.read_idx + Len(pending)) % BUFF_LEN
                /\ \A j \in 1..Len(pending) :
                        kbd.buffer[(kbd.read_idx + j - 1) % BUFF_LEN] = pending[j]

(* A key that is pressed.                                                  *)
LEMMA StoreOrder ==
    ASSUME DataState, RingOrder, NEW key \in Keys, NEW s, NEW c \in BOOLEAN,
           s = [kbd EXCEPT !.isSpecialKey = FALSE, !.ctrl = c],
           kbd' = Store(s, key), NEW full \in BOOLEAN, full <=> kbd.keysToRead = BUFF_LEN,
           pending' = IF full THEN Append(Tail(pending), key) ELSE Append(pending, key),
           lost' = (lost \/ full)
    PROVE  pending' \in Seq(Keys) /\ lost' \in BOOLEAN /\ RingOrder'
<1> DEFINE n == Len(pending)
           r == kbd.read_idx
           w == kbd.write_idx
<1>1. /\ kbd'.buffer = [kbd.buffer EXCEPT ![w] = key] /\ kbd'.read_idx = r
      /\ kbd'.write_idx = IF w + 1 = BUFF_LEN THEN 0 ELSE w + 1
      /\ kbd'.keysToRead = IF kbd.keysToRead = BUFF_LEN THEN BUFF_LEN ELSE kbd.keysToRead + 1
    BY StoreFacts DEF DataState
<1>2. /\ pending \in Seq(Keys) /\ n \in Nat /\ kbd.keysToRead = n /\ kbd.keysToRead \in 0..BUFF_LEN
      /\ BUFF_LEN \in Nat /\ BUFF_LEN >= 1 /\ r \in 0..(BUFF_LEN - 1) /\ w \in 0..(BUFF_LEN - 1)
      /\ kbd.buffer \in [0..(BUFF_LEN - 1) -> Keys \cup {NoKey}]
    BY KbdFields, KbdConstants DEF DataState, RingOrder
<1>3. CASE full
    <2> DEFINE t == Tail(pending)
    <2>1. t \in Seq(Keys) /\ Len(t) = n - 1
        BY <1>2, <1>3
    <2> HIDE DEF t
    <2>2. pending' = Append(t, key) /\ lost' = TRUE
        BY <1>3 DEF t
    <2>3. pending' \in Seq(Keys) /\ Len(pending') = n
        BY <1>2, <2>1, <2>2
    <2> QED BY <1>1, <1>2, <1>3, <2>2, <2>3 DEF RingOrder
<1>4. CASE ~full
    <2>1. /\ pending' \in Seq(Keys) /\ Len(pending') = n + 1
          /\ \A j \in 1..(n + 1) : pending'[j] = IF j = n + 1 THEN key ELSE pending[j]
          /\ lost' = lost
        BY <1>2, <1>4 DEF DataState
    <2>2. n < BUFF_LEN /\ kbd'.keysToRead = n + 1
        BY <1>1, <1>2, <1>4
    <2>3. ASSUME ~lost
          PROVE  /\ kbd'.write_idx = (r + (n + 1)) % BUFF_LEN
                 /\ \A j \in 1..(n + 1) : kbd'.buffer[(r + j - 1) % BUFF_LEN] = pending'[j]
        <3>1. /\ w = (r + n) % BUFF_LEN
              /\ \A j \in 1..n : kbd.buffer[(r + j - 1) % BUFF_LEN] = pending[j]
            BY <2>3 DEF RingOrder
        <3> HIDE DEF n, r, w
        <3>2. w = IF r + n < BUFF_LEN THEN r + n ELSE (r + n) - BUFF_LEN
            <4>1. n \in 0..BUFF_LEN
                BY <1>2, <2>2
            <4> QED BY <1>2, <3>1, <4>1, RingIndex
        <3>3. (r + (n + 1)) % BUFF_LEN
                = IF r + (n + 1) < BUFF_LEN THEN r + (n + 1) ELSE (r + (n + 1)) - BUFF_LEN
            <4>1. n + 1 \in 0..BUFF_LEN
                BY <1>2, <2>2
            <4> QED BY <1>2, <4>1, RingIndex
        <3>4. kbd'.write_idx = (r + (n + 1)) % BUFF_LEN
            BY <1>1, <1>2, <2>2, <3>2, <3>3
        <3>5. ASSUME NEW j \in 1..(n + 1)
              PROVE  kbd'.buffer[(r + j - 1) % BUFF_LEN] = pending'[j]
            <4> DEFINE x == (r + (j - 1)) % BUFF_LEN
            <4>1. j - 1 \in 0..BUFF_LEN /\ r + j - 1 = r + (j - 1)
                BY <1>2, <2>2
            <4>2. /\ x = IF r + (j - 1) < BUFF_LEN THEN r + (j - 1) ELSE (r + (j - 1)) - BUFF_LEN
                  /\ x \in 0..(BUFF_LEN - 1)
                BY <1>2, <4>1, RingIndex
            <4> HIDE DEF x
            <4>3. x = w <=> j = n + 1
                BY <1>2, <2>2, <3>2, <4>2
            <4>4. kbd'.buffer[x] = IF j = n + 1 THEN key ELSE kbd.buffer[x]
                BY <1>1, <1>2, <4>2, <4>3
            <4>5. j # n + 1 => kbd.buffer[x] = pending[j]
                BY <1>2, <3>1, <4>1 DEF x
            <4>6. kbd'.buffer[x] = pending'[j]
                BY <2>1, <4>4, <4>5
            <4> QED BY <4>1, <4>6 DEF x
        <3> QED BY <3>4, <3>5
    <2> QED BY <1>1, <2>1, <2>2, <2>3 DEF RingOrder
<1> QED BY <1>3, <1>4

(* A key that is read.                                                     *)
LEMMA FetchOrder ==
    ASSUME DataState, RingOrder, kbd.keysToRead > 0, kbd' = Fetched, pending' = Tail(pending),
           lost' = lost
    PROVE  kbd' \in Keyboards /\ pending' \in Seq(Keys) /\ RingOrder'
<1> DEFINE n == Len(pending)
           r == kbd.read_idx
           s == kbd'.read_idx
<1>1. /\ kbd' \in Keyboards /\ kbd'.buffer = kbd.buffer /\ kbd'.write_idx = kbd.write_idx
      /\ kbd'.keysToRead = kbd.keysToRead - 1
      /\ s = IF r + 1 = BUFF_LEN THEN 0 ELSE r + 1
    BY FetchedFacts DEF DataState
<1>2. /\ pending \in Seq(Keys) /\ n \in Nat /\ kbd.keysToRead = n /\ n > 0 /\ n <= BUFF_LEN
      /\ BUFF_LEN \in Nat /\ BUFF_LEN >= 1 /\ r \in 0..(BUFF_LEN - 1)
    BY KbdFields, KbdConstants DEF DataState, RingOrder
<1>3. /\ pending' \in Seq(Keys) /\ Len(pending') = n - 1
      /\ \A j \in 1..(n - 1) : pending'[j] = pending[j + 1]
    BY <1>2
<1>4. ASSUME ~lost
      PROVE  /\ kbd'.write_idx = (s + (n - 1)) % BUFF_LEN
             /\ \A j \in 1..(n - 1) : kbd'.buffer[(s + j - 1) % BUFF_LEN] = pending'[j]
    <2>1. /\ kbd.write_idx = (r + n) % BUFF_LEN
          /\ \A j \in 1..n : kbd.buffer[(r + j - 1) % BUFF_LEN] = pending[j]
        BY <1>4 DEF RingOrder
    <2> HIDE DEF n, r, s
    <2>2. \A j \in 0..(n - 1) : (s + j) % BUFF_LEN = (r + (j + 1)) % BUFF_LEN
        <3> SUFFICES ASSUME NEW j \in 0..(n - 1)
                     PROVE  (s + j) % BUFF_LEN = (r + (j + 1)) % BUFF_LEN
            OBVIOUS
        <3> DEFINE a == s + j
                   b == r + (j + 1)
        <3>1. s \in 0..(BUFF_LEN - 1) /\ j \in 0..BUFF_LEN /\ j + 1 \in 0..BUFF_LEN
            BY <1>1, <1>2
        <3>2. a % BUFF_LEN = IF a < BUFF_LEN THEN a ELSE a - BUFF_LEN
            BY <3>1, RingIndex, Zenon
        <3>3. b % BUFF_LEN = IF b < BUFF_LEN THEN b ELSE b - BUFF_LEN
            BY <1>2, <3>1, RingIndex, Zenon
        <3>4. a \in Int /\ b \in Int /\ (a = b \/ (a = b - BUFF_LEN /\ b >= BUFF_LEN))
              /\ (a < BUFF_LEN \/ a = b)
            BY <1>1, <1>2
        <3> HIDE DEF a, b
        <3>5. a % BUFF_LEN = b % BUFF_LEN
            BY <1>2, <3>2, <3>3, <3>4
        <3> QED BY <3>5 DEF a, b
    <2>3. kbd'.write_idx = (s + (n - 1)) % BUFF_LEN
        <3>1. n - 1 \in 0..(n - 1) /\ (n - 1) + 1 = n
            BY <1>2
        <3>2. (s + (n - 1)) % BUFF_LEN = (r + ((n - 1) + 1)) % BUFF_LEN
            BY <2>2, <3>1
        <3> QED BY <1>1, <2>1, <3>1, <3>2
    <2>4. ASSUME NEW j \in 1..(n - 1) PROVE kbd'.buffer[(s + j - 1) % BUFF_LEN] = pending'[j]
        <3>1. /\ j - 1 \in 0..(n - 1) /\ j + 1 \in 1..n /\ s + (j - 1) = s + j - 1
              /\ r + ((j - 1) + 1) = r + (j + 1) - 1
            BY <1>1, <1>2
        <3>2. (s + (j - 1)) % BUFF_LEN = (r + ((j - 1) + 1)) % BUFF_LEN
            BY <2>2, <3>1
        <3>3. kbd.buffer[(r + (j + 1) - 1) % BUFF_LEN] = pending[j + 1]
            BY <2>1, <3>1
        <3>4. pending'[j] = pending[j + 1]
            BY <1>3
        <3> QED BY <1>1, <3>1, <3>2, <3>3, <3>4
    <2> QED BY <2>3, <2>4
<1> QED BY <1>1, <1>2, <1>3, <1>4 DEF RingOrder

---------------------------------------------------------------------------
(* What the steps do, in terms of the scheduler and of SEM_READ.           *)

(* SEM_READ as the caller of sys_read finds it after semOpen.              *)
LEMMA OpenedFacts ==
    ASSUME SemState, NEW p \in Pids
    PROVE  LET c == sems[SEM_READ]
               d == Opened(p)
           IN  /\ d \in semaphore /\ ~d.lock /\ d.exists = TRUE
               /\ d.value = IF c.exists THEN c.value ELSE 1
               /\ d.blockedQueue = c.blockedQueue /\ d.activeQueue \in Seq(Pids)
               /\ IsInjective(d.activeQueue) /\ ~c.lock
<1> DEFINE c == sems[SEM_READ]
           d == Opened(p)
<1>1. SEM_READ \in SemIds /\ TRUE \in BOOLEAN
    BY KbdConstants
<1>2. /\ c \in semaphore /\ c.activeQueue \in Seq(Pids) /\ IsInjective(c.activeQueue) /\ ~c.lock
      /\ c.exists \/ c = NoSemaphore
    BY <1>1, SemFields DEF SemState
<1>3. CASE c.exists
    <2> DEFINE q == addToProcessQueue(c.activeQueue, p, TRUE, TRUE)
    <2>1. q \in Seq(Pids) /\ IsInjective(q)
        <3> HIDE DEF c
        <3> QED BY <1>1, <1>2, EnqueueFacts
    <2>2. d = [c EXCEPT !.activeQueue = q]
        BY <1>3 DEF Opened, searchSemaphore
    <2> HIDE DEF q, d, c
    <2>3. /\ d \in semaphore /\ d.lock = c.lock /\ d.exists = c.exists /\ d.value = c.value
          /\ d.activeQueue = q /\ d.blockedQueue = c.blockedQueue
        BY <1>2, <2>1, <2>2 DEF semaphore
    <2> QED BY <1>2, <1>3, <2>1, <2>3 DEF c, d, semaphore
<1>4. CASE ~c.exists
    <2> DEFINE q == <<p>>
               n == NoSemaphore
    <2>1. q \in Seq(Pids) /\ IsInjective(q)
        BY DEF IsInjective
    <2>2. d = [n EXCEPT !.exists = TRUE, !.value = 1, !.activeQueue = q]
        BY <1>4 DEF Opened, searchSemaphore
    <2>3. n \in semaphore /\ ~n.lock /\ c = n /\ 1 \in 0..(Word - 1)
        BY <1>2, <1>4, SemConstants, SchedulerAssumption DEF semaphore, NoSemaphore, HIGH
    <2> HIDE DEF q, d, c, n
    <2>4. /\ d \in semaphore /\ d.lock = n.lock /\ d.exists = TRUE /\ d.value = 1
          /\ d.activeQueue = q /\ d.blockedQueue = n.blockedQueue
        BY <2>1, <2>2, <2>3 DEF semaphore
    <2> QED BY <1>2, <1>4, <2>1, <2>3, <2>4 DEF c, d
<1> QED BY <1>3, <1>4

(* The value that semWait of SEM_READ tests.                               *)
ReadValue == IF sems[SEM_READ].exists THEN sems[SEM_READ].value ELSE 1

(* A frame as it enters the loop.                                          *)
Fresh == [Idle EXCEPT !.at = "loop", !.raw = kbd.rawMode]

(* sys_read: the caller enters the loop, or sleeps in semWait.             *)
LEMMA SysReadFacts ==
    ASSUME SemState, NEW p \in Pids, sys_read(p)
    PROVE  LET c == sems[SEM_READ]
               a == Opened(p).activeQueue
           IN  /\ Caller(p) /\ call[p].at = "user" /\ (Background(p) => p = 1)
               /\ kbd' = kbd /\ pending' = pending /\ lost' = lost /\ IsInjective(a)
               /\ \/ /\ ReadValue > 0 /\ k' = k /\ frame' = frame
                     /\ Became(SEM_READ, TRUE, ReadValue - 1, a, c.blockedQueue)
                     /\ call' = [call EXCEPT ![p] = Fresh]
                  \/ /\ ReadValue = 0 /\ k' = blockProcess(k, p)
                     /\ frame' = [frame EXCEPT ![p] = SEM_READ]
                     /\ Became(SEM_READ, TRUE, 0, a,
                               addToProcessQueue(c.blockedQueue, p, FALSE, TRUE))
                     /\ call' = [call EXCEPT ![p].at = "sem"]
<1> DEFINE c == sems[SEM_READ]
           o == Opened(p)
           q == addToProcessQueue(c.blockedQueue, p, FALSE, TRUE)
           d == [o EXCEPT !.value = o.value - 1]
           e == [o EXCEPT !.blockedQueue = q]
<1>1. /\ o \in semaphore /\ ~o.lock /\ o.exists = TRUE /\ o.value = ReadValue
      /\ o.blockedQueue = c.blockedQueue /\ IsInjective(o.activeQueue) /\ ~c.lock
    BY OpenedFacts DEF ReadValue
<1>2. SEM_READ \in SemIds /\ c.blockedQueue \in Seq(Pids) /\ sems \in [SemIds -> semaphore]
    BY KbdConstants, SemFields DEF SemState
<1>3. /\ Caller(p) /\ call[p].at = "user" /\ (Background(p) => p = 1)
      /\ kbd' = kbd /\ pending' = pending /\ lost' = lost
    BY DEF sys_read, MayCall, InUser, Running, Caller
<1>4. q \in Seq(Pids)
    BY <1>2 DEF addToProcessQueue
<1>5. o.value \in 0..(Word - 1) /\ Word \in Nat
    BY <1>1, SemConstants DEF semaphore
<1>6. CASE o.value > 0
    <2>1. sems' = [sems EXCEPT ![SEM_READ] = d] /\ k' = k /\ frame' = frame
          /\ call' = [call EXCEPT ![p] = Fresh]
        BY <1>1, <1>6 DEF sys_read, OrSpin, Fresh
    <2> HIDE DEF o, c
    <2>2. o.value - 1 \in 0..(Word - 1)
        BY <1>5, <1>6
    <2>3. /\ d \in semaphore /\ d.lock = o.lock /\ d.exists = o.exists /\ d.value = o.value - 1
          /\ d.activeQueue = o.activeQueue /\ d.blockedQueue = o.blockedQueue
        BY <1>1, <2>2 DEF semaphore
    <2> HIDE DEF d
    <2>4. Became(SEM_READ, d.exists, d.value, d.activeQueue, d.blockedQueue)
        BY <1>1, <1>2, <2>1, <2>3, SemUpdate
    <2> QED BY <1>1, <1>3, <1>6, <2>1, <2>3, <2>4 DEF o, c
<1>7. CASE ~(o.value > 0)
    <2>1. sems' = [sems EXCEPT ![SEM_READ] = e] /\ k' = blockProcess(k, p)
          /\ frame' = [frame EXCEPT ![p] = SEM_READ] /\ call' = [call EXCEPT ![p].at = "sem"]
        BY <1>1, <1>7 DEF sys_read, OrSpin
    <2> HIDE DEF o, q, c
    <2>2. o.value = 0
        BY <1>5, <1>7
    <2>3. /\ e \in semaphore /\ e.lock = o.lock /\ e.exists = o.exists /\ e.value = o.value
          /\ e.activeQueue = o.activeQueue /\ e.blockedQueue = q
        BY <1>1, <1>4 DEF semaphore
    <2> HIDE DEF e
    <2>4. Became(SEM_READ, e.exists, e.value, e.activeQueue, e.blockedQueue)
        BY <1>1, <1>2, <2>1, <2>3, SemUpdate
    <2> QED BY <1>1, <1>3, <2>1, <2>2, <2>3, <2>4 DEF o, q, c
<1> QED BY <1>6, <1>7

(* The semPost that ends sys_read.                                         *)
LEMMA EndReadFacts ==
    ASSUME SemState, NEW p \in Pids, EndRead(p), sems[SEM_READ].exists = TRUE
    PROVE  LET c == sems[SEM_READ]
           IN  /\ Caller(p) /\ InLoop(p) /\ kbd.keysToRead > 0 /\ frame' = frame /\ lost' = lost
               /\ kbd' = Fetched /\ pending' = Tail(pending) /\ call' = [call EXCEPT ![p] = Idle]
               /\ k' = yield(wakeup(k, c.blockedQueue))
               /\ Became(SEM_READ, TRUE, (c.value + 1) % Word, c.activeQueue,
                         popBlockedQueue(c.blockedQueue))
<1> DEFINE c == sems[SEM_READ]
           v == (c.value + 1) % Word
           b == popBlockedQueue(c.blockedQueue)
           d == [c EXCEPT !.value = v, !.blockedQueue = b]
<1>1. /\ c \in semaphore /\ ~c.lock /\ c.value \in Int /\ c.blockedQueue \in Seq(Pids)
      /\ SEM_READ \in SemIds /\ sems \in [SemIds -> semaphore]
    BY KbdConstants, SemFields DEF SemState
<1>2. /\ Caller(p) /\ InLoop(p) /\ kbd.keysToRead > 0 /\ frame' = frame /\ lost' = lost
      /\ kbd' = Fetched /\ pending' = Tail(pending) /\ call' = [call EXCEPT ![p] = Idle]
      /\ k' = yield(wakeup(k, c.blockedQueue))
    BY <1>1 DEF EndRead, Reading, Running, Caller, InLoop, OrSpin
<1>3. sems' = [sems EXCEPT ![SEM_READ] = d]
    BY <1>1 DEF EndRead
<1>4. v \in 0..(Word - 1) /\ b \in Seq(Pids)
    <2> DEFINE n == c.value + 1
    <2>1. n \in Int
        BY <1>1
    <2>2. b \in Seq(Pids)
        BY <1>1 DEF popBlockedQueue
    <2> HIDE DEF n
    <2>3. n % Word \in 0..(Word - 1)
        BY <2>1, ModFact
    <2> QED BY <2>2, <2>3 DEF n
<1> HIDE DEF v, b, c
<1>5. /\ d \in semaphore /\ d.lock = c.lock /\ d.exists = c.exists /\ d.value = v
      /\ d.activeQueue = c.activeQueue /\ d.blockedQueue = b
    BY <1>1, <1>4 DEF semaphore
<1> HIDE DEF d
<1>6. Became(SEM_READ, d.exists, d.value, d.activeQueue, d.blockedQueue)
    BY <1>1, <1>3, <1>5, SemUpdate
<1> QED BY <1>2, <1>5, <1>6 DEF c, v, b

(* waitKey without a key.                                                  *)
LEMMA WaitKeyFacts ==
    ASSUME kbd \in Keyboards, NEW p \in Pids, waitKey(p)
    PROVE  /\ Caller(p) /\ InLoop(p) /\ kbd.keysToRead = 0
           /\ sems' = sems /\ frame' = frame /\ pending' = pending /\ lost' = FALSE
           /\ k' = blockProcess(k, kbd'.blockedpid)
           /\ call' = [call EXCEPT ![p].at = "key"]
           /\ kbd' \in Keyboards /\ kbd'.read_idx = kbd.read_idx
           /\ kbd'.write_idx = kbd.read_idx /\ kbd'.keysToRead = 0
           /\ kbd'.blockedpid = IF call[p].at = "loop" THEN p ELSE kbd.blockedpid
<1> DEFINE n == IF call[p].at = "loop" THEN p ELSE kbd.blockedpid
<1>1. /\ Caller(p) /\ InLoop(p) /\ kbd.keysToRead = 0
      /\ sems' = sems /\ frame' = frame /\ pending' = pending /\ lost' = FALSE
      /\ k' = blockProcess(k, kbd'.blockedpid)
      /\ call' = [call EXCEPT ![p].at = "key"]
      /\ kbd' = [kbd EXCEPT !.blockedpid = n, !.write_idx = kbd.read_idx]
    BY DEF waitKey, Reading, Running, Caller, InLoop, Keyboards
<1>2. n \in Pids \cup {0} /\ kbd.read_idx \in 0..(BUFF_LEN - 1)
    BY KbdFields
<1> HIDE DEF n
<1>3. /\ kbd' \in Keyboards /\ kbd'.read_idx = kbd.read_idx
      /\ kbd'.write_idx = kbd.read_idx /\ kbd'.keysToRead = kbd.keysToRead
      /\ kbd'.blockedpid = n
    BY <1>1, <1>2 DEF Keyboards
<1> QED BY <1>1, <1>3 DEF n

---------------------------------------------------------------------------
(* The data is kept by every step, whatever the constants.                 *)

(* One call of sys_read goes on.                                           *)
LEMMA OneCall ==
    ASSUME DataState, NEW p \in Pids, NEW s, Frame(s), Edited(s), call' = [call EXCEPT ![p] = s]
    PROVE  /\ call' \in [Pids -> Calls] /\ call'[p] = s
           /\ \A q \in Pids : q # p => call'[q] = call[q]
           /\ \A q \in Pids : Frame(call'[q]) /\ Edited(call'[q])
<1>1. call \in [Pids -> Calls] /\ s \in Calls
    BY DEF DataState, Frame
<1>2. call' \in [Pids -> Calls] /\ call'[p] = s /\ \A q \in Pids : q # p => call'[q] = call[q]
    BY <1>1
<1>3. \A q \in Pids : Frame(call'[q]) /\ Edited(call'[q])
    BY <1>2 DEF DataState
<1> QED BY <1>2, <1>3

(* A frame that is new, and one that falls asleep.                         *)
LEMMA NewFrames ==
    ASSUME DataState, NEW p \in Pids
    PROVE  /\ Frame(Idle) /\ Edited(Idle) /\ Idle.at = "user"
           /\ Frame(Fresh) /\ Edited(Fresh) /\ Fresh.at = "loop"
           /\ \A at \in {"sem", "loop", "key"} :
                    LET s == [call[p] EXCEPT !.at = at]
                    IN  /\ Frame(s) /\ Edited(s) /\ s.at = at
                        /\ \A t : t = [call EXCEPT ![p].at = at] => t = [call EXCEPT ![p] = s]
<1>2. kbd.rawMode \in BOOLEAN
    BY KbdFields DEF DataState
<1>4. Frame(Fresh) /\ Edited(Fresh) /\ Fresh.at = "loop"
    BY <1>2, IdleFacts DEF Fresh
<1>5. \A at \in {"sem", "loop", "key"} :
            LET s == [call[p] EXCEPT !.at = at]
            IN  Frame(s) /\ Edited(s) /\ s.at = at
    <2> SUFFICES ASSUME NEW at \in {"sem", "loop", "key"}
                 PROVE  LET s == [call[p] EXCEPT !.at = at]
                        IN  Frame(s) /\ Edited(s) /\ s.at = at
        OBVIOUS
    <2> DEFINE c == call[p]
    <2>1. Frame(c) /\ Edited(c) /\ at \in {"user", "sem", "loop", "key"}
        BY DEF DataState
    <2> HIDE DEF c
    <2>2. LET s == [c EXCEPT !.at = at]
          IN  Frame(s) /\ Edited(s) /\ s.at = at
        BY <2>1, AtFacts
    <2> QED BY <2>2 DEF c
<1>6. \A at \in {"sem", "loop", "key"} :
            LET s == [call[p] EXCEPT !.at = at]
            IN  \A t : t = [call EXCEPT ![p].at = at] => t = [call EXCEPT ![p] = s]
    OBVIOUS
<1>7. Frame(Idle) /\ Edited(Idle) /\ Idle.at = "user"
    BY IdleSelf
<1> QED BY <1>4, <1>5, <1>6, <1>7

(* What the data needs of a step.                                          *)
LEMMA KeepsData ==
    ASSUME SemState', kbd' \in Keyboards, pending' \in Seq(Keys), lost' \in BOOLEAN,
           call' \in [Pids -> Calls], \A q \in Pids : Frame(call'[q]) /\ Edited(call'[q]),
           \A q \in Pids : call'[q].at # "user" => sems'[SEM_READ].exists = TRUE,
           \A q \in Pids : frame'[q] \in {User, SEM_READ}
    PROVE  DataState'
BY DEF DataState

(* A step that leaves the ring alone.                                      *)
LEMMA RingSame ==
    ASSUME RingOrder, pending' = pending, lost' = lost, kbd'.buffer = kbd.buffer,
           kbd'.read_idx = kbd.read_idx, kbd'.write_idx = kbd.write_idx,
           kbd'.keysToRead = kbd.keysToRead
    PROVE  RingOrder'
BY DEF RingOrder

(* The semaphores and the scheduler are as they were.                      *)
LEMMA SameSems ==
    ASSUME SemState, k' = k, sems' = sems, frame' = frame
    PROVE  SemState'
BY DEF SemState

(* The scheduler moved, the semaphores and their sleepers did not.         *)
LEMMA SemsStay ==
    ASSUME SemState, IInv(k'), sems' = sems, frame' = frame
    PROVE  SemState'
BY DEF SemState

(* An entry that leaves the driver alone.                                  *)
LEMMA OtherData ==
    ASSUME DataState, RingOrder, OtherEntry
    PROVE  DataState' /\ RingOrder'
<1>1. /\ IInv(k') /\ sems' = sems /\ kbd' = kbd /\ pending' = pending /\ lost' = lost
      /\ frame \in [Pids -> SemIds \cup {User, Dangling}]
    BY NextIInv DEF OtherEntry, DataState, SemState
<1>2. /\ frame' \in [Pids -> SemIds \cup {User, Dangling}]
      /\ \A q \in Pids : frame'[q] = frame[q] \/ frame'[q] = User
    BY <1>1, DropFacts DEF OtherEntry
<1>3. SemState'
    <2>1. \A q \in Pids : frame'[q] \in SemIds => sems'[frame'[q]].exists
        BY <1>1, <1>2, SemConstants DEF DataState, SemState
    <2> QED BY <1>1, <1>2, <2>1 DEF DataState, SemState
<1>4. call' = [q \in Pids |-> IF Alive(k', q) THEN call[q] ELSE Idle]
    BY DEF OtherEntry, Live, Alive
<1>5. call \in [Pids -> Calls] /\ Frame(Idle) /\ Edited(Idle) /\ Idle.at = "user"
    <2>1. 1 \in Pids
        BY Constants1
    <2> QED BY <2>1, NewFrames DEF DataState
<1>6. /\ call' \in [Pids -> Calls]
      /\ \A q \in Pids : call'[q] = call[q] \/ call'[q] = Idle
    BY <1>4, <1>5 DEF Frame
<1>7. /\ \A q \in Pids : Frame(call'[q]) /\ Edited(call'[q])
      /\ \A q \in Pids : call'[q].at # "user" => sems'[SEM_READ].exists = TRUE
    BY <1>1, <1>5, <1>6 DEF DataState
<1>8. /\ kbd \in Keyboards /\ pending \in Seq(Keys) /\ lost \in BOOLEAN
      /\ \A q \in Pids : frame'[q] \in {User, SEM_READ}
    BY <1>2 DEF DataState
<1> QED BY <1>1, <1>3, <1>6, <1>7, <1>8, KeepsData, RingSame

(* The keyboard interrupt.                                                 *)
LEMMA InterruptData ==
    ASSUME DataState, RingOrder, NEW code \in Scancodes, NEW pressed \in BOOLEAN,
           handleKeyboardInterrupt(code, pressed)
    PROVE  DataState' /\ RingOrder'
<1> DEFINE key == KeyOf(code)
           c == IF key = "LCTRL" THEN pressed ELSE kbd.ctrl
           s == [kbd EXCEPT !.isSpecialKey = FALSE, !.ctrl = c]
           full == kbd.keysToRead = BUFF_LEN
<1>1. /\ InTable(code) /\ key # "none" /\ k' = WakeReader(pressed)
      /\ sems' = sems /\ frame' = frame /\ call' = call
      /\ lost' = (lost \/ (pressed /\ full))
      /\ pending' = CASE ~pressed -> pending
                      [] pressed /\ ~full -> Append(pending, key)
                      [] pressed /\ full -> Append(Tail(pending), key)
      /\ kbd' = IF pressed THEN Store(s, key) ELSE s
    BY DEF handleKeyboardInterrupt, Keyboards, DataState
<1>2. key \in Keys
    BY <1>1, KeyFacts
<1>3. c \in BOOLEAN /\ kbd \in Keyboards /\ lost \in BOOLEAN /\ pending \in Seq(Keys)
    BY KbdFields DEF DataState
<1>4. IInv(k')
    <2>1. IInv(k) /\ kbd.blockedpid \in Pids \cup {0}
        BY KbdFields DEF DataState, SemState
    <2> QED BY <1>1, <2>1, WakeFacts DEF WakeReader
<1>5. SemState'
    BY <1>1, <1>4, SemsStay DEF DataState
<1> HIDE DEF c, key
<1>6. CASE ~pressed
    <2>1. kbd' = s /\ pending' = pending /\ lost' = lost
        BY <1>1, <1>3, <1>6
    <2>2. /\ s \in Keyboards /\ s.buffer = kbd.buffer /\ s.read_idx = kbd.read_idx
          /\ s.write_idx = kbd.write_idx /\ s.keysToRead = kbd.keysToRead
        BY <1>2, <1>3, StoreFacts
    <2>3. RingOrder'
        BY <2>1, <2>2, RingSame
    <2>4. kbd' \in Keyboards /\ pending' \in Seq(Keys) /\ lost' \in BOOLEAN
        BY <1>3, <2>1, <2>2
    <2> QED BY <1>1, <1>5, <2>3, <2>4 DEF DataState
<1>7. CASE pressed
    <2>1. /\ kbd' = Store(s, key) /\ lost' = (lost \/ full)
          /\ pending' = IF full THEN Append(Tail(pending), key) ELSE Append(pending, key)
        BY <1>1, <1>7
    <2>2. Store(s, key) \in Keyboards
        BY <1>2, <1>3, StoreFacts
    <2>3. pending' \in Seq(Keys) /\ lost' \in BOOLEAN /\ RingOrder'
        <3> DEFINE f == full
        <3>1. f \in BOOLEAN /\ (f <=> kbd.keysToRead = BUFF_LEN)
            OBVIOUS
        <3>2. lost' = (lost \/ f) /\ pending' = IF f THEN Append(Tail(pending), key) ELSE Append(pending, key)
            BY <2>1
        <3> HIDE DEF f
        <3> QED BY <1>2, <1>3, <2>1, <3>1, <3>2, StoreOrder
    <2> QED BY <1>1, <1>5, <2>1, <2>2, <2>3 DEF DataState
<1> QED BY <1>6, <1>7

(* sys_read, up to the loop or to the sleep.                               *)
LEMMA ReadData ==
    ASSUME DataState, RingOrder, NEW p \in Pids, sys_read(p)
    PROVE  DataState' /\ RingOrder'
<1> DEFINE c == sems[SEM_READ]
           a == Opened(p).activeQueue
           q == addToProcessQueue(c.blockedQueue, p, FALSE, TRUE)
<1>1. /\ Caller(p) /\ kbd' = kbd /\ pending' = pending /\ lost' = lost /\ IsInjective(a)
      /\ \/ /\ k' = k /\ frame' = frame
            /\ Became(SEM_READ, TRUE, ReadValue - 1, a, c.blockedQueue)
            /\ call' = [call EXCEPT ![p] = Fresh]
         \/ /\ k' = blockProcess(k, p) /\ frame' = [frame EXCEPT ![p] = SEM_READ]
            /\ Became(SEM_READ, TRUE, 0, a, q) /\ call' = [call EXCEPT ![p].at = "sem"]
    BY SysReadFacts DEF DataState
<1>2. SemState /\ frame \in [Pids -> SemIds \cup {User, Dangling}] /\ SEM_READ \in SemIds
    BY KbdConstants DEF DataState, SemState
<1>3. IInv(k')
    <2>1. IInv(k) /\ k.cpu = p
        BY <1>1 DEF DataState, SemState, Caller
    <2>2. IInv(blockProcess(k, p))
        BY <2>1, BlockFacts
    <2>3. k' = k \/ k' = blockProcess(k, p)
        BY <1>1
    <2> QED BY <2>1, <2>2, <2>3
<1>4. /\ frame' \in [Pids -> SemIds \cup {User, Dangling}]
      /\ \A x \in Pids : frame'[x] = frame[x] \/ frame'[x] = SEM_READ
    BY <1>1, <1>2
<1> HIDE DEF a, q
<1>5. SemState'
    <2>1. \A x \in Pids : frame'[x] \in SemIds =>
                \/ frame'[x] = frame[x] /\ (frame[x] # SEM_READ \/ TRUE = TRUE)
                \/ frame'[x] = SEM_READ /\ TRUE = TRUE
        BY <1>4
    <2>2. CASE Became(SEM_READ, TRUE, ReadValue - 1, a, c.blockedQueue)
        <3> DEFINE v == ReadValue - 1
        <3> HIDE DEF v, c
        <3> QED BY <1>1, <1>2, <1>3, <1>4, <2>1, <2>2, KeepsSemState DEF v, c
    <2>3. CASE Became(SEM_READ, TRUE, 0, a, q)
        <3> DEFINE v == 0
        <3> HIDE DEF v
        <3> QED BY <1>1, <1>2, <1>3, <1>4, <2>1, <2>3, KeepsSemState DEF v
    <2> QED BY <1>1, <2>2, <2>3
<1>6. sems'[SEM_READ].exists = TRUE
    BY <1>1 DEF Became
<1>7. /\ call' \in [Pids -> Calls] /\ \A x \in Pids : Frame(call'[x]) /\ Edited(call'[x])
    BY <1>1, NewFrames, OneCall
<1>8. /\ kbd' \in Keyboards /\ pending' \in Seq(Keys) /\ lost' \in BOOLEAN
      /\ \A x \in Pids : frame'[x] \in {User, SEM_READ}
    BY <1>1, <1>4 DEF DataState
<1> QED BY <1>1, <1>5, <1>6, <1>7, <1>8, KeepsData, RingSame

(* The rest of semWait.                                                    *)
LEMMA ReadWakeData ==
    ASSUME DataState, RingOrder, NEW p \in Pids, ReadWake(p)
    PROVE  DataState' /\ RingOrder'
<1>1. /\ SemWake(p) /\ kbd' = kbd /\ pending' = pending /\ lost' = lost
      /\ call' = [call EXCEPT ![p] = Fresh]
    BY DEF ReadWake, Fresh
<1>2. SemState'
    BY <1>1, SemStateNext DEF SemNext, DataState
<1>3. /\ frame[p] \in SemIds /\ frame' = [frame EXCEPT ![p] = User]
      /\ Became(frame[p], TRUE, (sems[frame[p]].value - 1) % Word, sems[frame[p]].activeQueue,
                sems[frame[p]].blockedQueue)
    BY <1>1, SemWakeFacts DEF DataState
<1>4. frame[p] = SEM_READ
    BY <1>3, SemConstants DEF DataState
<1>5. sems'[SEM_READ].exists = TRUE
    BY <1>3, <1>4 DEF Became
<1>6. call' \in [Pids -> Calls] /\ \A x \in Pids : Frame(call'[x]) /\ Edited(call'[x])
    BY <1>1, NewFrames, OneCall
<1>7. /\ kbd' \in Keyboards /\ pending' \in Seq(Keys) /\ lost' \in BOOLEAN
      /\ \A x \in Pids : frame'[x] \in {User, SEM_READ}
    BY <1>1, <1>3 DEF DataState, SemState
<1> QED BY <1>1, <1>2, <1>5, <1>6, <1>7, KeepsData, RingSame

(* waitKey brings the two indices together, so that an overflow is over.   *)
LEMMA WaitKeyData ==
    ASSUME DataState, RingOrder, NEW p \in Pids, waitKey(p)
    PROVE  DataState' /\ RingOrder'
<1>1. /\ Caller(p) /\ InLoop(p) /\ kbd.keysToRead = 0
      /\ sems' = sems /\ frame' = frame /\ pending' = pending /\ lost' = FALSE
      /\ k' = blockProcess(k, kbd'.blockedpid)
      /\ call' = [call EXCEPT ![p].at = "key"]
      /\ kbd' \in Keyboards /\ kbd'.read_idx = kbd.read_idx
      /\ kbd'.write_idx = kbd.read_idx /\ kbd'.keysToRead = 0
    BY WaitKeyFacts DEF DataState
<1>2. IInv(k')
    <2>1. /\ IInv(k) /\ k.cpu = p /\ k \in KernelState /\ kbd'.blockedpid \in Pids \cup {0}
        BY <1>1 DEF DataState, SemState, Caller, Keyboards, IInv, Core
    <2>2. CASE kbd'.blockedpid \in Pids
        BY <1>1, <2>1, <2>2, BlockFacts
    <2>3. CASE kbd'.blockedpid = 0
        <3>1. Current(k.ready) = p /\ 0 \notin Pids /\ 0 \notin ToSet(k.ready)
            BY <2>1, RunningFacts, SearchFacts, Constants1
        <3>2. k' = k
            BY <1>1, <2>1, <2>3, <3>1, SearchFacts DEF blockProcess
        <3> QED BY <2>1, <3>2
    <2> QED BY <2>1, <2>2, <2>3
<1>3. SemState'
    BY <1>1, <1>2, SemsStay DEF DataState
<1>4. call' \in [Pids -> Calls] /\ \A x \in Pids : Frame(call'[x]) /\ Edited(call'[x])
    BY <1>1, NewFrames, OneCall
<1>5. sems'[SEM_READ].exists = TRUE
    BY <1>1 DEF DataState, InLoop
<1>6. /\ pending' \in Seq(Keys) /\ lost' \in BOOLEAN
      /\ \A x \in Pids : frame'[x] \in {User, SEM_READ}
    BY <1>1 DEF DataState
<1>7. RingOrder'
    <2>1. Len(pending) = 0 /\ kbd.read_idx \in 0..(BUFF_LEN - 1)
        BY <1>1, KbdFields DEF RingOrder, DataState
    <2>2. (kbd.read_idx + 0) % BUFF_LEN = kbd.read_idx
        <3> DEFINE r == kbd.read_idx
        <3>1. r \in 0..(BUFF_LEN - 1) /\ 0 \in 0..BUFF_LEN /\ r + 0 = r /\ r < BUFF_LEN
            BY <2>1, KbdConstants
        <3> HIDE DEF r
        <3> QED BY <3>1, RingIndex DEF r
    <2> QED BY <1>1, <2>1, <2>2 DEF RingOrder
<1> QED BY <1>1, <1>3, <1>4, <1>5, <1>6, <1>7, KeepsData

(* A key that is read, with the frame of its reader.                       *)
LEMMA KeyData ==
    ASSUME DataState, RingOrder, NEW p \in Pids, InLoop(p), k' = k, sems' = sems, frame' = frame,
           kbd.keysToRead > 0, kbd' = Fetched, pending' = Tail(pending), lost' = lost,
           NEW s, Frame(s), Edited(s), call' = [call EXCEPT ![p] = s]
    PROVE  DataState' /\ RingOrder'
<1>1. kbd' \in Keyboards /\ pending' \in Seq(Keys) /\ RingOrder'
    BY FetchOrder
<1>2. SemState'
    BY SameSems DEF DataState
<1>3. call' \in [Pids -> Calls] /\ \A x \in Pids : Frame(call'[x]) /\ Edited(call'[x])
    BY OneCall
<1>4. /\ sems'[SEM_READ].exists = TRUE /\ lost' \in BOOLEAN
      /\ \A x \in Pids : frame'[x] \in {User, SEM_READ}
    BY DEF DataState, InLoop
<1> QED BY <1>1, <1>2, <1>3, <1>4, KeepsData

(* The end of sys_read.                                                    *)
LEMMA EndData ==
    ASSUME DataState, RingOrder, NEW p \in Pids, EndRead(p)
    PROVE  DataState' /\ RingOrder'
<1> DEFINE c == sems[SEM_READ]
           v == (c.value + 1) % Word
           b == popBlockedQueue(c.blockedQueue)
<1>1. c.exists = TRUE
    BY DEF EndRead, Reading, DataState
<1>2. /\ Caller(p) /\ InLoop(p) /\ kbd.keysToRead > 0 /\ frame' = frame /\ lost' = lost
      /\ kbd' = Fetched /\ pending' = Tail(pending) /\ call' = [call EXCEPT ![p] = Idle]
      /\ k' = yield(wakeup(k, c.blockedQueue))
      /\ Became(SEM_READ, TRUE, v, c.activeQueue, b)
    BY <1>1, EndReadFacts DEF DataState
<1>3. /\ SemState /\ frame \in [Pids -> SemIds \cup {User, Dangling}] /\ SEM_READ \in SemIds
      /\ c.blockedQueue \in Seq(Pids) /\ IsInjective(c.activeQueue) /\ IInv(k)
    BY KbdConstants, SemFields DEF DataState, SemState
<1>4. IInv(k')
    <2>1. k.cpu = p
        BY <1>2 DEF Caller
    <2> QED BY <1>2, <1>3, <2>1, PostLists
<1> HIDE DEF v, b
<1>5. SemState'
    BY <1>2, <1>3, <1>4, KeepsSemState
<1>6. kbd' \in Keyboards /\ pending' \in Seq(Keys) /\ RingOrder'
    BY <1>2, FetchOrder
<1>7. call' \in [Pids -> Calls] /\ \A x \in Pids : Frame(call'[x]) /\ Edited(call'[x])
    BY <1>2, IdleSelf, OneCall
<1>8. /\ sems'[SEM_READ].exists = TRUE /\ lost' \in BOOLEAN
      /\ \A x \in Pids : frame'[x] \in {User, SEM_READ}
    BY <1>2 DEF DataState, Became
<1> QED BY <1>5, <1>6, <1>7, <1>8, KeepsData

(* DataState and RingOrder are inductive.                                  *)
LEMMA DataNext ==
    ASSUME DataState, RingOrder, [KbdNext]_kbdVars
    PROVE  DataState' /\ RingOrder'
<1>1. CASE OtherEntry
    BY <1>1, OtherData
<1>2. ASSUME NEW s \in BOOLEAN, kbd' = [kbd EXCEPT !.isSpecialKey = s],
             UNCHANGED <<k, sems, frame, call, pending, lost>>
      PROVE  DataState' /\ RingOrder'
    <2>1. /\ kbd' \in Keyboards /\ kbd'.buffer = kbd.buffer /\ kbd'.read_idx = kbd.read_idx
          /\ kbd'.write_idx = kbd.write_idx /\ kbd'.keysToRead = kbd.keysToRead
        BY <1>2 DEF Keyboards, DataState
    <2>2. SemState'
        BY <1>2, SameSems DEF DataState
    <2> QED BY <1>2, <2>1, <2>2, RingSame DEF DataState
<1>3. CASE PrefixByte
    BY <1>2, <1>3 DEF PrefixByte
<1>4. CASE \E code \in Scancodes : UnknownByte(code)
    BY <1>2, <1>4 DEF UnknownByte
<1>5. CASE \E code \in Scancodes, pressed \in BOOLEAN : handleKeyboardInterrupt(code, pressed)
    BY <1>5, InterruptData
<1>6. CASE \E p \in Pids : sys_readBackground(p)
    <2>1. PICK p \in Pids : k.cpu = p /\ k' = blockProcess(k, p)
        BY <1>6 DEF sys_readBackground, MayCall, InUser, Running
    <2>2. UNCHANGED <<sems, frame, kbd, call, pending, lost>>
        BY <1>6 DEF sys_readBackground
    <2>3. IInv(k')
        BY <2>1, BlockFacts DEF DataState, SemState
    <2>4. SemState'
        BY <2>2, <2>3, SemsStay DEF DataState
    <2> QED BY <2>2, <2>4, RingSame DEF DataState
<1>7. CASE \E p \in Pids : sys_read(p) \/ ReadWake(p) \/ waitKey(p) \/ EndRead(p)
    BY <1>7, ReadData, ReadWakeData, WaitKeyData, EndData
<1>8. ASSUME NEW p \in Pids, SkipKey(p) PROVE DataState' /\ RingOrder'
    <2> DEFINE s == [call[p] EXCEPT !.at = "loop"]
    <2>1. /\ InLoop(p) /\ k' = k /\ sems' = sems /\ frame' = frame /\ kbd.keysToRead > 0
          /\ kbd' = Fetched /\ pending' = Tail(pending) /\ lost' = lost
          /\ call' = [call EXCEPT ![p].at = "loop"]
        BY <1>8 DEF SkipKey, Reading, InLoop
    <2>2. Frame(s) /\ Edited(s) /\ call' = [call EXCEPT ![p] = s]
        BY <2>1, NewFrames
    <2> HIDE DEF s
    <2> QED BY <2>1, <2>2, KeyData
<1>9. ASSUME NEW p \in Pids, ReadKey(p) PROVE DataState' /\ RingOrder'
    <2> DEFINE c == Ascii(kbd.buffer[kbd.read_idx], kbd.ctrl)
               s == Turn(call[p], c)
    <2>1. /\ InLoop(p) /\ k' = k /\ sems' = sems /\ frame' = frame /\ kbd.keysToRead > 0
          /\ kbd' = Fetched /\ pending' = Tail(pending) /\ lost' = lost
          /\ call' = [call EXCEPT ![p] = s]
          /\ HasAscii(kbd.buffer[kbd.read_idx]) /\ ~Ends(p, c)
        BY <1>9 DEF ReadKey, Reading, InLoop
    <2>2. c \in Characters
        BY <2>1, KeyFacts
    <2>3. Frame(call[p]) /\ Edited(call[p])
        BY DEF DataState
    <2> HIDE DEF c
    <2>4. Frame(s) /\ Edited(s)
        BY <2>1, <2>2, <2>3, TurnFacts
    <2> HIDE DEF s
    <2> QED BY <2>1, <2>4, KeyData
<1>10. CASE \E p \in Pids, setRaw \in RawModes : sys_setTerminalRawMode(p, setRaw)
    <2>1. PICK p \in Pids, setRaw \in RawModes : sys_setTerminalRawMode(p, setRaw)
        BY <1>10
    <2>2. /\ kbd' = [kbd EXCEPT !.rawMode = setRaw] /\ setRaw \in BOOLEAN
          /\ UNCHANGED <<k, sems, frame, call, pending, lost>>
        BY <2>1, KbdConstants DEF sys_setTerminalRawMode
    <2>3. /\ kbd' \in Keyboards /\ kbd'.buffer = kbd.buffer /\ kbd'.read_idx = kbd.read_idx
          /\ kbd'.write_idx = kbd.write_idx /\ kbd'.keysToRead = kbd.keysToRead
        BY <2>2 DEF Keyboards, DataState
    <2>4. SemState'
        BY <2>2, SameSems DEF DataState
    <2> QED BY <2>2, <2>3, <2>4, RingSame DEF DataState
<1>11. CASE UNCHANGED kbdVars
    <2>1. /\ UNCHANGED <<k, sems, frame, call, pending, lost>> /\ kbd' = kbd
        BY <1>11 DEF kbdVars
    <2>2. SemState'
        BY <2>1, SameSems DEF DataState
    <2> QED BY <2>1, <2>2, RingSame DEF DataState
<1> QED BY <1>1, <1>3, <1>4, <1>5, <1>6, <1>7, <1>8, <1>9, <1>10, <1>11 DEF KbdNext

(* The keyboard when the machine starts.                                   *)
LEMMA DataInit ==
    KbdInit => DataState /\ RingOrder
<1> SUFFICES ASSUME KbdInit PROVE DataState /\ RingOrder
    OBVIOUS
<1> DEFINE b == [j \in 0..(BUFF_LEN - 1) |-> NoKey]
           R == [0..(BUFF_LEN - 1) -> Keys \cup {NoKey}]
           n == <<>>
<1>1. SemState /\ frame = [p \in Pids |-> User]
    BY SemStateInit DEF KbdInit, SemInit
<1>2. b \in R /\ n \in Seq(Keys) /\ Len(n) = 0
    OBVIOUS
<1>3. /\ kbd = [buffer |-> b, read_idx |-> 0, write_idx |-> 0, keysToRead |-> 0, blockedpid |-> 0,
                isSpecialKey |-> FALSE, ctrl |-> FALSE, rawMode |-> FALSE]
      /\ call = [p \in Pids |-> Idle] /\ pending = n /\ lost = FALSE
    BY DEF KbdInit
<1>4. Keyboards = [buffer : R, read_idx : 0..(BUFF_LEN - 1), write_idx : 0..(BUFF_LEN - 1),
                   keysToRead : 0..BUFF_LEN, blockedpid : Pids \cup {0},
                   isSpecialKey : BOOLEAN, ctrl : BOOLEAN, rawMode : BOOLEAN]
    BY DEF Keyboards
<1>5. 0 \in 0..(BUFF_LEN - 1) /\ 0 \in 0..BUFF_LEN /\ 0 \in Pids \cup {0}
    BY KbdConstants
<1> HIDE DEF b, R, n
<1>6. kbd \in Keyboards
    BY <1>2, <1>3, <1>4, <1>5
<1>7. /\ call \in [Pids -> Calls]
      /\ \A p \in Pids : Frame(call[p]) /\ Edited(call[p]) /\ call[p].at = "user"
    BY <1>3, IdleSelf DEF Frame
<1>8. \A p \in Pids : frame[p] \in {User, SEM_READ}
    BY <1>1
<1>9. DataState
    BY <1>1, <1>2, <1>3, <1>6, <1>7, <1>8 DEF DataState
<1>10. RingOrder
    <2>1. (0 + 0) % BUFF_LEN = 0
        <3>1. 0 \in 0..(BUFF_LEN - 1) /\ 0 \in 0..BUFF_LEN /\ 0 + 0 = 0 /\ 0 < BUFF_LEN
            BY KbdConstants
        <3> QED BY <3>1, KbdConstants
    <2> QED BY <1>2, <1>3, <2>1 DEF RingOrder
<1> QED BY <1>9, <1>10

(* The driver's data stays within its types, and readKey hands the keys    *)
(* out in the order in which handleKeyboardInterrupt stored them, none     *)
(* twice and none missing, until a key is lost because the ring is full;   *)
(* the next waitKey that finds it empty puts the indices right.  Nothing   *)
(* is assumed of the processes: whoever is killed, blocked or woken.       *)
THEOREM KeyOrderCorrect ==
    KbdSpec => []KeysInOrder
<1>1. DataState /\ RingOrder => KeysInOrder
    BY DEF DataState, RingOrder, KeysInOrder, KbdTypeOK, SemState, SemTypeOK, TypeOK, IInv, Core
<1>2. DataState /\ RingOrder /\ [KbdNext]_kbdVars => DataState' /\ RingOrder'
    BY DataNext
<1> QED BY <1>1, <1>2, DataInit, PTL DEF KbdSpec

(* The buffer of a caller of sys_read holds its line as it was edited: a   *)
(* backspace takes back one character and never runs below the start.      *)
THEOREM LineEditedCorrect ==
    KbdSpec => []LineEdited
<1>1. DataState => LineEdited
    BY DEF DataState, Edited, LineEdited
<1>2. DataState /\ RingOrder /\ [KbdNext]_kbdVars => DataState' /\ RingOrder'
    BY DataNext
<1> QED BY <1>1, <1>2, DataInit, PTL DEF KbdSpec

---------------------------------------------------------------------------
(* One reader at a time.  The shell shares the console with one process,   *)
(* as it does with the program it runs in the foreground.  The program may *)
(* fail or end, and others may be killed, blocked and woken by anybody:    *)
(* only the two are woken by nobody else, and the program is not killed.   *)
OneConsole ==
    /\ \E c \in Pids : Consoles \subseteq {1, c}
    /\ 1 \notin Faulty
    /\ (Third \cup Readers) \cap (Consoles \cup {1}) = {}
    /\ Victims \cap (Consoles \ {1}) = {}

(* Who may read.                                                           *)
ReadersKnown ==
    \A p \in Pids : /\ frame[p] = SEM_READ <=> call[p].at = "sem"
                    /\ call[p].at # "user" => p \in Consoles \cup {1} /\ Alive(k, p)
                    /\ p \in Consoles \cup {1} \/ k.pcb[p].background = "BACKGROUND"

(* The unit of SEM_READ is available, or with the one reader.              *)
ReadUnit ==
    /\ \A p, q \in Pids : InLoop(p) /\ InLoop(q) => p = q
    /\ sems[SEM_READ].exists =>
            sems[SEM_READ].value = IF \E p \in Pids : InLoop(p) THEN 0 ELSE 1

(* Who sleeps in SEM_READ: a process just woken, which runs, or the        *)
(* processes in its queue, while one of the others is at work.             *)
ReadQueue ==
    /\ \A p \in Pids : frame[p] = SEM_READ =>
            \/ p \in ToSet(k.ready) /\ k.cpu = p /\ \A q \in Pids : ~InLoop(q)
            \/ /\ p \in ToSet(k.blocked) /\ p \in ToSet(sems[SEM_READ].blockedQueue)
               /\ \/ \E q \in Pids : InLoop(q)
                  \/ k.cpu \in Pids /\ frame[k.cpu] = SEM_READ
    /\ IsInjective(sems[SEM_READ].blockedQueue)
    /\ \A q \in ToSet(sems[SEM_READ].blockedQueue) : frame[q] = SEM_READ /\ q \in ToSet(k.blocked)

(* blockedpid names the reader asleep in waitKey, which sleeps only while  *)
(* there is no key.                                                        *)
KeyWaiter ==
    /\ \A p \in Pids : call[p].at = "loop" => k.cpu = p
    /\ \A p \in Pids : call[p].at = "key" =>
            kbd.blockedpid = p /\ (p \in ToSet(k.blocked) => kbd.keysToRead = 0)
    /\ kbd.blockedpid # 0 => call[kbd.blockedpid].at = "key"

ReadInv == ReadersKnown /\ ReadUnit /\ ReadQueue /\ KeyWaiter

(* A process in user code or at work in the kernel is no sleeper, and then *)
(* every sleeper waits in the queue for the one reader.                    *)
LEMMA Sleepers2Queue ==
    ASSUME DataState, ReadInv, NEW p \in Pids, Caller(p), NEW q \in Pids, frame[q] = SEM_READ
    PROVE  /\ q # p /\ q \in ToSet(k.blocked) /\ q \notin ToSet(k.ready)
           /\ q \in ToSet(sems[SEM_READ].blockedQueue) /\ \E x \in Pids : InLoop(x)
<1>1. frame[p] # SEM_READ /\ k.cpu = p /\ IInv(k)
    BY KbdConstants DEF Caller, DataState, SemState
<1>2. q # p
    BY <1>1
<1>3. /\ q \in ToSet(k.blocked) /\ q \in ToSet(sems[SEM_READ].blockedQueue)
      /\ \E x \in Pids : InLoop(x)
    BY <1>1, <1>2 DEF ReadInv, ReadQueue
<1>4. q \notin ToSet(k.ready)
    BY <1>1, <1>3, StateLists
<1> QED BY <1>2, <1>3, <1>4

(* A step that leaves the kernel, the calls and SEM_READ as they were.     *)
LEMMA SameRead ==
    ASSUME ReadInv, k' = k, call' = call, sems' = sems, frame' = frame,
           kbd'.blockedpid = kbd.blockedpid, kbd'.keysToRead = kbd.keysToRead
    PROVE  ReadInv'
BY DEF ReadInv, ReadersKnown, ReadUnit, ReadQueue, KeyWaiter, InLoop

(* An entry that leaves the driver alone wakes and ends neither a sleeper  *)
(* nor the reader.                                                         *)
LEMMA OtherRead ==
    ASSUME OneConsole, DataState, ReadInv, OtherEntry
    PROVE  ReadInv'
<1> DEFINE W == Readers \cup Third \cup {x \in {1} : k.cpu \in Pids /\ HandsBack(k, k.cpu)}
           V == (Victims \ {1}) \cup {k.cpu}
           B == Third \cup {k.cpu}
           D == Consoles \cup {1}
<1>1. /\ IInv(k) /\ IInv(k') /\ Next /\ Outside /\ DropFrames /\ sems' = sems /\ kbd' = kbd
      /\ frame \in [Pids -> SemIds \cup {User, Dangling}]
      /\ call' = [q \in Pids |-> IF Alive(k', q) THEN call[q] ELSE Idle]
    BY NextIInv DEF OtherEntry, DataState, SemState, Live, Alive
<1>2. \A q \in Pids : k.cpu = q => call[q].at = "user" /\ frame[q] = User
    BY <1>1 DEF Outside, OutsideRead, Interruptible
<1>3. \A q \in Victims \ {1} : q \notin D
    BY DEF OneConsole
<1>4. \A q \in (Victims \cup {k.cpu}) \cap Pids : HandsBack(k, q) => 1 \in W
    <2> SUFFICES ASSUME NEW q \in (Victims \cup {k.cpu}) \cap Pids, HandsBack(k, q)
                 PROVE  1 \in W
        OBVIOUS
    <2>1. q # 1 /\ k.pcb[q].background = "FOREGROUND"
        BY DEF HandsBack
    <2>2. q \in D
        BY <2>1 DEF ReadInv, ReadersKnown
    <2>3. q = k.cpu
        BY <1>3, <2>1, <2>2
    <2> QED BY <2>3
<1>5. Moved(k, k', W, V) /\ KeepsFlags(k, k')
    <2>1. /\ Readers \subseteq W /\ Third \subseteq W /\ Victims \ {1} \subseteq V /\ k.cpu \in V
          /\ 1 \notin Faulty
        BY DEF OneConsole
    <2> HIDE DEF W, V
    <2> QED BY <1>1, <1>4, <2>1, NextMovedBy
<1>6. Stays(k, k', B)
    <2>1. Third \subseteq B /\ k.cpu \in B /\ 1 \notin Faulty
        BY DEF OneConsole
    <2> HIDE DEF B
    <2> QED BY <1>1, <2>1, NextStays
<1>7. ASSUME NEW q \in Pids, call[q].at # "user"
      PROVE  /\ Alive(k, q) /\ Alive(k', q) /\ q # k.cpu /\ q \notin V /\ q \notin B /\ q \in D
             /\ q \in W => q = 1
    <2>1. q \in D /\ Alive(k, q)
        BY <1>7 DEF ReadInv, ReadersKnown
    <2>2. q # k.cpu
        BY <1>2, <1>7
    <2>3. q \notin V
        BY <1>3, <2>1, <2>2
    <2>4. Alive(k', q)
        BY <1>5, <2>1, <2>3 DEF Moved
    <2>5. q \notin B /\ q \notin Readers \cup Third
        BY <2>1, <2>2 DEF OneConsole
    <2> QED BY <2>1, <2>2, <2>3, <2>4, <2>5
<1> HIDE DEF V, B
<1>8. \A q \in Pids : /\ Alive(k', q) => call'[q] = call[q] /\ frame'[q] = frame[q]
                      /\ ~Alive(k', q) => call'[q] = Idle /\ frame'[q] = User
    BY <1>1, DropFacts
<1>9. \A q \in Pids : call[q].at # "user" => call'[q] = call[q] /\ frame'[q] = frame[q]
    BY <1>7, <1>8
<1>10. \A q \in Pids : call'[q].at # "user" => call[q].at # "user" /\ call'[q] = call[q]
    BY <1>8, IdleSelf
<1>11. \A q \in Pids : call'[q].at = call[q].at
    BY <1>8, <1>9, IdleSelf
<1>12. \A q \in Pids : frame[q] = SEM_READ <=> frame'[q] = SEM_READ
    BY <1>8, <1>9, KbdConstants DEF ReadInv, ReadersKnown
<1>13. ASSUME NEW q \in Pids, frame[q] = SEM_READ
       PROVE  /\ q \in ToSet(k.blocked) /\ q \in ToSet(k'.blocked)
              /\ q \in ToSet(sems[SEM_READ].blockedQueue) /\ \E x \in Pids : InLoop(x)
    <2>1. call[q].at = "sem"
        BY <1>13 DEF ReadInv, ReadersKnown
    <2>2. q # k.cpu /\ Alive(k, q) /\ Alive(k', q) /\ q \in D
        BY <1>7, <2>1
    <2>3. ~(k.cpu \in Pids /\ frame[k.cpu] = SEM_READ)
        BY <1>2, KbdConstants
    <2>4. /\ q \in ToSet(k.blocked) /\ q \in ToSet(sems[SEM_READ].blockedQueue)
          /\ \E x \in Pids : InLoop(x)
        BY <1>13, <2>2, <2>3 DEF ReadInv, ReadQueue
    <2>5. q \notin W
        <3> SUFFICES ASSUME q \in W PROVE FALSE
            OBVIOUS
        <3>1. q = 1
            BY <1>7, <2>1
        <3>2. k.cpu \in Pids /\ HandsBack(k, k.cpu)
            BY <3>1, <2>2 DEF OneConsole
        <3>3. k.cpu # 1 /\ k.cpu \in D
            BY <3>2 DEF HandsBack, ReadInv, ReadersKnown
        <3>4. PICK x \in Pids : InLoop(x)
            BY <2>4
        <3>5. x # k.cpu /\ x \in D /\ x # 1
            BY <1>7, <2>1, <3>1, <3>4 DEF InLoop
        <3> QED BY <3>3, <3>5 DEF OneConsole
    <2>6. q \notin ToSet(k'.ready)
        <3>1. q \notin ToSet(k.ready)
            BY <1>1, <2>4, StateLists
        <3> QED BY <1>5, <2>2, <2>5, <3>1 DEF Moved
    <2>7. q \in ToSet(k'.blocked)
        BY <1>1, <2>2, <2>6, StateLists
    <2> QED BY <2>4, <2>7
<1> HIDE DEF W
<1>14. ReadersKnown'
    <2> SUFFICES ASSUME NEW q \in Pids
                 PROVE  /\ frame'[q] = SEM_READ <=> call'[q].at = "sem"
                        /\ call'[q].at # "user" => q \in D /\ Alive(k', q)
                        /\ q \in D \/ k'.pcb[q].background = "BACKGROUND"
        BY DEF ReadersKnown
    <2>1. frame'[q] = SEM_READ <=> call'[q].at = "sem"
        BY <1>11, <1>12 DEF ReadInv, ReadersKnown
    <2>2. call'[q].at # "user" => q \in D /\ Alive(k', q)
        BY <1>7, <1>11
    <2>3. q \in D \/ k'.pcb[q].background = "BACKGROUND"
        BY <1>5 DEF ReadInv, ReadersKnown, KeepsFlags
    <2> QED BY <2>1, <2>2, <2>3
<1>15. \A q \in Pids : InLoop(q)' <=> InLoop(q)
    BY <1>11 DEF InLoop
<1>16. ReadUnit'
    BY <1>1, <1>15 DEF ReadInv, ReadUnit
<1>17. ReadQueue'
    <2>1. \A q \in Pids : frame'[q] = SEM_READ =>
                /\ q \in ToSet(k'.blocked) /\ q \in ToSet(sems'[SEM_READ].blockedQueue)
                /\ \E x \in Pids : InLoop(x)'
        BY <1>1, <1>12, <1>13, <1>15
    <2>2. \A q \in ToSet(sems'[SEM_READ].blockedQueue) :
                frame'[q] = SEM_READ /\ q \in ToSet(k'.blocked)
        <3>1. \A q \in ToSet(sems[SEM_READ].blockedQueue) : q \in Pids
            <4>1. sems[SEM_READ].blockedQueue \in Seq(Pids)
                BY KbdConstants, SemFields DEF DataState, SemState
            <4> QED BY <4>1, ListFacts
        <3> QED BY <1>1, <1>12, <1>13, <3>1 DEF ReadInv, ReadQueue
    <2> QED BY <1>1, <2>1, <2>2 DEF ReadInv, ReadQueue
<1>18. KeyWaiter'
    <2>1. \A q \in Pids : call[q].at # "loop"
        BY <1>2 DEF ReadInv, KeyWaiter
    <2>2. ASSUME NEW q \in Pids, call'[q].at = "key", q \in ToSet(k'.blocked)
          PROVE  kbd.keysToRead = 0
        <3>1. call[q].at = "key" /\ Alive(k, q) /\ q \notin B /\ Alive(k', q)
            BY <1>7, <1>11, <2>2
        <3>2. q \notin ToSet(k'.ready)
            BY <1>1, <2>2, StateLists
        <3>3. q \notin ToSet(k.ready)
            BY <1>6, <3>1, <3>2 DEF Stays
        <3>4. q \in ToSet(k.blocked)
            BY <1>1, <3>1, <3>3, StateLists
        <3> QED BY <3>1, <3>4 DEF ReadInv, KeyWaiter
    <2>3. kbd.blockedpid # 0 => kbd.blockedpid \in Pids
        BY KbdFields DEF DataState
    <2> QED BY <1>1, <1>11, <2>1, <2>2, <2>3 DEF ReadInv, KeyWaiter
<1> QED BY <1>14, <1>16, <1>17, <1>18 DEF ReadInv

(* From s to t only b was woken.                                           *)
Unblocked(s, t, b) ==
    /\ t.cpu = s.cpu /\ t.pid = s.pid
    /\ ToSet(s.ready) \subseteq ToSet(t.ready)
    /\ b \in ToSet(s.blocked) => b \in ToSet(t.ready)
    /\ \A q \in Pids : t.pcb[q].background = s.pcb[q].background
    /\ ToSet(t.ready) \cup ToSet(t.blocked) = ToSet(s.ready) \cup ToSet(s.blocked)
    /\ ToSet(t.blocked) \subseteq ToSet(s.blocked)
    /\ ToSet(t.ready) \subseteq ToSet(s.ready) \cup {b}

(* unblockProcess, for a process of any state.                             *)
LEMMA UnblockedFacts ==
    ASSUME NEW s, IInv(s), NEW b \in Pids
    PROVE  Unblocked(s, unblockProcess(s, b), b)
<1> DEFINE none == 0
           t == unblockProcess(s, b)
<1>1. Core(s) /\ AgreeBut(s, none) /\ none \notin ToSet(s.blocked) /\ b \in Int
    BY SearchFacts, Constants1 DEF IInv, Core, Agree
<1> HIDE DEF none
<1>2. /\ t.cpu = s.cpu /\ t.pid = s.pid
      /\ ToSet(s.ready) \subseteq ToSet(t.ready)
      /\ b \in ToSet(s.blocked) => b \in ToSet(t.ready)
      /\ \A q \in Pids : t.pcb[q].background = s.pcb[q].background
      /\ ToSet(t.ready) \cup ToSet(t.blocked) = ToSet(s.ready) \cup ToSet(s.blocked)
      /\ ToSet(t.blocked) \subseteq ToSet(s.blocked)
      /\ ToSet(t.ready) \subseteq ToSet(s.ready) \cup {b}
    BY <1>1, UnblockFacts, ZenonT(60)
<1> HIDE DEF t
<1> QED BY <1>2 DEF Unblocked, t

(* The keyboard interrupt wakes the reader that sleeps in waitKey.         *)
LEMMA InterruptRead ==
    ASSUME DataState, ReadInv, NEW code, NEW pressed \in BOOLEAN,
           handleKeyboardInterrupt(code, pressed)
    PROVE  ReadInv'
<1> DEFINE b == kbd.blockedpid
           s == [kbd EXCEPT !.isSpecialKey = FALSE,
                            !.ctrl = IF KeyOf(code) = "LCTRL" THEN pressed ELSE @]
<1>1. /\ k' = WakeReader(pressed) /\ sems' = sems /\ frame' = frame /\ call' = call
      /\ kbd' = IF pressed THEN Store(s, KeyOf(code)) ELSE s
    BY DEF handleKeyboardInterrupt
<1>2. kbd'.blockedpid = b
    <2>1. s.blockedpid = b /\ kbd \in Keyboards
        BY DEF DataState, Keyboards
    <2>2. s \in [DOMAIN kbd -> {s[x] : x \in DOMAIN kbd}] /\ "blockedpid" \in DOMAIN kbd
        BY <2>1 DEF Keyboards
    <2> QED BY <1>1, <2>1, <2>2 DEF Store, Keyboards
<1>3. IInv(k) /\ b \in Pids \cup {0} /\ 0 \notin Pids /\ kbd.keysToRead \in 0..BUFF_LEN
    BY KbdFields, Constants1 DEF DataState, SemState
<1>4. CASE b = 0
    <2>1. k' = k
        BY <1>1, <1>4 DEF WakeReader
    <2>2. \A q \in Pids : call[q].at # "key"
        BY <1>3, <1>4 DEF ReadInv, KeyWaiter
    <2> QED BY <1>1, <1>2, <2>1, <2>2
            DEF ReadInv, ReadersKnown, ReadUnit, ReadQueue, KeyWaiter, InLoop
<1>5. CASE b # 0
    <2>1. b \in Pids /\ call[b].at = "key" /\ k' = unblockProcess(k, b)
        BY <1>1, <1>3, <1>5 DEF WakeReader, ReadInv, KeyWaiter
    <2> HIDE DEF b
    <2>3. IInv(k')
        BY <1>3, <2>1, WakeFacts
    <2>4. Unblocked(k, k', b)
        BY <1>3, <2>1, UnblockedFacts
    <2>5. \A q \in Pids : Alive(k', q) <=> Alive(k, q)
        BY <1>3, <2>3, <2>4, StateLists DEF Unblocked
    <2>6. \A q \in Pids : q # b /\ q \in ToSet(k.blocked) => q \in ToSet(k'.blocked)
        BY <1>3, <2>4, StateLists DEF Unblocked
    <2>7. b \notin ToSet(k'.blocked)
        BY <2>3, <2>4, StateLists DEF Unblocked
    <2>8. \A q \in Pids : frame[q] = SEM_READ => q # b
        BY <2>1 DEF ReadInv, ReadersKnown
    <2>9. ReadersKnown'
        BY <1>1, <2>4, <2>5 DEF ReadInv, ReadersKnown, Unblocked
    <2>10. ReadUnit'
        BY <1>1 DEF ReadInv, ReadUnit, InLoop
    <2>11. ReadQueue'
        <3>1. \A q \in ToSet(sems[SEM_READ].blockedQueue) : q \in Pids
            <4>1. sems[SEM_READ].blockedQueue \in Seq(Pids)
                BY KbdConstants, SemFields DEF DataState, SemState
            <4> QED BY <4>1, ListFacts
        <3>2. \A q \in ToSet(sems[SEM_READ].blockedQueue) :
                    frame[q] = SEM_READ /\ q \in ToSet(k'.blocked)
            BY <2>6, <2>8, <3>1 DEF ReadInv, ReadQueue
        <3>3. ASSUME NEW q \in Pids, frame[q] = SEM_READ
              PROVE  \/ q \in ToSet(k'.ready) /\ k'.cpu = q /\ \A x \in Pids : ~InLoop(x)
                     \/ /\ q \in ToSet(k'.blocked) /\ q \in ToSet(sems[SEM_READ].blockedQueue)
                        /\ \/ \E x \in Pids : InLoop(x)
                           \/ k'.cpu \in Pids /\ frame[k'.cpu] = SEM_READ
            BY <2>4, <2>6, <2>8, <3>3 DEF ReadInv, ReadQueue, Unblocked
        <3> QED BY <1>1, <3>2, <3>3 DEF ReadInv, ReadQueue, InLoop
    <2>12. KeyWaiter'
        BY <1>1, <1>2, <2>1, <2>4, <2>7 DEF ReadInv, KeyWaiter, Unblocked, b
    <2> QED BY <2>9, <2>10, <2>11, <2>12 DEF ReadInv
<1> QED BY <1>4, <1>5

(* The only reader in the loop.                                            *)
LEMMA Alone ==
    ASSUME DataState, ReadInv, NEW p \in Pids, InLoop(p)
    PROVE  /\ \A q \in Pids : InLoop(q) => q = p
           /\ sems[SEM_READ].exists = TRUE /\ sems[SEM_READ].value = 0
           /\ p \in Consoles \cup {1} /\ Alive(k, p) /\ frame[p] = User
           /\ call[p].at # "sem" /\ call[p].at # "user"
<1>1. call[p].at # "sem" /\ call[p].at # "user"
    BY DEF InLoop
<1>2. sems[SEM_READ].exists = TRUE /\ frame[p] \in {User, SEM_READ}
    BY <1>1 DEF DataState
<1> QED BY <1>1, <1>2 DEF ReadInv, ReadersKnown, ReadUnit

(* A reader that goes on in the loop, with the CPU.                        *)
LEMMA KeyRead ==
    ASSUME DataState, ReadInv, NEW p \in Pids, Caller(p), InLoop(p), k' = k, sems' = sems,
           frame' = frame, kbd'.blockedpid = 0, \A q \in Pids : q # p => call'[q] = call[q],
           call'[p].at = "loop"
    PROVE  ReadInv'
<1>1. /\ \A q \in Pids : InLoop(q) => q = p
      /\ frame[p] = User /\ call[p].at # "sem" /\ call[p].at # "user"
    BY Alone
<1>2. \A q \in Pids : InLoop(q)' <=> InLoop(q)
    BY DEF InLoop
<1>3. ReadersKnown'
    BY <1>1 DEF ReadInv, ReadersKnown
<1>4. ReadUnit'
    BY <1>2 DEF ReadInv, ReadUnit
<1>5. ReadQueue'
    BY <1>2 DEF ReadInv, ReadQueue
<1>6. KeyWaiter'
    <2>1. \A q \in Pids : call'[q].at \in {"loop", "key"} => q = p
        BY <1>1, <1>2 DEF InLoop
    <2> QED BY <2>1 DEF KeyWaiter, Caller
<1> QED BY <1>3, <1>4, <1>5, <1>6 DEF ReadInv

(* The caller blocks itself; the others stay where they are.               *)
LEMMA BlockSelf ==
    ASSUME DataState, NEW p \in Pids, Caller(p), k' = blockProcess(k, p)
    PROVE  /\ \A q \in Pids : Alive(k', q) <=> Alive(k, q)
           /\ \A q \in Pids : q \in ToSet(k'.blocked) <=> q \in ToSet(k.blocked) \/ q = p
           /\ \A q \in Pids : q \in ToSet(k'.ready) <=> q \in ToSet(k.ready) /\ q # p
           /\ Alive(k, p) /\ p \in ToSet(k.ready) /\ KeepsConsole(k, k')
<1>1. IInv(k) /\ k.cpu = p
    BY DEF DataState, SemState, Caller
<1>2. p \in ToSet(k.ready) /\ k.pcb[p].state = "READY"
    BY <1>1, RunningFacts
<1>3. Alive(k, p)
    BY <1>2 DEF Alive
<1>4. /\ ToSet(k'.ready) = ToSet(k.ready) \ {p}
      /\ ToSet(k'.blocked) = ToSet(k.blocked) \cup {p}
      /\ \A q \in Pids : Alive(k', q) <=> Alive(k, q)
      /\ KeepsConsole(k, k')
    BY <1>1, BlockSelfLists
<1> QED BY <1>2, <1>3, <1>4

(* The flags the readers depend on.                                        *)
LEMMA FlagsKept ==
    ASSUME ReadInv, KeepsConsole(k, k'), NEW q \in Pids
    PROVE  q \in Consoles \cup {1} \/ k'.pcb[q].background = "BACKGROUND"
BY DEF ReadInv, ReadersKnown, KeepsConsole

(* The members of the queue of SEM_READ are processes.                     *)
LEMMA QueuePids ==
    ASSUME DataState
    PROVE  /\ sems[SEM_READ].blockedQueue \in Seq(Pids)
           /\ ToSet(sems[SEM_READ].blockedQueue) \subseteq Pids
<1>1. sems[SEM_READ].blockedQueue \in Seq(Pids)
    BY KbdConstants, SemFields DEF DataState, SemState
<1> QED BY <1>1, ListFacts

(* A reader that waits for a key.                                          *)
LEMMA WaitKeyRead ==
    ASSUME DataState, ReadInv, NEW p \in Pids, waitKey(p)
    PROVE  ReadInv'
<1>1. /\ Caller(p) /\ InLoop(p) /\ kbd.keysToRead = 0
      /\ sems' = sems /\ frame' = frame
      /\ k' = blockProcess(k, kbd'.blockedpid)
      /\ call' = [call EXCEPT ![p].at = "key"] /\ kbd'.keysToRead = 0
      /\ kbd'.blockedpid = IF call[p].at = "loop" THEN p ELSE kbd.blockedpid
    BY WaitKeyFacts DEF DataState
<1>2. kbd'.blockedpid = p
    BY <1>1 DEF InLoop, ReadInv, KeyWaiter
<1>3. /\ call'[p].at = "key" /\ \A q \in Pids : q # p => call'[q] = call[q]
    <2>1. call \in [Pids -> Calls]
        BY DEF DataState
    <2> QED BY <1>1, <2>1, NewFrames
<1>4. /\ \A q \in Pids : Alive(k', q) <=> Alive(k, q)
      /\ \A q \in Pids : q \in ToSet(k'.blocked) <=> q \in ToSet(k.blocked) \/ q = p
      /\ \A q \in Pids : q \in ToSet(k'.ready) <=> q \in ToSet(k.ready) /\ q # p
      /\ KeepsConsole(k, k')
    BY <1>1, <1>2, BlockSelf
<1>5. /\ \A q \in Pids : InLoop(q) => q = p
      /\ p \in Consoles \cup {1} /\ Alive(k, p) /\ frame[p] = User
      /\ call[p].at # "sem" /\ call[p].at # "user"
    BY <1>1, Alone
<1>6. \A q \in Pids : InLoop(q)' <=> InLoop(q)
    BY <1>1, <1>3 DEF InLoop
<1>7. ReadersKnown'
    BY <1>1, <1>3, <1>4, <1>5, FlagsKept DEF ReadInv, ReadersKnown
<1>8. ReadUnit'
    BY <1>1, <1>6 DEF ReadInv, ReadUnit
<1>9. ReadQueue'
    <2>1. \A q \in Pids : frame[q] = SEM_READ =>
                /\ q \in ToSet(k.blocked) /\ q \in ToSet(sems[SEM_READ].blockedQueue)
        BY <1>1, Sleepers2Queue
    <2>2. \E q \in Pids : InLoop(q)'
        BY <1>1, <1>6
    <2>3. \A q \in ToSet(sems[SEM_READ].blockedQueue) : q \in ToSet(k'.blocked)
        BY <1>4, QueuePids DEF ReadInv, ReadQueue
    <2> QED BY <1>1, <1>4, <2>1, <2>2, <2>3 DEF ReadInv, ReadQueue
<1>10. KeyWaiter'
    <2>1. \A q \in Pids : q # p => call'[q].at \notin {"loop", "key"}
        BY <1>3, <1>5 DEF InLoop
    <2> QED BY <1>1, <1>2, <1>3, <2>1 DEF KeyWaiter
<1> QED BY <1>7, <1>8, <1>9, <1>10 DEF ReadInv

(* A background process that may not read.                                 *)
LEMMA BackgroundRead ==
    ASSUME DataState, ReadInv, NEW p \in Pids, sys_readBackground(p)
    PROVE  ReadInv'
<1>1. /\ Caller(p) /\ call[p].at = "user" /\ k' = blockProcess(k, p)
      /\ UNCHANGED <<sems, frame, kbd, call, pending, lost>>
    BY DEF sys_readBackground, MayCall, InUser, Running, Caller
<1>2. /\ \A q \in Pids : Alive(k', q) <=> Alive(k, q)
      /\ \A q \in Pids : q \in ToSet(k'.blocked) <=> q \in ToSet(k.blocked) \/ q = p
      /\ KeepsConsole(k, k')
    BY <1>1, BlockSelf
<1>3. ReadersKnown'
    BY <1>1, <1>2, FlagsKept DEF ReadInv, ReadersKnown
<1>4. ReadUnit'
    BY <1>1 DEF ReadInv, ReadUnit, InLoop
<1>5. ReadQueue'
    <2>1. \A q \in Pids : frame[q] = SEM_READ =>
                /\ q \in ToSet(k.blocked) /\ q \in ToSet(sems[SEM_READ].blockedQueue)
                /\ \E x \in Pids : InLoop(x)
        BY <1>1, Sleepers2Queue
    <2>2. \A q \in ToSet(sems[SEM_READ].blockedQueue) : q \in ToSet(k'.blocked)
        BY <1>2, QueuePids DEF ReadInv, ReadQueue
    <2> QED BY <1>1, <1>2, <2>1, <2>2 DEF ReadInv, ReadQueue, InLoop
<1>6. KeyWaiter'
    BY <1>1, <1>2 DEF ReadInv, KeyWaiter, Caller
<1> QED BY <1>3, <1>4, <1>5, <1>6 DEF ReadInv

(* sys_read: the unit is taken, or the caller sleeps behind the reader.    *)
LEMMA ReadRead ==
    ASSUME DataState, ReadInv, NEW p \in Pids, sys_read(p)
    PROVE  ReadInv'
<1> DEFINE c == sems[SEM_READ]
           a == Opened(p).activeQueue
           q0 == c.blockedQueue
           r == addToProcessQueue(q0, p, FALSE, TRUE)
<1>1. /\ Caller(p) /\ call[p].at = "user" /\ (Background(p) => p = 1) /\ kbd' = kbd
      /\ \/ /\ ReadValue > 0 /\ k' = k /\ frame' = frame
            /\ Became(SEM_READ, TRUE, ReadValue - 1, a, q0)
            /\ call' = [call EXCEPT ![p] = Fresh]
         \/ /\ ReadValue = 0 /\ k' = blockProcess(k, p)
            /\ frame' = [frame EXCEPT ![p] = SEM_READ]
            /\ Became(SEM_READ, TRUE, 0, a, r)
            /\ call' = [call EXCEPT ![p].at = "sem"]
    BY SysReadFacts DEF DataState
<1>2. /\ q0 \in Seq(Pids) /\ ToSet(q0) \subseteq Pids /\ call \in [Pids -> Calls]
      /\ frame \in [Pids -> SemIds \cup {User, Dangling}] /\ IsInjective(q0)
      /\ User # SEM_READ /\ frame[p] = User /\ IInv(k) /\ k.cpu = p
    BY <1>1, QueuePids, KbdConstants DEF DataState, SemState, ReadInv, ReadQueue, Caller
<1>3. p \in Consoles \cup {1}
    BY <1>1 DEF ReadInv, ReadersKnown, Background
<1>4. p \in ToSet(k.ready) /\ Alive(k, p) /\ p \notin ToSet(k.blocked)
    <2>1. p \in ToSet(k.ready)
        BY <1>2, RunningFacts
    <2> QED BY <1>2, <2>1, StateLists
<1>5. p \notin ToSet(q0)
    BY <1>4 DEF ReadInv, ReadQueue
<1> HIDE DEF a, q0, r
<1>6. CASE ReadValue > 0
    <2>1. /\ k' = k /\ frame' = frame /\ Became(SEM_READ, TRUE, ReadValue - 1, a, q0)
          /\ call' = [call EXCEPT ![p] = Fresh]
        <3>1. ReadValue # 0
            BY <1>6
        <3> QED BY <1>1, <3>1, Zenon
    <2>2. \A x \in Pids : ~InLoop(x)
        <3> SUFFICES ASSUME NEW x \in Pids, InLoop(x) PROVE FALSE
            OBVIOUS
        <3>1. c.exists = TRUE /\ c.value = 0
            BY Alone
        <3> QED BY <1>6, <3>1 DEF ReadValue
    <2>3. ReadValue = 1
        BY <1>6, <2>2 DEF ReadValue, ReadInv, ReadUnit
    <2>4. \A x \in Pids : frame[x] # SEM_READ
        BY <1>1, <2>2, Sleepers2Queue
    <2>5. call'[p].at = "loop" /\ \A x \in Pids : x # p => call'[x] = call[x]
        BY <1>2, <2>1, NewFrames
    <2>6. \A x \in Pids : InLoop(x)' <=> x = p
        BY <2>2, <2>5 DEF InLoop
    <2>7. sems'[SEM_READ].value = 0 /\ sems'[SEM_READ].blockedQueue = q0
        BY <2>1, <2>3 DEF Became
    <2>8. ReadersKnown'
        BY <1>2, <1>3, <1>4, <2>1, <2>5 DEF ReadInv, ReadersKnown
    <2>9. ReadUnit'
        BY <2>6, <2>7 DEF ReadUnit
    <2>10. ReadQueue'
        BY <1>2, <2>1, <2>4, <2>7 DEF ReadInv, ReadQueue, q0
    <2>11. KeyWaiter'
        <3>1. kbd.blockedpid # 0 => kbd.blockedpid \in Pids
            BY KbdFields DEF DataState
        <3>2. \A x \in Pids : call[x].at # "key"
            BY <2>2 DEF InLoop
        <3>3. kbd'.blockedpid = 0
            BY <1>1, <3>1, <3>2 DEF ReadInv, KeyWaiter
        <3>4. \A x \in Pids : call'[x].at # "key"
            BY <2>5, <3>2
        <3> QED BY <1>2, <2>1, <2>6, <3>3, <3>4 DEF KeyWaiter, InLoop
    <2> QED BY <2>8, <2>9, <2>10, <2>11 DEF ReadInv
<1>7. CASE ReadValue = 0
    <2>1. /\ k' = blockProcess(k, p) /\ frame' = [frame EXCEPT ![p] = SEM_READ]
          /\ Became(SEM_READ, TRUE, 0, a, r) /\ call' = [call EXCEPT ![p].at = "sem"]
        <3>1. ~(ReadValue > 0)
            BY <1>7
        <3> QED BY <1>1, <3>1, Zenon
    <2>2. PICK y \in Pids : InLoop(y)
        BY <1>7 DEF ReadValue, ReadInv, ReadUnit
    <2>3. call'[p].at = "sem" /\ \A x \in Pids : x # p => call'[x] = call[x]
        BY <1>2, <2>1, NewFrames
    <2>4. frame'[p] = SEM_READ /\ \A x \in Pids : x # p => frame'[x] = frame[x]
        BY <1>2, <2>1
    <2>5. \A x \in Pids : InLoop(x)' <=> InLoop(x)
        BY <1>1, <2>3 DEF InLoop
    <2>6. /\ \A x \in Pids : Alive(k', x) <=> Alive(k, x)
          /\ \A x \in Pids : x \in ToSet(k'.blocked) <=> x \in ToSet(k.blocked) \/ x = p
          /\ \A x \in Pids : x \in ToSet(k'.ready) <=> x \in ToSet(k.ready) /\ x # p
          /\ KeepsConsole(k, k')
        BY <1>1, <2>1, BlockSelf
    <2>7. /\ IsInjective(r) /\ p \in ToSet(r)
          /\ \A x \in ToSet(q0) : x \in ToSet(r)
          /\ \A x \in ToSet(r) : x \in ToSet(q0) \/ x = p
        <3>1. TRUE \in BOOLEAN /\ FALSE \in BOOLEAN
            OBVIOUS
        <3> QED BY <1>2, <1>5, <3>1, EnqueueFacts DEF r
    <2>8. sems'[SEM_READ].value = 0 /\ sems'[SEM_READ].blockedQueue = r
        BY <2>1 DEF Became
    <2>9. ReadersKnown'
        BY <1>3, <1>4, <2>3, <2>4, <2>6, FlagsKept DEF ReadInv, ReadersKnown
    <2>10. ReadUnit'
        BY <2>2, <2>5, <2>8 DEF ReadInv, ReadUnit
    <2>11. ReadQueue'
        <3>1. ASSUME NEW x \in Pids, frame'[x] = SEM_READ
              PROVE  x \in ToSet(k'.blocked) /\ x \in ToSet(r)
            <4>1. CASE x = p
                BY <2>6, <2>7, <4>1
            <4>2. CASE x # p
                <5>1. x \in ToSet(k.blocked) /\ x \in ToSet(q0)
                    BY <1>1, <2>4, <3>1, <4>2, Sleepers2Queue DEF q0
                <5> QED BY <2>6, <2>7, <5>1
            <4> QED BY <4>1, <4>2
        <3>2. \E x \in Pids : InLoop(x)'
            BY <2>2, <2>5
        <3>3. ASSUME NEW x \in ToSet(r) PROVE frame'[x] = SEM_READ /\ x \in ToSet(k'.blocked)
            <4>1. CASE x = p
                BY <2>4, <2>6, <4>1
            <4>2. CASE x # p
                <5>1. x \in ToSet(q0) /\ x \in Pids
                    BY <1>2, <2>7, <4>2
                <5>2. frame[x] = SEM_READ /\ x \in ToSet(k.blocked)
                    BY <5>1 DEF ReadInv, ReadQueue, q0
                <5> QED BY <2>4, <2>6, <4>2, <5>1, <5>2
            <4> QED BY <4>1, <4>2
        <3> QED BY <2>7, <2>8, <3>1, <3>2, <3>3 DEF ReadQueue
    <2>12. KeyWaiter'
        <3>1. \A x \in Pids : call[x].at # "loop"
            BY <1>1, <1>2 DEF ReadInv, KeyWaiter
        <3>2. kbd.blockedpid # 0 => kbd.blockedpid \in Pids /\ kbd.blockedpid # p
            BY <1>1, KbdFields DEF DataState, ReadInv, KeyWaiter
        <3> QED BY <1>1, <2>3, <2>6, <3>1, <3>2 DEF ReadInv, KeyWaiter
    <2> QED BY <2>9, <2>10, <2>11, <2>12 DEF ReadInv
<1> QED BY <1>1, <1>6, <1>7

(* The sleeper of semWait takes its unit and enters the loop.              *)
LEMMA ReadWakeRead ==
    ASSUME DataState, ReadInv, NEW p \in Pids, ReadWake(p)
    PROVE  ReadInv'
<1> DEFINE c == sems[SEM_READ]
<1>1. /\ SemWake(p) /\ kbd' = kbd /\ call' = [call EXCEPT ![p] = Fresh]
    BY DEF ReadWake, Fresh
<1>2. /\ frame[p] \in SemIds /\ frame' = [frame EXCEPT ![p] = User] /\ k' = k /\ k.cpu = p
      /\ Became(frame[p], TRUE, (sems[frame[p]].value - 1) % Word, sems[frame[p]].activeQueue,
                sems[frame[p]].blockedQueue)
    BY <1>1, SemWakeFacts DEF DataState
<1>3. frame[p] = SEM_READ /\ IInv(k) /\ frame \in [Pids -> SemIds \cup {User, Dangling}]
      /\ call \in [Pids -> Calls] /\ User # SEM_READ
    BY <1>2, SemConstants, KbdConstants DEF DataState, SemState
<1>4. c.exists = TRUE
    BY <1>3, SemConstants, KbdConstants DEF DataState, SemState, semaphore
<1>5. p \in ToSet(k.ready) /\ Alive(k, p) /\ p \notin ToSet(k.blocked)
    <2>1. p \in ToSet(k.ready)
        BY <1>2, <1>3, RunningFacts
    <2> QED BY <1>3, <2>1, StateLists
<1>6. \A x \in Pids : ~InLoop(x)
    BY <1>3, <1>5 DEF ReadInv, ReadQueue
<1>7. c.value = 1
    BY <1>4, <1>6 DEF ReadInv, ReadUnit
<1>8. (1 - 1) % Word = 0
    <2> DEFINE z == 1 - 1
    <2>1. z = 0 /\ z \in Int /\ z >= 0 /\ z < Word
        BY SchedulerAssumption DEF HIGH
    <2> HIDE DEF z
    <2>2. z % Word = z
        BY <2>1, ModSmall
    <2> QED BY <2>1, <2>2 DEF z
<1>9. sems'[SEM_READ].value = 0 /\ sems'[SEM_READ].blockedQueue = c.blockedQueue
    BY <1>2, <1>3, <1>7, <1>8 DEF Became
<1>10. call'[p].at = "loop" /\ \A x \in Pids : x # p => call'[x] = call[x]
    BY <1>1, <1>3, NewFrames
<1>11. \A x \in Pids : InLoop(x)' <=> x = p
    BY <1>6, <1>10 DEF InLoop
<1>12. frame'[p] = User /\ \A x \in Pids : x # p => frame'[x] = frame[x]
    BY <1>2, <1>3
<1>13. ReadersKnown'
    <2>1. p \in Consoles \cup {1}
        BY <1>3 DEF ReadInv, ReadersKnown
    <2> QED BY <1>2, <1>3, <1>5, <1>10, <1>12, <2>1 DEF ReadInv, ReadersKnown
<1>14. ReadUnit'
    BY <1>9, <1>11 DEF ReadUnit
<1>15. ReadQueue'
    <2>1. ASSUME NEW x \in Pids, frame'[x] = SEM_READ
          PROVE  x \in ToSet(k.blocked) /\ x \in ToSet(c.blockedQueue)
        <3>1. x # p /\ frame[x] = SEM_READ
            BY <1>3, <1>12, <2>1
        <3> QED BY <1>2, <3>1 DEF ReadInv, ReadQueue
    <2>2. ASSUME NEW x \in ToSet(c.blockedQueue)
          PROVE  frame'[x] = SEM_READ /\ x \in ToSet(k.blocked)
        <3>1. x \in Pids /\ frame[x] = SEM_READ /\ x \in ToSet(k.blocked)
            BY QueuePids DEF ReadInv, ReadQueue
        <3> QED BY <1>5, <1>12, <3>1
    <2>3. \E x \in Pids : InLoop(x)'
        BY <1>11
    <2> QED BY <1>2, <1>9, <2>1, <2>2, <2>3 DEF ReadInv, ReadQueue
<1>16. KeyWaiter'
    <2>1. kbd.blockedpid # 0 => kbd.blockedpid \in Pids
        BY KbdFields DEF DataState
    <2>2. \A x \in Pids : call[x].at # "key"
        BY <1>6 DEF InLoop
    <2>3. kbd'.blockedpid = 0
        BY <1>1, <2>1, <2>2 DEF ReadInv, KeyWaiter
    <2>4. \A x \in Pids : call'[x].at # "key"
        BY <1>10, <2>2
    <2> QED BY <1>2, <1>11, <2>3, <2>4 DEF KeyWaiter, InLoop
<1> QED BY <1>13, <1>14, <1>15, <1>16 DEF ReadInv

(* The reader leaves: the unit goes to the first sleeper, which runs next. *)
LEMMA EndReadRead ==
    ASSUME DataState, ReadInv, NEW p \in Pids, EndRead(p)
    PROVE  ReadInv'
<1> DEFINE c == sems[SEM_READ]
           s == c.blockedQueue
           h == Head(s)
           r == popBlockedQueue(s)
<1>1. c.exists = TRUE
    BY DEF EndRead, Reading, DataState
<1>2. /\ Caller(p) /\ InLoop(p) /\ kbd.keysToRead > 0 /\ frame' = frame
      /\ kbd' = Fetched /\ call' = [call EXCEPT ![p] = Idle]
      /\ k' = yield(wakeup(k, s))
      /\ Became(SEM_READ, TRUE, (c.value + 1) % Word, c.activeQueue, r)
    BY <1>1, EndReadFacts DEF DataState
<1>3. /\ \A q \in Pids : InLoop(q) => q = p
      /\ c.value = 0 /\ frame[p] = User /\ call[p].at # "sem"
    BY <1>2, Alone
<1>4. (0 + 1) % Word = 1
    <2> DEFINE z == 0 + 1
    <2>1. z = 1 /\ z \in Int /\ z >= 0 /\ z < Word
        BY SchedulerAssumption DEF HIGH
    <2> HIDE DEF z
    <2>2. z % Word = z
        BY <2>1, ModSmall
    <2> QED BY <2>1, <2>2 DEF z
<1>5. sems'[SEM_READ].value = 1 /\ sems'[SEM_READ].blockedQueue = r
    BY <1>2, <1>3, <1>4 DEF Became
<1>6. /\ s \in Seq(Pids) /\ ToSet(s) \subseteq Pids /\ IsInjective(s) /\ IInv(k) /\ k.cpu = p
      /\ \A q \in ToSet(s) : frame[q] = SEM_READ /\ q \in ToSet(k.blocked)
      /\ call \in [Pids -> Calls] /\ User # SEM_READ
    BY <1>2, QueuePids, KbdConstants
    DEF DataState, SemState, ReadInv, ReadQueue, Caller
<1>7. /\ r \in Seq(Pids) /\ IsInjective(r)
      /\ s = <<>> => r = <<>>
      /\ s # <<>> => \A q : q \in ToSet(r) <=> q \in ToSet(s) /\ q # h
    <2>1. CASE s = <<>>
        BY <1>6, <2>1 DEF popBlockedQueue
    <2>2. CASE s # <<>>
        <3>1. r = Tail(s)
            BY <2>2 DEF popBlockedQueue
        <3> HIDE DEF s, r
        <3> QED BY <1>6, <2>2, <3>1, PopFacts DEF h
    <2> QED BY <2>1, <2>2
<1> HIDE DEF s, r
<1>8. /\ IInv(k') /\ KeepsConsole(k, k')
      /\ \A q \in Pids : Alive(k', q) <=> Alive(k, q)
      /\ \A q \in ToSet(k'.ready) :
            q \in ToSet(k.ready) \/ (s # <<>> /\ q = h /\ q \in ToSet(k.blocked))
      /\ \A q \in ToSet(k.blocked) : q \in ToSet(k'.blocked) \/ (s # <<>> /\ q = h)
      /\ s # <<>> /\ h \in ToSet(k.blocked) => k'.cpu = h
    BY <1>2, <1>6, PostLists
<1>9. s # <<>> => h \in ToSet(s) /\ h \in Pids /\ frame[h] = SEM_READ /\ k'.cpu = h
    <2>1. s # <<>> => h \in ToSet(s)
        BY <1>6, ListFacts
    <2> QED BY <1>6, <1>8, <2>1
<1>10. s # <<>> => h \in ToSet(k'.ready)
    <2>1. s # <<>> => k'.cpu \in Pids
        BY <1>9
    <2> QED BY <1>8, <1>9, <2>1, RunningFacts
<1> HIDE DEF h
<1>11. call'[p].at = "user" /\ \A x \in Pids : x # p => call'[x] = call[x]
    BY <1>2, <1>6, IdleSelf
<1>12. \A x \in Pids : ~InLoop(x)'
    BY <1>3, <1>11 DEF InLoop
<1>13. ReadersKnown'
    BY <1>2, <1>3, <1>6, <1>8, <1>11, FlagsKept DEF ReadInv, ReadersKnown
<1>14. ReadUnit'
    BY <1>5, <1>12 DEF ReadUnit
<1>15. ReadQueue'
    <2>1. ASSUME NEW x \in Pids, frame[x] = SEM_READ
          PROVE  s # <<>> /\ (x # h => x \in ToSet(r) /\ x \in ToSet(k'.blocked))
        <3>1. x \in ToSet(k.blocked) /\ x \in ToSet(s)
            BY <1>2, <2>1, Sleepers2Queue DEF s
        <3>2. s # <<>>
            BY <3>1, EmptyQueue
        <3> QED BY <1>7, <1>8, <3>1, <3>2
    <2>2. \A x \in Pids : frame'[x] = SEM_READ =>
            \/ x \in ToSet(k'.ready) /\ k'.cpu = x /\ \A q \in Pids : ~InLoop(q)'
            \/ /\ x \in ToSet(k'.blocked) /\ x \in ToSet(r)
               /\ k'.cpu \in Pids /\ frame'[k'.cpu] = SEM_READ
        BY <1>2, <1>9, <1>10, <1>12, <2>1
    <2>3. ASSUME NEW x \in ToSet(r) PROVE frame'[x] = SEM_READ /\ x \in ToSet(k'.blocked)
        <3>1. s # <<>>
            BY <1>7, <2>3, EmptyQueue
        <3>2. x \in ToSet(s) /\ x # h
            BY <1>7, <2>3, <3>1
        <3> QED BY <1>2, <1>6, <1>8, <3>2
    <2> QED BY <1>5, <1>7, <2>2, <2>3 DEF ReadQueue
<1>16. KeyWaiter'
    <2>1. kbd'.blockedpid = 0
        BY <1>2, FetchedFacts DEF DataState
    <2> QED BY <1>12, <2>1 DEF KeyWaiter, InLoop
<1> QED BY <1>13, <1>14, <1>15, <1>16 DEF ReadInv

(* ReadInv is inductive.                                                   *)
LEMMA ReadNext ==
    ASSUME OneConsole, DataState, ReadInv, [KbdNext]_kbdVars
    PROVE  ReadInv'
<1>1. CASE OtherEntry
    BY <1>1, OtherRead
<1>2. ASSUME NEW s \in BOOLEAN, kbd' = [kbd EXCEPT !.isSpecialKey = s],
             UNCHANGED <<k, sems, frame, call, pending, lost>>
      PROVE  ReadInv'
    <2>1. kbd'.blockedpid = kbd.blockedpid /\ kbd'.keysToRead = kbd.keysToRead
        BY <1>2 DEF Keyboards, DataState
    <2> QED BY <1>2, <2>1, SameRead
<1>3. CASE PrefixByte
    BY <1>2, <1>3 DEF PrefixByte
<1>4. CASE \E code \in Scancodes : UnknownByte(code)
    BY <1>2, <1>4 DEF UnknownByte
<1>5. CASE \E code \in Scancodes, pressed \in BOOLEAN : handleKeyboardInterrupt(code, pressed)
    BY <1>5, InterruptRead
<1>6. CASE \E p \in Pids : \/ sys_readBackground(p) \/ sys_read(p) \/ ReadWake(p)
                           \/ waitKey(p) \/ EndRead(p)
    BY <1>6, BackgroundRead, ReadRead, ReadWakeRead, WaitKeyRead, EndReadRead
<1>7. ASSUME NEW p \in Pids, SkipKey(p) PROVE ReadInv'
    <2>1. /\ Caller(p) /\ InLoop(p) /\ k' = k /\ sems' = sems /\ frame' = frame
          /\ kbd.keysToRead > 0 /\ kbd' = Fetched /\ call' = [call EXCEPT ![p].at = "loop"]
        BY <1>7 DEF SkipKey, Reading, Running, Caller, InLoop
    <2>2. kbd'.blockedpid = 0
        BY <2>1, FetchedFacts DEF DataState
    <2>3. call \in [Pids -> Calls]
        BY DEF DataState
    <2>4. call'[p].at = "loop" /\ \A q \in Pids : q # p => call'[q] = call[q]
        BY <2>1, <2>3, NewFrames
    <2> QED BY <2>1, <2>2, <2>4, KeyRead
<1>8. ASSUME NEW p \in Pids, ReadKey(p) PROVE ReadInv'
    <2> DEFINE c == Ascii(kbd.buffer[kbd.read_idx], kbd.ctrl)
               s == Turn(call[p], c)
    <2>1. /\ Caller(p) /\ InLoop(p) /\ k' = k /\ sems' = sems /\ frame' = frame
          /\ kbd.keysToRead > 0 /\ kbd' = Fetched
          /\ call' = [call EXCEPT ![p] = s]
          /\ HasAscii(kbd.buffer[kbd.read_idx]) /\ ~Ends(p, c)
        BY <1>8 DEF ReadKey, Reading, Running, Caller, InLoop
    <2>2. c \in Characters
        BY <2>1, KeyFacts
    <2>3. Frame(call[p]) /\ Edited(call[p]) /\ call \in [Pids -> Calls]
        BY DEF DataState
    <2> HIDE DEF c
    <2>4. s.at = "loop"
        BY <2>1, <2>2, <2>3, TurnFacts
    <2> HIDE DEF s
    <2>5. kbd'.blockedpid = 0
        BY <2>1, FetchedFacts DEF DataState
    <2>6. call'[p].at = "loop" /\ \A q \in Pids : q # p => call'[q] = call[q]
        BY <2>1, <2>3, <2>4
    <2> QED BY <2>1, <2>5, <2>6, KeyRead
<1>9. CASE \E p \in Pids, setRaw \in RawModes : sys_setTerminalRawMode(p, setRaw)
    <2>1. PICK p \in Pids, setRaw \in RawModes : sys_setTerminalRawMode(p, setRaw)
        BY <1>9
    <2>2. /\ kbd' = [kbd EXCEPT !.rawMode = setRaw]
          /\ UNCHANGED <<k, sems, frame, call, pending, lost>>
        BY <2>1 DEF sys_setTerminalRawMode
    <2>3. kbd'.blockedpid = kbd.blockedpid /\ kbd'.keysToRead = kbd.keysToRead
        BY <2>2 DEF Keyboards, DataState
    <2> QED BY <2>2, <2>3, SameRead
<1>10. CASE UNCHANGED kbdVars
    BY <1>10, SameRead DEF kbdVars
<1> QED BY <1>1, <1>3, <1>4, <1>5, <1>6, <1>7, <1>8, <1>9, <1>10 DEF KbdNext

(* Nobody reads when the machine starts.                                   *)
LEMMA ReadInit ==
    KbdInit => ReadInv
<1> SUFFICES ASSUME KbdInit PROVE ReadInv
    OBVIOUS
<1>1. /\ sems = [id \in SemIds |-> NoSemaphore] /\ frame = [p \in Pids |-> User]
      /\ k = main(Loaded, "ok", "ok") /\ call = [p \in Pids |-> Idle] /\ kbd.blockedpid = 0
    BY DEF KbdInit, SemInit, Init
<1>2. /\ \A p \in Pids : frame[p] = User /\ call[p].at = "user"
      /\ sems[SEM_READ] = NoSemaphore /\ User # SEM_READ
    BY <1>1, IdleSelf, KbdConstants
<1>3. ~Foreground(k)
    BY <1>1, BootConsole
<1>4. \A p \in Pids : k.pcb[p].background \in Backgrounds
    <2>1. k \in KernelState
        BY SemStateInit DEF KbdInit, SemState, IInv, Core
    <2>2. \A p \in Pids : k.pcb[p] \in PCB
        BY <2>1 DEF KernelState
    <2> QED BY <2>2 DEF PCB
<1>5. \A p \in Pids : p \in Consoles \cup {1} \/ k.pcb[p].background = "BACKGROUND"
    BY <1>3, <1>4 DEF Foreground, Backgrounds
<1>6. /\ sems[SEM_READ].exists = FALSE /\ sems[SEM_READ].blockedQueue = <<>>
      /\ \A p \in Pids : ~InLoop(p)
    BY <1>2 DEF NoSemaphore, InLoop
<1>7. ReadersKnown
    BY <1>2, <1>5 DEF ReadersKnown
<1>8. ReadUnit
    BY <1>6 DEF ReadUnit
<1>9. ReadQueue
    BY <1>2, <1>6, EmptyQueue DEF ReadQueue
<1>10. KeyWaiter
    BY <1>1, <1>2 DEF KeyWaiter
<1> QED BY <1>7, <1>8, <1>9, <1>10 DEF ReadInv

(* At most one process is between the semWait and the semPost of SEM_READ  *)
(* in sys_read, and while it sleeps in waitKey there is no key to read and *)
(* blockedpid tells the interrupt handler whom to wake: with the shell and *)
(* one other process on the console, whatever happens to the processes     *)
(* that are not theirs.                                                    *)
THEOREM OneReaderCorrect ==
    ASSUME OneConsole
    PROVE  KbdSpec => []OneReader
<1>1. DataState /\ ReadInv => OneReader
    <2> SUFFICES ASSUME DataState, ReadInv PROVE OneReader
        OBVIOUS
    <2>1. \A p \in Pids : Contains(k.blocked, p) <=> p \in ToSet(k.blocked)
        <3>1. k.blocked \in Seq(Pids)
            BY DEF DataState, SemState, IInv, Core, KernelState
        <3> QED BY <3>1, ListFacts
    <2> QED BY <2>1 DEF ReadInv, ReadUnit, KeyWaiter, OneReader, InLoop
<1>2. DataState /\ RingOrder /\ ReadInv /\ [KbdNext]_kbdVars => DataState' /\ RingOrder' /\ ReadInv'
    BY DataNext, ReadNext
<1>3. KbdInit => DataState /\ RingOrder /\ ReadInv
    BY DataInit, ReadInit
<1> QED BY <1>1, <1>2, <1>3, PTL DEF KbdSpec
=============================================================================
