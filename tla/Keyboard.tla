----------------------------- MODULE Keyboard -----------------------------
(***************************************************************************)
(* The keyboard driver, Kernel/drivers/keyboard.c, and the part of the     *)
(* read system call (sys_read_handler of                                   *)
(* Kernel/interruptions/syscallHandler.c) that reads the keyboard.         *)
(*                                                                         *)
(* A reader holds the kernel semaphore SEM_READ and sleeps inside the      *)
(* kernel until the interrupt handler wakes it.  call[p] is its frame:     *)
(*   at     "user"  not in sys_read                                        *)
(*          "sem"   asleep in semWait(SEM_READ)                            *)
(*          "loop"  about to call readKey                                  *)
(*          "key"   asleep in waitKey                                      *)
(*   i, buffer      the local index and the caller's buffer                *)
(*   raw            rawMode as it was when the loop began                  *)
(*   line           (history) the line as its user sees it: a character    *)
(*                  extends it, a backspace takes the last one away        *)
(* Between two sleeps a frame runs with interrupts masked.  The tables of  *)
(* key codes are reduced to one key of each kind the code tells apart;     *)
(* shift and caps lock only choose among characters and are left out.      *)
(***************************************************************************)
EXTENDS Semaphores

CONSTANTS
    BUFF_LEN,    \* keys in the ring buffer
    Bytes,       \* bytes asked for by a caller of sys_read
    Scancodes,   \* the bytes the keyboard sends, without the release bit
    RawModes     \* values passed to sys_setTerminalRawMode

VARIABLES kbd, call,
          pending,   \* history: the keys pressed and not read, oldest first
          lost       \* history: a key was overwritten since the last drain

kbdVars == <<k, sems, frame, kbd, call, pending, lost>>

SEM_READ == 2

ASSUME KeyboardAssumption ==
    /\ BUFF_LEN \in Nat \ {0} /\ Bytes \in Nat \ {0}
    /\ SEM_READ \in SemIds /\ RawModes \subseteq BOOLEAN

---------------------------------------------------------------------------
(* KeyTable and handleSpecialKey: the key of a scan code, alone and after  *)
(* the prefix 0xE0.  Codes of 89 and more are in neither table.            *)
KeyTable == [ctrl |-> "LCTRL", a |-> "A", c |-> "C", d |-> "D", back |-> "BACKSPACE",
             tab |-> "TAB", enter |-> "ENTER", esc |-> "ESC", up |-> "NUM_8"]

SpecialTable == [ctrl |-> "LCTRL", enter |-> "NUM_ENTER", up |-> "ARROW_UP"]

handleSpecialKey(code) ==
    IF code \in DOMAIN SpecialTable THEN SpecialTable[code] ELSE "none"

InTable(code) == code \in DOMAIN KeyTable

(* AsciiTable: the keys with a character, and the character.               *)
AsciiTable == [A |-> "a", C |-> "c", D |-> "d", BACKSPACE |-> "BS", TAB |-> "HT",
               ENTER |-> "LF", NUM_ENTER |-> "LF", ESC |-> "EOF", NUM_8 |-> "8"]

HasAscii(key) == key \in DOMAIN AsciiTable

Keys       == {KeyTable[c] : c \in DOMAIN KeyTable} \cup {SpecialTable[c] : c \in DOMAIN SpecialTable}
Characters == {AsciiTable[key] : key \in DOMAIN AsciiTable} \cup {"^C", "^D"}

(* The character of a key, given the state of the control key when it is   *)
(* read, which is not always the state when it was pressed.                *)
Ascii(key, ctrl) ==
    CASE ctrl /\ key = "C" -> "^C"
      [] ctrl /\ key = "D" -> "^D"
      [] OTHER -> AsciiTable[key]

NoKey == "none"

Idle == [at |-> "user", i |-> 0, buffer |-> [j \in 0..(Bytes - 1) |-> NoKey],
         raw |-> FALSE, line |-> <<>>]

Keyboards == [buffer : [0..(BUFF_LEN - 1) -> Keys \cup {NoKey}],
              read_idx : 0..(BUFF_LEN - 1), write_idx : 0..(BUFF_LEN - 1),
              keysToRead : 0..BUFF_LEN, blockedpid : Pids \cup {0},
              isSpecialKey : BOOLEAN, ctrl : BOOLEAN, rawMode : BOOLEAN]

Calls == [at : {"user", "sem", "loop", "key"}, i : 0..Bytes,
          buffer : [0..(Bytes - 1) -> Characters \cup {NoKey}],
          raw : BOOLEAN, line : Seq(Characters)]

---------------------------------------------------------------------------
(* The CPU runs no part of sys_read.                                       *)
OutsideRead == k.cpu \in Pids => call[k.cpu].at = "user"

Outside == k.up /\ Interruptible /\ OutsideRead

(* A pressed key goes into the ring, over the oldest one when it is full.  *)
Store(s, key) ==
    [s EXCEPT !.buffer[s.write_idx] = key,
              !.write_idx = IF @ + 1 = BUFF_LEN THEN 0 ELSE @ + 1,
              !.keysToRead = IF @ + 1 > BUFF_LEN THEN BUFF_LEN ELSE @ + 1]

(* Mutant: only the release of a key wakes the reader.                     *)
WakeReaderOnRelease(pressed) ==
    IF kbd.blockedpid # 0 /\ ~pressed THEN unblockProcess(k, kbd.blockedpid) ELSE k

(* The release of a key wakes the reader too, for nothing.                 *)
WakeReader(pressed) ==
    IF kbd.blockedpid # 0 THEN unblockProcess(k, kbd.blockedpid) ELSE k

(* The prefix 0xE0 only sets a flag, and codes beyond the tables leave     *)
(* that flag as it is.                                                     *)
PrefixByte ==
    /\ Outside
    /\ "E0" \in Scancodes /\ ~kbd.isSpecialKey
    /\ kbd' = [kbd EXCEPT !.isSpecialKey = TRUE]
    /\ UNCHANGED <<k, sems, frame, call, pending, lost>>

KeyOf(code) == IF kbd.isSpecialKey THEN handleSpecialKey(code) ELSE KeyTable[code]

(* A code without a key after the prefix is dropped, with the prefix.      *)
UnknownByte(code) ==
    /\ Outside
    /\ InTable(code) /\ KeyOf(code) = "none"
    /\ kbd' = [kbd EXCEPT !.isSpecialKey = FALSE]
    /\ UNCHANGED <<k, sems, frame, call, pending, lost>>

handleKeyboardInterrupt(code, pressed) ==
    LET key == KeyOf(code)
        state == [kbd EXCEPT !.isSpecialKey = FALSE,
                             !.ctrl = IF key = "LCTRL" THEN pressed ELSE @]
        full == kbd.keysToRead = BUFF_LEN
    IN  /\ Outside
        /\ InTable(code) /\ key # "none"
        /\ kbd' = IF pressed THEN Store(state, key) ELSE state
        /\ k' = WakeReader(pressed)
        /\ pending' = CASE ~pressed -> pending
                        [] pressed /\ ~full -> Append(pending, key)
                        [] pressed /\ full -> Append(Tail(pending), key)
        /\ lost' = (lost \/ (pressed /\ full))
        /\ UNCHANGED <<sems, frame, call>>

---------------------------------------------------------------------------
(* semOpen and semWait of sys_read, on the semaphore as it is.             *)
Opened(p) ==
    IF searchSemaphore(SEM_READ)
    THEN [sems[SEM_READ] EXCEPT !.activeQueue = addToProcessQueue(@, p, TRUE, TRUE)]
    ELSE [NoSemaphore EXCEPT !.exists = TRUE, !.value = 1, !.activeQueue = <<p>>]

Background(p) == k.pcb[p].background = "BACKGROUND"

MayCall(p) == InUser(p) /\ call[p].at = "user"

(* A background process other than the shell is blocked and gets nothing.  *)
sys_readBackground(p) ==
    /\ MayCall(p)
    /\ Background(p) /\ p # 1
    /\ k' = blockProcess(k, p)
    /\ UNCHANGED <<sems, frame, kbd, call, pending, lost>>

(* Mutant: readers do not wait for each other.                             *)
sys_readUnlocked(p) ==
    /\ MayCall(p)
    /\ ~Background(p) \/ p = 1
    /\ sems' = [sems EXCEPT ![SEM_READ] = Opened(p)]
    /\ call' = [call EXCEPT ![p] = [Idle EXCEPT !.at = "loop", !.raw = kbd.rawMode]]
    /\ UNCHANGED <<k, frame, kbd, pending, lost>>

(* Up to the loop, or to the sleep in semWait.                             *)
sys_read(p) ==
    /\ MayCall(p)
    /\ ~Background(p) \/ p = 1
    /\ IF Opened(p).value > 0
       THEN /\ sems' = [sems EXCEPT ![SEM_READ] = [Opened(p) EXCEPT !.value = @ - 1]]
            /\ k' = OrSpin(SEM_READ, k)
            /\ call' = [call EXCEPT ![p] = [Idle EXCEPT !.at = "loop", !.raw = kbd.rawMode]]
            /\ UNCHANGED frame
       ELSE /\ sems' = [sems EXCEPT ![SEM_READ] = [Opened(p) EXCEPT
                            !.blockedQueue = addToProcessQueue(@, p, FALSE, TRUE)]]
            /\ k' = OrSpin(SEM_READ, blockProcess(k, p))
            /\ call' = [call EXCEPT ![p].at = "sem"]
            /\ frame' = [frame EXCEPT ![p] = SEM_READ]
    /\ UNCHANGED <<kbd, pending, lost>>

(* The rest of semWait, when the process before has posted SEM_READ.       *)
ReadWake(p) ==
    /\ SemWake(p)
    /\ call' = [call EXCEPT ![p] = [Idle EXCEPT !.at = "loop", !.raw = kbd.rawMode]]
    /\ UNCHANGED <<kbd, pending, lost>>

Reading(p) == Running(p) /\ frame[p] = User /\ call[p].at \in {"loop", "key"}

(* Mutant: the indices are not brought together before the reader sleeps.  *)
waitKeyNoReset(p) ==
    /\ Reading(p)
    /\ kbd.keysToRead = 0
    /\ kbd' = [kbd EXCEPT !.blockedpid = IF call[p].at = "loop" THEN p ELSE @]
    /\ k' = blockProcess(k, kbd'.blockedpid)
    /\ call' = [call EXCEPT ![p].at = "key"]
    /\ lost' = FALSE
    /\ UNCHANGED <<sems, frame, pending>>

(* waitKey, while there is no key: blockedpid is set once, before the loop *)
(* that blocks.                                                            *)
waitKey(p) ==
    /\ Reading(p)
    /\ kbd.keysToRead = 0
    /\ kbd' = [kbd EXCEPT !.blockedpid = IF call[p].at = "loop" THEN p ELSE @,
                          !.write_idx = kbd.read_idx]
    /\ k' = blockProcess(k, kbd'.blockedpid)
    /\ call' = [call EXCEPT ![p].at = "key"]
    /\ lost' = FALSE
    /\ UNCHANGED <<sems, frame, pending>>

(* The end of waitKey and the rest of readKey.                             *)
Fetched ==
    [kbd EXCEPT !.blockedpid = 0, !.keysToRead = @ - 1,
                !.read_idx = IF @ + 1 = BUFF_LEN THEN 0 ELSE @ + 1]

Put(s, c) == [s EXCEPT !.at = "loop", !.buffer[s.i] = c, !.i = @ + 1, !.line = Append(@, c)]

(* Mutant: the increment of the loop is forgotten.                         *)
RubOutOne(s) ==
    IF s.i <= 0 THEN [s EXCEPT !.at = "loop"]
    ELSE [s EXCEPT !.at = "loop", !.line = Front(@)]

(* `i -= 2' or `i--', and the i++ of the loop.                             *)
RubOut(s) ==
    IF s.i <= 0 THEN [s EXCEPT !.at = "loop"]
    ELSE [s EXCEPT !.at = "loop", !.i = @ - 1, !.line = Front(@)]

(* One turn of the loop that does not end the call, with character c.      *)
Turn(s, c) ==
    CASE s.raw -> Put(s, c)
      [] ~s.raw /\ c = "HT" -> [s EXCEPT !.at = "loop"]
      [] ~s.raw /\ c = "BS" -> RubOut(s)
      [] OTHER -> Put(s, c)

(* Character c ends the call: control-C, control-D, escape, the end of the *)
(* line, a full buffer, or a caller that went to the background.           *)
Ends(p, c) ==
    \/ Turn(call[p], c).i = Bytes
    \/ ~call[p].raw /\ (c \in {"^C", "^D", "EOF", "LF"} \/ Background(p))

(* A key without a character is skipped by readAscii.                      *)
SkipKey(p) ==
    /\ Reading(p)
    /\ kbd.keysToRead > 0
    /\ ~HasAscii(kbd.buffer[kbd.read_idx])
    /\ kbd' = Fetched
    /\ pending' = Tail(pending)
    /\ call' = [call EXCEPT ![p].at = "loop"]
    /\ UNCHANGED <<k, sems, frame, lost>>

ReadKey(p) ==
    LET c == Ascii(kbd.buffer[kbd.read_idx], kbd.ctrl)
    IN  /\ Reading(p)
        /\ kbd.keysToRead > 0
        /\ HasAscii(kbd.buffer[kbd.read_idx])
        /\ ~Ends(p, c)
        /\ kbd' = Fetched
        /\ pending' = Tail(pending)
        /\ call' = [call EXCEPT ![p] = Turn(@, c)]
        /\ UNCHANGED <<k, sems, frame, lost>>

(* The call posts SEM_READ, which hands the CPU to the next reader, and    *)
(* returns when it is dispatched again.                                    *)
EndRead(p) ==
    LET c == Ascii(kbd.buffer[kbd.read_idx], kbd.ctrl)
    IN  /\ Reading(p)
        /\ kbd.keysToRead > 0
        /\ HasAscii(kbd.buffer[kbd.read_idx])
        /\ Ends(p, c)
        /\ kbd' = Fetched
        /\ pending' = Tail(pending)
        /\ call' = [call EXCEPT ![p] = Idle]
        /\ sems' = [sems EXCEPT ![SEM_READ].value = (@ + 1) % Word,
                                ![SEM_READ].blockedQueue = popBlockedQueue(@)]
        /\ k' = OrSpin(SEM_READ, yield(wakeup(k, sems[SEM_READ].blockedQueue)))
        /\ UNCHANGED <<frame, lost>>

sys_setTerminalRawMode(p, setRaw) ==
    /\ MayCall(p)
    /\ kbd' = [kbd EXCEPT !.rawMode = setRaw]
    /\ UNCHANGED <<k, sems, frame, call, pending, lost>>

(* Any other entry into the kernel.  A process that ends takes its frames  *)
(* with it; the semaphore and blockedpid stay as they are.                 *)
OtherEntry ==
    /\ Outside
    /\ Next
    /\ DropFrames
    /\ call' = [p \in Pids |-> IF Live(p)' THEN call[p] ELSE Idle]
    /\ UNCHANGED <<sems, kbd, pending, lost>>

---------------------------------------------------------------------------
KbdInit ==
    /\ SemInit
    /\ kbd = [buffer |-> [j \in 0..(BUFF_LEN - 1) |-> NoKey], read_idx |-> 0, write_idx |-> 0,
              keysToRead |-> 0, blockedpid |-> 0, isSpecialKey |-> FALSE, ctrl |-> FALSE,
              rawMode |-> FALSE]
    /\ call = [p \in Pids |-> Idle]
    /\ pending = <<>> /\ lost = FALSE

KbdNext ==
    \/ OtherEntry
    \/ PrefixByte
    \/ \E code \in Scancodes : UnknownByte(code)
    \/ \E code \in Scancodes, pressed \in BOOLEAN : handleKeyboardInterrupt(code, pressed)
    \/ \E p \in Pids : \/ sys_readBackground(p) \/ sys_read(p) \/ ReadWake(p)
                       \/ waitKey(p) \/ SkipKey(p) \/ ReadKey(p) \/ EndRead(p)
    \/ \E p \in Pids, setRaw \in RawModes : sys_setTerminalRawMode(p, setRaw)

KbdSpec == KbdInit /\ [][KbdNext]_kbdVars

TickEntry == Tick /\ OtherEntry

(* The kernel goes on while it has the CPU, and the 8259 keeps a timer     *)
(* interrupt that arrives while interrupts are masked until they are       *)
(* enabled again: it cannot be put off for ever.                           *)
KbdFairSpec ==
    /\ KbdSpec
    /\ SF_kbdVars(TickEntry)
    /\ \A p \in Pids : WF_kbdVars(ReadWake(p) \/ waitKey(p) \/ SkipKey(p) \/ ReadKey(p) \/ EndRead(p))
---------------------------------------------------------------------------
KbdTypeOK ==
    /\ SemTypeOK
    /\ kbd \in Keyboards
    /\ call \in [Pids -> Calls]
    /\ pending \in Seq(Keys) /\ lost \in BOOLEAN

(* At most one process is between semWait(SEM_READ) and semPost(SEM_READ), *)
(* so the single variable blockedpid is enough for all readers: while one  *)
(* is blocked in waitKey there is no key to read, and the interrupt        *)
(* handler knows whom to wake.                                             *)
OneReader ==
    /\ \A p, q \in Pids :
            call[p].at \in {"loop", "key"} /\ call[q].at \in {"loop", "key"} => p = q
    /\ \A p \in Pids :
            call[p].at = "key" /\ Contains(k.blocked, p)
                => kbd.keysToRead = 0 /\ kbd.blockedpid = p

(* The driver's data stays within its types, and the keys come out of the  *)
(* ring in the order they were pressed, none twice, none missing, as long  *)
(* as the ring has not overflowed; after an overflow the next drain puts   *)
(* the two indices right again (waitKey).                                  *)
KeysInOrder ==
    /\ KbdTypeOK
    /\ kbd.keysToRead = Len(pending)
    /\ ~lost => \A j \in 1..Len(pending) :
                    kbd.buffer[(kbd.read_idx + j - 1) % BUFF_LEN] = pending[j]

(* The caller's buffer holds the line as it was edited: backspace takes    *)
(* back exactly one character and never runs below the start.              *)
LineEdited == \A p \in Pids :
    /\ call[p].i = Len(call[p].line)
    /\ \A j \in 1..call[p].i : call[p].buffer[j - 1] = call[p].line[j]

(* A reader that waits for a key gets the one that is pressed: the wake-up *)
(* by the interrupt handler is not lost and the reader is dispatched.      *)
KeyReachesReader == \A p \in Pids :
    (call[p].at = "key" /\ kbd.keysToRead > 0) ~> call[p].at # "key"
============================================================================
