------------------------------- MODULE Clock -------------------------------
(***************************************************************************)
(* The time of day: the registers of the real time clock, the system call  *)
(* that reads them one by one (Kernel/asm/RTC.asm, sys_time_handler), and  *)
(* the commands time and loop, which write it as text and read the text    *)
(* back as a number.                                                       *)
(***************************************************************************)
EXTENDS Conversions

CONSTANT Range_      \* how many values a field has: <<hours, minutes, seconds>>

(* The number of a time, its colons read as figures, fits in a uint32_t.   *)
ASSUME RangeAssumption ==
    Range_ \in [1..3 -> 1..99] /\ 1000000 * Range_[1] <= Word32

VARIABLES
    clock,     \* external: <<hours, minutes, seconds>>
    got,       \* what was read of the registers so far, -1 where nothing was
    stale,     \* the clock has gone on since the first of these reads
    shown,     \* the text made of them last, and what the clock was
    t          \* loop: the number of the time it printed last

clockVars == <<clock, got, stale, shown, t>>

Fields  == 1..3
Clocks  == {c \in [Fields -> 0..98] : \A f \in Fields : c[f] < Range_[f]}
Nothing == [f \in Fields |-> -1]

BCD(n) == (n \div 10) * 16 + (n % 10)

getFormat(n) == ((n \div 16) % 16) * 10 + (n % 16)

(* do_getTime: hh:mm:ss.                                                   *)
TimeText(c) ==
    itoa(getFormat(BCD(c[1]))) \o <<Colon>> \o
    itoa(getFormat(BCD(c[2]))) \o <<Colon>> \o
    itoa(getFormat(BCD(c[3])))

TimeNumber(text) == strToIntBase(text, Decimal, TRUE, -1)

---------------------------------------------------------------------------
(* A second passes: a field that is full starts over and the next one      *)
(* counts.  A read lasts for less than two of them.                        *)
Tick ==
    LET full(f) == clock[f] = Range_[f] - 1
        counts(f) == \A g \in (f + 1)..3 : full(g)
    IN  /\ ~stale
        /\ clock' = [f \in Fields |-> IF ~counts(f) THEN clock[f]
                                      ELSE IF full(f) THEN 0 ELSE clock[f] + 1]
        /\ stale' = (got # Nothing)
        /\ UNCHANGED <<got, shown, t>>

(* The three reads are operands of one expression, in no given order.      *)
ReadRegister(f) ==
    /\ got[f] = -1
    /\ got' = [got EXCEPT ![f] = clock[f]]
    /\ UNCHANGED <<clock, stale, shown, t>>

(* The text is made, and loop says hello when its number is a new one.     *)
Loop ==
    /\ \A f \in Fields : got[f] # -1
    /\ shown' = [text |-> TimeText(got), fields |-> got, exact |-> ~stale, at |-> clock]
    /\ t' = IF t # TimeNumber(TimeText(got)) THEN TimeNumber(TimeText(got)) ELSE t
    /\ got' = Nothing /\ stale' = FALSE
    /\ UNCHANGED clock

---------------------------------------------------------------------------
ClockInit ==
    /\ clock \in Clocks
    /\ got = Nothing /\ stale = FALSE
    /\ shown = [text |-> TimeText(clock), fields |-> clock, exact |-> TRUE, at |-> clock]
    /\ t = TimeNumber(TimeText(clock))

ClockNext == Tick \/ Loop \/ \E f \in Fields : ReadRegister(f)

---------------------------------------------------------------------------
(* The text is eight characters, its colons where they belong: every field *)
(* fills the two places its buffer has for it, and none runs into the next.*)
TimeHasWidth ==
    /\ Len(shown.text) = 8
    /\ \A n \in 1..8 : (shown.text[n] = Colon) <=> n \in {3, 6}

(* The number of a text tells any two times apart, although it is read     *)
(* with a parser that should stop at the first colon: loop notices every   *)
(* second, and notices nothing when the second is the same.                *)
LoopSeesSeconds ==
    (\A f \in Fields : got[f] # -1) =>
        (TimeNumber(TimeText(got)) = t <=> got = shown.fields)

(* A time that was read while the clock stood still is the time it was;    *)
(* one read across a second is made of fields of the two seconds.          *)
TimeShown ==
    shown.exact => \A f \in Fields :
        Decimal * (shown.text[3 * f - 2] - Zero) + (shown.text[3 * f - 1] - Zero) = shown.at[f]

(* The text of the time shows the time, in its two places a field, and     *)
(* loop, which reads it back as a number, tells any two seconds apart.     *)
TimeTold == TimeHasWidth /\ TimeShown /\ LoopSeesSeconds
============================================================================
