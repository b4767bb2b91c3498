---------------------------- MODULE Conversions ----------------------------
(***************************************************************************)
(* Numbers and their texts, Userland/SampleCodeModule/stringUtil.c.  A     *)
(* character is its code, a text the sequence of its characters without    *)
(* the closing 0.                                                          *)
(***************************************************************************)
EXTENDS Integers, SequencesExt

CONSTANT Word32     \* number of values of a uint32_t

ASSUME Word32Assumption == Word32 \in Nat /\ Word32 % 2 = 0 /\ Word32 > 9

Zero  == 48     \* '0'
Nine  == 57     \* '9'
Minus == 45     \* '-'
Colon == 58     \* ':'
Decimal == 10

(* What a uint32_t is when stored in an int.                               *)
AsInt(n) == IF n >= Word32 \div 2 THEN n - Word32 ELSE n

DigitChar(r) == IF r < 10 THEN r + Zero ELSE r + 65 - 10

(* A 64-bit argument loses its upper half.                                 *)
uintToBase(value, base) ==
    LET text[v \in 0..(Word32 - 1)] ==
            IF v < base THEN <<DigitChar(v)>>
            ELSE Append(text[v \div base], DigitChar(v % base))
    IN  text[value % Word32]

itoa(number) ==
    IF number < 10 THEN <<Zero, number + Zero>> ELSE uintToBase(number, Decimal)

toUpper(c) == IF c \in 97..122 THEN c - 32 ELSE c

(* Mutant: what is neither a figure nor a letter stands for nothing.       *)
DigitStrict(c) ==
    IF c \in Zero..Nine THEN c - Zero
    ELSE IF toUpper(c) \in 65..90 THEN toUpper(c) + 10 - 65 ELSE 255

(* The uint8_t a character stands for.  What follows '9' is taken for a    *)
(* letter, so ':' is worth 3.                                              *)
Digit(c) == IF c <= Nine THEN (c - Zero) % 256 ELSE (toUpper(c) + 10 - 65) % 256

(* The number a text begins with, read up to its first character that is   *)
(* no digit of the base; `default' where there is none.                    *)
strToIntBase(s, base, unsign, default) ==
    LET negative == ~unsign /\ s # <<>> /\ s[1] = Minus
        rest     == IF negative THEN Tail(s) ELSE s
        Ends     == {n \in 1..Len(rest) : Digit(rest[n]) >= base}
        digits   == IF Ends = {} THEN rest
                    ELSE SubSeq(rest, 1, (CHOOSE n \in Ends : \A o \in Ends : n <= o) - 1)
        num      == FoldLeft(LAMBDA n, c : (n * base + Digit(c)) % Word32, 0, digits)
    IN  IF digits = <<>> THEN default
        ELSE AsInt((IF negative THEN 0 - num ELSE num) % Word32)
============================================================================
