------------------------------ MODULE Console ------------------------------
(***************************************************************************)
(* The text console, Kernel/drivers/naiveGraphicsConsole.c, and the echo   *)
(* of the line sys_read_handler is editing on it.                          *)
(*                                                                         *)
(* The pen is in pixels.  `touched' is one more than the highest pixel the *)
(* last operation wrote, counted from the start of the frame buffer; what  *)
(* is drawn is left out.                                                   *)
(***************************************************************************)
EXTENDS Integers

CONSTANTS
    CHAR_WIDTH, CHAR_HEIGHT,
    width, height,    \* the screen, in pixels
    Word16,           \* number of values of a uint16_t
    Prompts,          \* how many characters stand in front of the input
    MaxLine           \* bound on the characters of a line

ASSUME ConsoleAssumption ==
    /\ {CHAR_WIDTH, CHAR_HEIGHT, Word16, MaxLine} \subseteq Nat \ {0}
    /\ CHAR_HEIGHT <= 2 * CHAR_WIDTH
    /\ width \in Nat /\ width >= 6 * CHAR_WIDTH /\ width + 6 * CHAR_WIDTH < Word16
    /\ height \in Nat /\ height >= 4 * CHAR_HEIGHT /\ height < Word16
    /\ Prompts \subseteq Nat

VARIABLES
    penX, penY, level,
    line,      \* the line being read: on, as long as nothing but its echo was
               \* printed; cells in front of it, and characters in it
    touched,
    mishap     \* history: "wrapped", the pen went left of the first column;
               \* "kept", a character left the line and not the screen;
               \* "margin", the font grew with the pen too far right for it;
               \* "scroll", the screen was scrolled in a font above 1

consoleVars == <<penX, penY, level, line, touched, mishap>>

Levels  == 1..3
NoLine  == [on |-> FALSE, start |-> 0, i |-> 0]
Pixels  == width * height

Cell(l) == CHAR_WIDTH * l

(* One more than the pixel at x, y (getPtrToPixel).                        *)
Past(x, y) == x + y * width + 1

---------------------------------------------------------------------------
(* Drawing a glyph at the pen: level rows and columns for each of the      *)
(* bitmap's (ngc_fontSize1, 2 and 3), of which those with a set bit count. *)
Glyph(x, y) == Past(x + Cell(level) - 1, y + CHAR_HEIGHT * level - 1)

(* There is room for a line of the largest font below the next one.        *)
FitsBelow(y) == y + level * CHAR_HEIGHT <= height - 3 * CHAR_HEIGHT

(* The screen moves up by memcpy, and memset clears what follows.          *)
Scrolled == (height * level - CHAR_HEIGHT * level) * width + CHAR_HEIGHT * level * width

(* The pen, the highest pixel touched so far and the mishaps after         *)
(* ngc_printNewline.                                                       *)
Newline(sofar) ==
    IF FitsBelow(penY)
    THEN [x |-> 0, y |-> penY + level * CHAR_HEIGHT, touched |-> sofar, mishap |-> mishap]
    ELSE [x |-> 0, y |-> penY, touched |-> IF Scrolled > sofar THEN Scrolled ELSE sofar,
          mishap |-> IF level > 1 THEN mishap \cup {"scroll"} ELSE mishap]

(* Mutant: the pen may go over the right margin.                           *)
PrintableWide ==
    [x |-> (penX + Cell(level)) % Word16, y |-> penY, touched |-> Glyph(penX, penY), mishap |-> mishap]

Printable ==
    LET x == (penX + Cell(level)) % Word16
    IN  IF x > width - Cell(level) THEN Newline(Glyph(penX, penY))
        ELSE [x |-> x, y |-> penY, touched |-> Glyph(penX, penY), mishap |-> mishap]

(* The guard holds in one column only; the erased square has the height of *)
(* a character for its width.                                              *)
delete_last_char ==
    LET x == (penX - Cell(level)) % Word16
    IN  IF penX = 2 * Cell(level)
        THEN [x |-> penX, y |-> penY, touched |-> 0, mishap |-> mishap \cup {"kept"}]
        ELSE [x |-> x, y |-> penY,
              touched |-> Past(x + CHAR_HEIGHT * level - 1, penY + CHAR_HEIGHT * level - 1),
              mishap |-> IF penX < Cell(level) THEN mishap \cup {"wrapped"} ELSE mishap]

Move(pen) ==
    penX' = pen.x /\ penY' = pen.y /\ touched' = pen.touched /\ mishap' = pen.mishap

---------------------------------------------------------------------------
(* Output of a process, a line being read or not.                          *)
PrintChar == Move(Printable) /\ line' = NoLine /\ UNCHANGED level

PrintNewline == Move(Newline(0)) /\ line' = NoLine /\ UNCHANGED level

changeFontSize(l) ==
    /\ level' = l /\ line' = NoLine
    /\ mishap' = IF penX > width - Cell(l) THEN mishap \cup {"margin"} ELSE mishap
    /\ UNCHANGED <<penX, penY, touched>>

ngc_paint_screen ==
    /\ penX' = 0 /\ penY' = 0 /\ touched' = Pixels
    /\ line' = NoLine
    /\ UNCHANGED <<level, mishap>>

(* sys_read_handler begins behind the prompt; n characters of it.          *)
BeginLine(n) ==
    /\ ~line.on /\ penX = n * Cell(level)
    /\ line' = [on |-> TRUE, start |-> n, i |-> 0]
    /\ UNCHANGED <<penX, penY, level, touched, mishap>>

EchoChar ==
    /\ line.on /\ line.i < MaxLine
    /\ Move(Printable)
    /\ line' = [line EXCEPT !.i = @ + 1]
    /\ UNCHANGED level

(* Mutant: a backspace in an empty line is echoed.                         *)
EchoBackspaceEmpty ==
    /\ line.on
    /\ Move(delete_last_char)
    /\ line' = [line EXCEPT !.i = IF @ = 0 THEN 0 ELSE @ - 1]
    /\ UNCHANGED level

(* A backspace in an empty line is not echoed.                             *)
EchoBackspace ==
    /\ line.on /\ line.i > 0
    /\ Move(delete_last_char)
    /\ line' = [line EXCEPT !.i = @ - 1]
    /\ UNCHANGED level

EchoEnter == line.on /\ Move(Newline(0)) /\ line' = NoLine /\ UNCHANGED level

---------------------------------------------------------------------------
ConsoleInit ==
    /\ penX = 0 /\ penY = 0 /\ level = 1
    /\ line = NoLine
    /\ touched = 0
    /\ mishap = {}

ConsoleNext ==
    \/ PrintChar \/ PrintNewline \/ ngc_paint_screen
    \/ \E l \in Levels : changeFontSize(l)
    \/ \E n \in Prompts : BeginLine(n)
    \/ EchoChar \/ EchoBackspace \/ EchoEnter

---------------------------------------------------------------------------
(* The pen is a pixel that the largest font has room below, whatever the   *)
(* fonts in between were.                                                  *)
ConsoleTypeOK ==
    /\ penX \in 0..(Word16 - 1) /\ penY \in 0..(height - 3 * CHAR_HEIGHT)
    /\ level \in Levels
    /\ line \in [on : BOOLEAN, start : Prompts \cup {0}, i : 0..MaxLine]
    /\ touched \in Nat
    /\ mishap \subseteq {"wrapped", "kept", "margin", "scroll"}

(* Nothing is written behind the frame buffer, as long as the pen was not  *)
(* taken left of the screen or over the margin, and nothing was scrolled   *)
(* in a larger font.                                                       *)
FrameBufferKept == mishap \subseteq {"kept"} => touched <= Pixels

(* How many cells a row has at the current level.                          *)
Columns == CHOOSE c \in 1..width : c * Cell(level) <= width /\ (c + 1) * Cell(level) > width

(* The cursor stands behind what the line holds, through line wraps and    *)
(* backspaces: what is seen is what will be read.                          *)
EchoMatchesLine ==
    line.on /\ mishap = {} => penX = ((line.start + line.i) % Columns) * Cell(level)
============================================================================
