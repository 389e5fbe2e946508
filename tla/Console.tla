-------------------------------- MODULE Console --------------------------------
(***************************************************************************)
(* KernelConsole.cpp: where the characters of the frame buffer console go. *)
(* A screen is what has been drawn since it was last cleared: the place of *)
(* every glyph, in the order of drawing.                                   *)
(***************************************************************************)
EXTENDS Integers, Sequences

CONSTANTS
  HorizontalResolution, VerticalResolution,
  FONT_WIDTH, FONT_HEIGHT,
  M      \* coordinates are unsigned numbers below M: 2^32 in the code

(* A screen has room for a character and is well below the largest coordinate. *)
ASSUME ScreenAssumption ==
  /\ FONT_WIDTH \in Nat \ {0} /\ FONT_HEIGHT \in Nat \ {0} /\ M \in Nat
  /\ HorizontalResolution \in Nat /\ VerticalResolution \in Nat
  /\ FONT_WIDTH <= HorizontalResolution /\ FONT_HEIGHT <= VerticalResolution
  /\ HorizontalResolution + FONT_WIDTH < M /\ VerticalResolution + FONT_HEIGHT < M

VARIABLES
  X, Y,      \* m_CursorPosition
  screen     \* the places of the glyphs drawn

consoleVars == <<X, Y, screen>>

Add(a, b) == IF a + b < M THEN a + b ELSE a + b - M
Sub(a, b) == IF b <= a THEN a - b ELSE a - b + M

(* The constructor clears the screen. *)
ConsoleInit == X = 0 /\ Y = 0 /\ screen = <<>>

\* Wrong form: the width of the character is left out.
IsNewLineRequiredLate(x) == x > HorizontalResolution

IsNewLineRequired(x) == x > Sub(HorizontalResolution, FONT_WIDTH)

IsEndOfScreen(y) == y > Sub(VerticalResolution, FONT_HEIGHT)

(* Where the next visible character goes: on the next line when it does not  *)
(* fit on this one, and then at the top when it is below the screen.         *)
Wrapped ==
  IF IsNewLineRequired(X) THEN [x |-> 0, y |-> Add(Y, FONT_HEIGHT)] ELSE [x |-> X, y |-> Y]

Place == IF IsEndOfScreen(Wrapped.y) THEN [x |-> 0, y |-> 0] ELSE Wrapped

(* What Reset leaves when it is called. *)
Kept == IF IsEndOfScreen(Wrapped.y) THEN <<>> ELSE screen

PutGlyph ==
  /\ screen' = Append(Kept, Place)
  /\ X' = Add(Place.x, FONT_WIDTH) /\ Y' = Place.y

PutSpace ==
  /\ screen' = Kept
  /\ X' = Add(Place.x, FONT_WIDTH) /\ Y' = Place.y

\* Wrong form: a newline that does not go to the next line at the left edge.
PutNewLineStays ==
  /\ X' = 0
  /\ Y' = IF X = 0 THEN Add(Y, FONT_HEIGHT) ELSE Y
  /\ UNCHANGED screen

(* PutChar('\n'), which is also Flush. *)
PutNewLine ==
  LET y == Add(Y, FONT_HEIGHT) IN
  /\ X' = 0
  /\ IF IsEndOfScreen(y) THEN Y' = 0 /\ screen' = <<>> ELSE Y' = y /\ UNCHANGED screen

Reset == X' = 0 /\ Y' = 0 /\ screen' = <<>>

ConsoleNext == PutGlyph \/ PutSpace \/ PutNewLine \/ Reset

ConsoleSpec == ConsoleInit /\ [][ConsoleNext]_consoleVars
-------------------------------------------------------------------------------
(* Properties. *)

(* Every glyph is drawn whole: PutChar never leaves a part of it to the      *)
(* bounds check of DrawPixel, whatever the resolution of the screen.         *)
GlyphsAreOnScreen ==
  \A i \in DOMAIN screen :
    /\ screen[i].x + FONT_WIDTH <= HorizontalResolution
    /\ screen[i].y + FONT_HEIGHT <= VerticalResolution

(* q comes after p as one reads, and does not overlap it. *)
After(p, q) ==
  \/ q.y = p.y /\ q.x >= p.x + FONT_WIDTH
  \/ q.y >= p.y + FONT_HEIGHT

(* The screen reads as what has been put since it was cleared: each glyph    *)
(* comes after all the earlier ones and covers none of them.                 *)
ReadsInOrder ==
  \A i, j \in DOMAIN screen : i < j => After(screen[i], screen[j])
===============================================================================
