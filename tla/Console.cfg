\* Three columns and three lines of characters with a remainder that is too
\* small for another, on a screen that fills, wraps and is cleared.
CONSTANTS
  HorizontalResolution = 7
  VerticalResolution = 11
  FONT_WIDTH = 2
  FONT_HEIGHT = 3
  M = 16
SPECIFICATION ConsoleSpec
INVARIANTS
  GlyphsAreOnScreen
  ReadsInOrder
