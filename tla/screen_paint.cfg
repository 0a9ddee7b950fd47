SPECIFICATION Spec
CONSTANTS
  Wins = {w1, w2}
  None = none
  Sizes = {5, 8, 10}
  StartAny = FALSE
  Texts <- MCTexts
  Speak = FALSE
  MaxClose = 1
SYMMETRY Symmetric
INVARIANTS Tiled Painted CursorKnown
CHECK_DEADLOCK FALSE
