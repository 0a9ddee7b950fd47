SPECIFICATION Spec
CONSTANTS
  Chars = {"a", "b", "p", "q", " "}
  Blank = " "
  Texts <- MCTexts
  Prompts <- MCPrompts
  Margin = 3
  Sizes = {1, 2}
  Few = 2
  MaxLen = 4
  DrawAny = FALSE
  FromAny = FALSE
  CloseAny = FALSE
  GrowAny = FALSE
INVARIANTS CursorKnown LineShown NotInWindows
