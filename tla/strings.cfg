CONSTANTS
  x = x  y = y  z = z  p1 = p1  p2 = p2
  Cells = {x, y}  Given = z  Programs = {p1, p2}
  NIstrs = 2  NRstrs = 4  MaxLen = 2  MaxText = 3  Positions = {0, 1}
  AnyArgs = FALSE  MaxIn = 6
SPECIFICATION Spec
SYMMETRY Symmetric
INVARIANTS CountsRight ConstantsUnique FindRight WrapRight NumberRight
PROPERTY WrittenAlone
