SPECIFICATION Spec
CONSTANTS
  NArrays = 3
  MaxIndex = 1
  Sizes = {1}
  Roots = {x, y}
  AnyCycle = FALSE
  AnyTime = FALSE
INVARIANTS CountsExact OnlyCyclesStay
SYMMETRY Symmetric
