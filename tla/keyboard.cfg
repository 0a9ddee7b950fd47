SPECIFICATION Spec
CONSTANTS
  Chars = {"e", "a", "A"}
  lcase <- MCLcase
  Printable = {"a", "A"}
  Binds <- MCBinds
  Typings <- MCTypings
  Inserts <- MCInserts
  None = none
  MaxTyped = 4
  MaxWait = 1
  InsertAny = FALSE
INVARIANTS Lookup OnceInOrder LineSeen WaitingKnown
PROPERTY OneLine
CHECK_DEADLOCK FALSE
