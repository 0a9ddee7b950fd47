SPECIFICATION Spec
CONSTANTS
  Words <- MCWords
  MaxWords = 2
  MaxConns = 2
INVARIANTS NothingLost InOrder Negotiated Announced
