SPECIFICATION Spec
CONSTANTS
  Commands = {a, b}
  Ids = {i, j}
  None = None
  Backlog = 2
  Tolerated = 2
INVARIANT TypeOK
