SPECIFICATION Spec
CONSTANTS
  Commands = {a, b, c}
  Ids = {i}
  None = None
  Backlog = 2
  Tolerated = 1
PROPERTY
  StatusIsInOrder
