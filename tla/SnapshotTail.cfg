SPECIFICATION SnapshotSpec
CONSTANTS
  MaxDbPages = 2
  MaxTx = 2
  MaxFrames = 2
  MaxGen = 2
  SizeLimit = 3
  Tries = 2
INVARIANT
  UncommittedTailIgnored
