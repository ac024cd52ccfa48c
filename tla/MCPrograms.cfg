SPECIFICATION Spec
CONSTANTS
  Nobody = Nobody
  Installers = {p1, p2}
  Users = {u1, u2}
  MaxDbPages = 2
  MaxTx = 2
  MaxFrames = 2
  MaxGen = 2
  SizeLimit = 4
  Tries = 2
  Regions = 2
  Size <- MCSize
  Copies <- MCCopies
  Salts = {"a", "b", "c"}
  Longest = 3
  Overlap = 2
  Page = 2
  Chunk = 4
  MaxBytes = 13
  Shards = 2
  Rows <- MCRows
  Limit = 2
  None = None
  MaxChanges = 2
  MaxPages = 3
INVARIANTS
  ServedIsComplete NotedIsCleaned SnapshotIsCommitted StaleGenerationsIgnored ReadIsFound
  NothingIsSkipped PagesAreDisjoint
PROPERTIES
  RemovesOnlyItsOwn FileIsReplacedWhole
