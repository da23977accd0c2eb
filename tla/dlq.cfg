SPECIFICATION FairSpec
CONSTANTS
  Shards = {a, b}
  Pages = {p1, p2}
  Handlers = {h1, h2}
  Limit = 2
  MaxAttempts = 3
  MaxEvents = 3
INVARIANTS
  TypeOK
  OneRun
PROPERTIES
  ClearExact
  RunEnds
