SPECIFICATION ServedSpec
CONSTANTS
  Handlers = {h1, h2}
  Shards = {a}
  Pages = {p1}
  Threshold = 2
  Limit = 2
  MaxAttempts = 2
  MaxEvents = 3
  MaxVersion = 2
  Elsewhere = Elsewhere
  Absent = Absent
  NoRows = NoRows
INVARIANTS
  TypeOK
  StaleExplained
PROPERTY EventuallyFresh
