SPECIFICATION HealthySpec
CONSTANTS
  Handlers = {h1, h2}
  Shards = {a}
  Pages = {p1}
  Threshold = 5
  Limit = 3
  MaxAttempts = 2
  MaxEvents = 3
  MaxVersion = 2
  Elsewhere = Elsewhere
  Absent = Absent
  NoRows = NoRows
INVARIANT InvalidateAll
