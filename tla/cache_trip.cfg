SPECIFICATION HealthySpec
CONSTANTS
  Handlers = {h1}
  Shards = {a}
  Pages = {p1}
  Threshold = 5
  Limit = 3
  MaxAttempts = 3
  MaxEvents = 5
  MaxVersion = 5
  Elsewhere = Elsewhere
  Absent = Absent
  NoRows = NoRows
INVARIANT StableStaysClosed
