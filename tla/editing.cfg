SPECIFICATION FairSpec
CONSTANTS
  Clients = {c1, c2}
  Writers = {w1, w2}
  Codes = {x, y}
  Lines = {z}
  Template = x
  NoData = NoData
  NoWriter = NoWriter
  MaxSends = 3
INVARIANTS
  TypeOK
  Agreement
  RowAgrees
PROPERTY Settles
