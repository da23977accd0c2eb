SPECIFICATION FairSpec
CONSTANTS
  a = a
  b = b
  c1 = c1
  c2 = c2
  Names <- TwoFiles
  Codes <- TwoCodes
  Handlers = {h1, h2}
  Template <- RoomTemplate
  Sent <- ClientBodies
  NoCode = NoCode
  NoEntry = NoEntry
  MaxRows = 2
INVARIANTS
  TypeOK
  UniqueNames
  SavedIsStored
  NobodyStuck
PROPERTY RequestsEnd
