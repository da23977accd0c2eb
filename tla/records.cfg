SPECIFICATION Spec
CONSTANTS
  Users = {u1, u2}
  Shards = {s1, s2}
  Assignments = {a}
  Ids = {i1, i2, i3}
  Titles = {t}
  Default = Default
  Handlers = {h1, h2}
  None = None
SYMMETRY Symmetry
INVARIANTS
  TypeOK
  PairBound
  SubmissionBound
  LateBound
  TitleFromOwner
