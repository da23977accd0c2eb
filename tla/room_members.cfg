SPECIFICATION DirectorySpec
CONSTANTS
  Users = {u1, u2}
  Accounts = {u1, u2}
  Handlers = {h1, h2}
  Capacity = 2
  NoUser = NoUser
  Addresses = {a1, a2}
  Invited = {"owner", "viewer"}
  Readers = {g1}
  MaxAddresses = 2
  NoAddress = NoAddress
  Pending = Pending
  Failed = Failed
SYMMETRY Symmetry
INVARIANTS
  TypeOK
  DirectoryTypeOK
  RoomLimits
  OverfullBound
  OnceTrue
