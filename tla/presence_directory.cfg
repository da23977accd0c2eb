SPECIFICATION PatientSpec
CONSTANTS
  u1 = u1
  u2 = u2
  s1 = s1
  s2 = s2
  s3 = s3
  Users <- TwoUsers
  Sockets <- TwoUserSockets
  Owner <- TwoUserOwner
  Tasks = {t1, t2}
  Rooms = {r1, r2}
  NoRoom = NoRoom
  NoSocket = NoSocket
PROPERTIES
  DirectoryImplemented
  DirectoryFollows
