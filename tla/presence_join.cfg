SPECIFICATION OneSessionSpec
CONSTANTS
  u1 = u1
  u2 = u2
  s1 = s1
  s2 = s2
  s3 = s3
  Users <- OneUser
  Sockets <- OneUserSockets
  Owner <- OneUserOwner
  Tasks = {t1, t2}
  Rooms = {r1, r2}
  NoRoom = NoRoom
  NoSocket = NoSocket
PROPERTY JoinMeansSubscribed
