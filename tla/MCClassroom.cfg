\* Three connections of two users in two lessons. A state with every socket closed has no step.
SPECIFICATION ClassroomSpec
CONSTANTS
  Sockets = {s1, s2, s3}
  Users = {u1, u2}
  Owners = {u1}
  RoomNames = {n1, n2}
  MaxGen = 2
  MaxFailed = 0
  Groups = {g1}
  Questions = {q1}
  Messages = {m1, m2}
  maxNumMessages = 1
SYMMETRY Symmetry
CHECK_DEADLOCK FALSE
INVARIANTS
  PresentIsServed
  MembersMatchSockets
  GhostsAreLate
  ChatMembersAreInRoom
  ChatStaysInRoom
  ClientsAgree
  ListenersHaveBacklog
