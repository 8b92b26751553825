\* Three connections of two users in one lesson, where one query for the namespace may fail; overlapping loads of its document. A state with every socket closed has no step.
SPECIFICATION PresenceSpec
CONSTANTS
  Sockets = {s1, s2, s3}
  Users = {u1, u2}
  Owners = {u1}
  RoomNames = {n1}
  MaxGen = 2
  MaxFailed = 1
  MaxLoads = 3
SYMMETRY Symmetry
CHECK_DEADLOCK FALSE
INVARIANTS
  OwnersAreReached
  CountMatchesActive
  ActiveUnlessLate
