---------------------------- MODULE ClassroomProofs ----------------------------
(***************************************************************************)
(* Proofs about Rooms and about Chats, Classroom and Presence, which are   *)
(* built on them, for any sets of sockets, users and lessons and any limit *)
(* of the backlog.  Every step of a classroom is a step of the chats, and  *)
(* every step of the chats or of the presence one of the rooms, so that    *)
(* the invariant RoomsInv of the rooms is at hand throughout.              *)
(***************************************************************************)
EXTENDS Classroom, Presence, FiniteSetTheorems, SequenceTheorems, TLAPS

(* The lists of sockets of the open rooms and the variables currentRoom of *)
(* the sockets agree.  This is what makes it enough for a disconnecting    *)
(* socket to leave its current room only, and harmless for a socket that   *)
(* leaves to do so in every open room.                                     *)
InCurrentRoom ==
  \A r \in openRooms : \A s \in sockets[r] :
    phase[s] = Joined /\ currentRoom[s] = r /\ r[1] = target[s]

RoomsInv ==
  /\ TypeOK
  /\ InCurrentRoom
  /\ PresentIsServed
  /\ MembersMatchSockets
  /\ GhostsAreLate

USE RoomsAssumption
-----------------------------------------------------------------------------
(* Types *)

LEMMA TypeInit == Init => TypeOK
<1> SUFFICES ASSUME Init PROVE TypeOK
  OBVIOUS
<1>1. phase \in [Sockets -> {New, Finding, Joined}] /\ made \in [RoomNames -> 0 .. MaxGen]
  BY DEF Init
<1>2. QED
  BY <1>1 DEF Init, TypeOK

LEMMA LeaveTypes ==
  ASSUME TypeOK, NEW s \in Sockets, NEW R, leaveRooms(s, R), Close(s)
  PROVE  /\ connected' \subseteq Sockets
         /\ members' \in [Room -> SUBSET Sockets]
         /\ sockets' \in [Room -> SUBSET Sockets]
         /\ owners' \in [Room -> SUBSET Sockets]
         /\ channel' \in [RoomNames -> SUBSET Sockets]
         /\ ownerChannel' \in [RoomNames -> SUBSET Sockets]
<1>1. \A r \in Room : /\ SocketsLeft(r, s) \subseteq Sockets
                      /\ MembersLeft(r, s) \subseteq Sockets
                      /\ OwnersLeft(r, s) \subseteq Sockets
  BY DEF SocketsLeft, MembersLeft, OwnersLeft, TypeOK
<1>2. QED
  BY <1>1 DEF leaveRooms, Close, TypeOK

(* The room a socket makes is a possible room, and one of its lesson.      *)
LEMMA NewRoomIsRoom ==
  ASSUME TypeOK, NEW s \in Sockets, made[target[s]] < MaxGen
  PROVE  <<target[s], made[target[s]] + 1>> \in Room
<1>1. target[s] \in RoomNames /\ made[target[s]] \in 0 .. MaxGen
  BY DEF TypeOK
<1>2. QED
  BY <1>1 DEF Room

LEMMA TypeStep == TypeOK /\ [Next]_vars => TypeOK'
<1> SUFFICES ASSUME TypeOK, [Next]_vars PROVE TypeOK'
  OBVIOUS
<1> USE DEF vars, socketVars, roomVars, historyVars
<1>1. ASSUME NEW s \in Sockets, Join(s) \/ LookupFails(s) PROVE TypeOK'
  BY <1>1 DEF Join, LookupFails, TypeOK
<1>2. ASSUME NEW s \in Sockets, OnFind(s) PROVE TypeOK'
  <2>1. /\ phase' \in [Sockets -> {New, Finding, Joined}]
        /\ late' \subseteq Sockets /\ UNCHANGED <<user, connected, target>>
        /\ owner' \subseteq Sockets /\ unverified' \subseteq Sockets
    BY <1>2 DEF OnFind, Verified, Unverified, TypeOK
  <2>2. CASE NewRoom(s)
    <3>. DEFINE n == target[s]  r == <<n, made[n] + 1>>
    <3>1. r \in Room /\ n \in RoomNames
      BY <2>2, NewRoomIsRoom DEF NewRoom, TypeOK
    <3>2. made' \in [RoomNames -> 0 .. MaxGen]
      BY <2>2, <3>1 DEF NewRoom, TypeOK
    <3>3. /\ openRooms' = openRooms \cup {r}
          /\ currentRoom' = [currentRoom EXCEPT ![s] = r]
          /\ members' = [members EXCEPT ![r] = {s}]
          /\ sockets' = [sockets EXCEPT ![r] = {s}]
          /\ \E S \in SUBSET {s} : owners' = [owners EXCEPT ![r] = S]
          /\ channel' = [channel EXCEPT ![n] = @ \cup {s}]
          /\ creators' = creators \cup {s}
          /\ UNCHANGED ownerChannel
      BY <2>2 DEF NewRoom
    <3> HIDE DEF r, n
    <3>4. QED
      BY <2>1, <3>1, <3>2, <3>3 DEF TypeOK
  <2>3. ASSUME NEW r \in openRooms, JoinRoom(s, r) PROVE TypeOK'
    BY <2>1, <2>3 DEF JoinRoom, TypeOK
  <2>4. QED
    BY <1>2, <2>2, <2>3 DEF OnFind
<1>3. ASSUME NEW s \in Sockets, Leave(s) \/ Disconnect(s) PROVE TypeOK'
  <2>1. /\ UNCHANGED <<user, phase, target, currentRoom, owner, made, late, creators, unverified>>
        /\ openRooms' \subseteq openRooms /\ Close(s)
        /\ \E R : leaveRooms(s, R)
    BY <1>3 DEF Leave, Disconnect
  <2>2. QED
    BY <2>1, LeaveTypes DEF TypeOK
<1>4. CASE UNCHANGED vars
  BY <1>4 DEF TypeOK
<1>5. QED
  BY <1>1, <1>2, <1>3, <1>4 DEF Next
-----------------------------------------------------------------------------
(* One action at a time *)

LEMMA JoinKeeps ==
  ASSUME RoomsInv, NEW s \in Sockets, Join(s) \/ LookupFails(s)
  PROVE  InCurrentRoom' /\ PresentIsServed' /\ MembersMatchSockets' /\ GhostsAreLate'
<1>1. /\ phase[s] # Joined /\ phase'[s] # Joined
      /\ \A t \in Sockets : t # s => phase'[t] = phase[t]
      /\ UNCHANGED <<user, connected, target, currentRoom, roomVars, late>>
  BY DEF Join, LookupFails, historyVars, RoomsInv, TypeOK, New, Finding, Joined
<1>2. UNCHANGED <<openRooms, members, sockets, channel>>
  BY <1>1 DEF roomVars
<1>3. Present' = Present /\ \A t \in Present : t \in Sockets
  BY <1>1 DEF Present, RoomsInv, TypeOK
<1>4. \A r \in openRooms : sockets[r] \subseteq Sockets
  BY DEF RoomsInv, TypeOK
<1>5. InCurrentRoom'
  BY <1>1, <1>2, <1>4 DEF RoomsInv, InCurrentRoom
<1>6. PresentIsServed'
  BY <1>1, <1>2, <1>3 DEF RoomsInv, PresentIsServed, UsersOf
<1>7. MembersMatchSockets' /\ GhostsAreLate'
  BY <1>1, <1>2 DEF RoomsInv, MembersMatchSockets, GhostsAreLate, UsersOf
<1>8. QED
  BY <1>5, <1>6, <1>7

(* What a completed join leaves behind in any case.                        *)
LEMMA OnFindFacts ==
  ASSUME RoomsInv, NEW s \in Sockets, OnFind(s)
  PROVE  /\ phase'[s] = Joined
         /\ \A t \in Sockets : t # s => phase'[t] = phase[t]
         /\ UNCHANGED <<user, connected, target>>
         /\ late \subseteq late' /\ s \in connected \cup late'
         /\ \A r \in openRooms : s \notin sockets[r] /\ sockets[r] \subseteq Sockets
         /\ s \notin Present
         /\ \A t \in Present' : t \in Sockets /\ (t # s => t \in Present)
  BY DEF OnFind, RoomsInv, TypeOK, InCurrentRoom, Present, Finding, Joined

LEMMA NewRoomKeeps ==
  ASSUME RoomsInv, NEW s \in Sockets, OnFind(s),
         \A q \in openRooms : q[1] # target[s], NewRoom(s)
  PROVE  InCurrentRoom' /\ PresentIsServed' /\ MembersMatchSockets' /\ GhostsAreLate'
<1>. DEFINE n == target[s]  r == <<n, made[n] + 1>>
<1>1. r \in Room /\ n \in RoomNames /\ r[1] = n
  BY NewRoomIsRoom DEF NewRoom, RoomsInv, TypeOK
<1>2. r \notin openRooms /\ openRooms' = openRooms \cup {r}
  BY <1>1 DEF NewRoom
<1>3. /\ currentRoom'[s] = r
      /\ \A t \in Sockets : t # s => currentRoom'[t] = currentRoom[t]
  BY DEF NewRoom, RoomsInv, TypeOK
<1>4. /\ members'[r] = {s} /\ sockets'[r] = {s}
      /\ \A q \in openRooms : members'[q] = members[q] /\ sockets'[q] = sockets[q]
  BY <1>1, <1>2 DEF NewRoom, RoomsInv, TypeOK
<1>5. s \in channel'[n] /\ \A m \in RoomNames : channel[m] \subseteq channel'[m]
  BY <1>1 DEF NewRoom, RoomsInv, TypeOK
<1>6. \A t \in Sockets : target[t] \in RoomNames
  BY DEF RoomsInv, TypeOK
<1> HIDE DEF r
<1>7. InCurrentRoom'
  BY <1>1, <1>2, <1>3, <1>4, OnFindFacts DEF RoomsInv, InCurrentRoom
<1>8. \A q, p \in openRooms' : q[1] = p[1] => q = p
  BY <1>1, <1>2 DEF RoomsInv, PresentIsServed
<1>9. ASSUME NEW t \in Present'
      PROVE  LET q == currentRoom'[t] IN
             /\ q \in openRooms' /\ q[1] = target'[t]
             /\ t \in sockets'[q] /\ t \in channel'[target'[t]]
             /\ user'[t] \in {user'[m] : m \in members'[q]}
  <2>1. CASE t = s
    BY <1>1, <1>2, <1>3, <1>4, <1>5, <2>1, OnFindFacts
  <2>2. CASE t # s
    BY <1>2, <1>3, <1>4, <1>5, <1>6, <1>9, <2>2, OnFindFacts
       DEF RoomsInv, PresentIsServed, UsersOf
  <2>3. QED
    BY <2>1, <2>2
<1>10. PresentIsServed'
  BY <1>8, <1>9 DEF PresentIsServed, UsersOf
<1>11. MembersMatchSockets'
  <2>1. SUFFICES ASSUME NEW q \in openRooms'
                 PROVE  /\ {user[m] : m \in members'[q]} = {user[m] : m \in sockets'[q]}
                        /\ \A m, k \in members'[q] : user[m] = user[k] => m = k
    BY OnFindFacts DEF MembersMatchSockets, UsersOf
  <2>2. CASE q = r
    BY <1>4, <2>2
  <2>3. CASE q \in openRooms
    <3>1. /\ {user[m] : m \in members[q]} = {user[m] : m \in sockets[q]}
          /\ \A m, k \in members[q] : user[m] = user[k] => m = k
      BY <2>3 DEF RoomsInv, MembersMatchSockets, UsersOf
    <3>2. members'[q] = members[q] /\ sockets'[q] = sockets[q]
      BY <1>4, <2>3
    <3>3. QED
      BY <3>1, <3>2
  <2>4. QED
    BY <1>2, <2>2, <2>3
<1>12. GhostsAreLate'
  BY <1>2, <1>4, OnFindFacts DEF RoomsInv, GhostsAreLate
<1>13. QED
  BY <1>7, <1>10, <1>11, <1>12

LEMMA JoinRoomKeeps ==
  ASSUME RoomsInv, NEW s \in Sockets, OnFind(s),
         NEW r \in openRooms, r[1] = target[s], JoinRoom(s, r)
  PROVE  InCurrentRoom' /\ PresentIsServed' /\ MembersMatchSockets' /\ GhostsAreLate'
<1>1. openRooms' = openRooms /\ r \in Room
  BY DEF JoinRoom, RoomsInv, TypeOK
<1>2. /\ currentRoom'[s] = r
      /\ \A t \in Sockets : t # s => currentRoom'[t] = currentRoom[t]
  BY DEF JoinRoom, RoomsInv, TypeOK
<1>3. /\ sockets'[r] = sockets[r] \cup {s}
      /\ members'[r] = IF user[s] \in UsersOf(members[r]) THEN members[r]
                       ELSE members[r] \cup {s}
      /\ \A q \in openRooms : q # r => members'[q] = members[q] /\ sockets'[q] = sockets[q]
  BY <1>1 DEF JoinRoom, RoomsInv, TypeOK
<1>4. \A t \in Sockets : target[t] \in RoomNames
  BY DEF RoomsInv, TypeOK
<1>5. s \in channel'[target[s]] /\ \A m \in RoomNames : channel[m] \subseteq channel'[m]
  BY <1>4 DEF JoinRoom, RoomsInv, TypeOK
<1>6. InCurrentRoom'
  BY <1>1, <1>2, <1>3, OnFindFacts DEF RoomsInv, InCurrentRoom
<1>7. \A q \in openRooms : members[q] \subseteq members'[q] /\ sockets[q] \subseteq sockets'[q]
  BY <1>3
<1>8. ASSUME NEW t \in Present'
      PROVE  LET q == currentRoom'[t] IN
             /\ q \in openRooms' /\ q[1] = target'[t]
             /\ t \in sockets'[q] /\ t \in channel'[target'[t]]
             /\ user'[t] \in {user'[m] : m \in members'[q]}
  <2>1. CASE t = s
    <3>1. user[s] \in {user[m] : m \in members'[r]}
      BY <1>3 DEF UsersOf
    <3>2. QED
      BY <1>1, <1>2, <1>3, <1>5, <2>1, <3>1, OnFindFacts
  <2>2. CASE t # s
    BY <1>1, <1>2, <1>4, <1>5, <1>7, <1>8, <2>2, OnFindFacts
       DEF RoomsInv, PresentIsServed, UsersOf
  <2>3. QED
    BY <2>1, <2>2
<1>9. PresentIsServed'
  BY <1>1, <1>8 DEF PresentIsServed, RoomsInv, UsersOf
<1>10. MembersMatchSockets'
  <2>1. SUFFICES ASSUME NEW q \in openRooms
                 PROVE  /\ {user[m] : m \in members'[q]} = {user[m] : m \in sockets'[q]}
                        /\ \A m, k \in members'[q] : user[m] = user[k] => m = k
    BY <1>1, OnFindFacts DEF MembersMatchSockets, UsersOf
  <2>2. /\ {user[m] : m \in members[q]} = {user[m] : m \in sockets[q]}
        /\ \A m, k \in members[q] : user[m] = user[k] => m = k
    BY DEF RoomsInv, MembersMatchSockets, UsersOf
  <2>3. CASE q # r
    <3>1. members'[q] = members[q] /\ sockets'[q] = sockets[q]
      BY <1>3, <2>3
    <3>2. QED
      BY <2>2, <3>1
  <2>4. CASE q = r
    <3>1. {user[m] : m \in sockets'[r]} = {user[m] : m \in sockets[r]} \cup {user[s]}
      BY <1>3
    <3>2. CASE user[s] \in {user[m] : m \in members[r]}
      <4>1. members'[r] = members[r]
        BY <1>3, <3>2 DEF UsersOf
      <4>2. QED
        BY <2>2, <2>4, <3>1, <3>2, <4>1
    <3>3. CASE user[s] \notin {user[m] : m \in members[r]}
      <4>1. members'[r] = members[r] \cup {s}
        BY <1>3, <3>3 DEF UsersOf
      <4>2. {user[m] : m \in members'[r]} = {user[m] : m \in members[r]} \cup {user[s]}
        BY <4>1
      <4>3. QED
        BY <2>2, <2>4, <3>1, <3>3, <4>1, <4>2
    <3>4. QED
      BY <3>2, <3>3
  <2>5. QED
    BY <2>3, <2>4
<1>11. GhostsAreLate'
  BY <1>1, <1>3, OnFindFacts DEF RoomsInv, GhostsAreLate
<1>12. QED
  BY <1>6, <1>9, <1>10, <1>11

(* A socket closes and leaves rooms, at least its own.  In every open room *)
(* just the socket goes, and with the last socket of a user the member.    *)
LEMMA DepartureKeeps ==
  ASSUME RoomsInv, NEW s \in Sockets, NEW R, leaveRooms(s, R), Close(s),
         \A r \in openRooms : r \in R \/ s \notin sockets[r],
         openRooms' \subseteq openRooms,
         \A r \in openRooms : r \notin openRooms' => members'[r] = {},
         UNCHANGED <<user, phase, target, currentRoom, late>>
  PROVE  InCurrentRoom' /\ PresentIsServed' /\ MembersMatchSockets' /\ GhostsAreLate'
<1>1. \A r \in openRooms : r \in Room
  BY DEF RoomsInv, TypeOK
<1>2. \A r \in openRooms : sockets'[r] = sockets[r] \ {s}
  BY <1>1 DEF leaveRooms, SocketsLeft
<1>3. \A r \in openRooms :
        members'[r] = {m \in members[r] : user[m] \in UsersOf(sockets[r] \ {s})}
  <2>1. SUFFICES ASSUME NEW r \in openRooms
                 PROVE  members'[r] = {m \in members[r] :
                                         user[m] \in UsersOf(sockets[r] \ {s})}
    OBVIOUS
  <2>2. UsersOf(members[r]) = UsersOf(sockets[r])
    BY DEF RoomsInv, MembersMatchSockets
  <2>3. \A m \in members[r] : user[m] \in UsersOf(sockets[r] \ {s}) \/ user[m] = user[s]
    BY <2>2 DEF UsersOf
  <2>4. CASE r \notin R
    <3>1. sockets[r] \ {s} = sockets[r] /\ members'[r] = members[r]
      BY <1>1, <2>4 DEF leaveRooms
    <3>2. QED
      BY <2>2, <3>1 DEF UsersOf
  <2>5. CASE r \in R
    <3>1. members'[r] = MembersLeft(r, s)
      BY <1>1, <2>5 DEF leaveRooms
    <3>2. QED
      BY <2>3, <3>1 DEF MembersLeft, Goes, SocketsLeft
  <2>6. QED
    BY <2>4, <2>5
<1>4. InCurrentRoom'
  BY <1>2 DEF RoomsInv, InCurrentRoom
<1>5. MembersMatchSockets'
  <2>1. SUFFICES ASSUME NEW r \in openRooms
                 PROVE  /\ {user[m] : m \in members'[r]} = {user[m] : m \in sockets'[r]}
                        /\ \A m, k \in members'[r] : user[m] = user[k] => m = k
    BY DEF MembersMatchSockets, UsersOf
  <2>2. /\ UsersOf(members[r]) = UsersOf(sockets[r])
        /\ \A m, k \in members[r] : user[m] = user[k] => m = k
    BY DEF RoomsInv, MembersMatchSockets
  <2>3. QED
    BY <1>2, <1>3, <2>2 DEF UsersOf
<1>6. \A t \in Present' : t \in Present /\ t # s /\ t \in Sockets
  BY DEF Present, Close, RoomsInv, TypeOK
<1>7. ASSUME NEW t \in Present'
      PROVE  LET q == currentRoom[t] IN
             /\ q \in openRooms' /\ q[1] = target[t]
             /\ t \in sockets'[q] /\ t \in channel'[target[t]]
             /\ user[t] \in {user[m] : m \in members'[q]}
  <2>. DEFINE q == currentRoom[t]
  <2>1. /\ q \in openRooms /\ q[1] = target[t] /\ t \in sockets[q]
        /\ t \in channel[target[t]] /\ user[t] \in UsersOf(members[q])
    BY <1>6 DEF RoomsInv, PresentIsServed
  <2>2. t \in sockets'[q] /\ user[t] \in UsersOf(sockets[q] \ {s})
    BY <1>2, <1>6, <2>1 DEF UsersOf
  <2>3. user[t] \in {user[m] : m \in members'[q]}
    BY <1>3, <2>1, <2>2 DEF UsersOf
  <2>4. q \in openRooms'
    BY <2>1, <2>3
  <2>5. t \in channel'[target[t]]
    BY <1>6, <2>1 DEF Close, RoomsInv, TypeOK
  <2>6. QED
    BY <2>1, <2>2, <2>3, <2>4, <2>5
<1>8. PresentIsServed'
  BY <1>7 DEF PresentIsServed, RoomsInv, UsersOf
<1>9. GhostsAreLate'
  BY <1>2 DEF RoomsInv, GhostsAreLate, Close
<1>10. QED
  BY <1>4, <1>5, <1>8, <1>9
-----------------------------------------------------------------------------
LEMMA InvStep == RoomsInv /\ [Next]_vars => RoomsInv'
<1> SUFFICES ASSUME RoomsInv, [Next]_vars
             PROVE  InCurrentRoom' /\ PresentIsServed' /\ MembersMatchSockets'
                      /\ GhostsAreLate'
  BY TypeStep DEF RoomsInv
<1>1. CASE \E s \in Sockets : Join(s) \/ LookupFails(s)
  BY <1>1, JoinKeeps
<1>2. CASE \E s \in Sockets : OnFind(s)
  <2>1. PICK s \in Sockets : OnFind(s)
    BY <1>2
  <2>2. \/ (\A q \in openRooms : q[1] # target[s]) /\ NewRoom(s)
        \/ \E r \in openRooms : r[1] = target[s] /\ JoinRoom(s, r)
    BY <2>1 DEF OnFind
  <2>3. QED
    BY <2>1, <2>2, NewRoomKeeps, JoinRoomKeeps
<1>3. CASE \E s \in Sockets : Leave(s)
  <2>1. PICK s \in Sockets : Leave(s)
    BY <1>3
  <2>. DEFINE R == openRooms
  <2>2. /\ leaveRooms(s, R) /\ Close(s) /\ openRooms' \subseteq openRooms
        /\ UNCHANGED <<user, phase, target, currentRoom, late>>
        /\ \A r \in openRooms : r \in R \/ s \notin sockets[r]
    BY <2>1 DEF Leave, historyVars
  <2>3. \A r \in openRooms : r \notin openRooms' => members'[r] = {}
    BY <2>1 DEF Leave, leaveRooms, RoomsInv, TypeOK
  <2> HIDE DEF R
  <2>4. QED
    BY <2>2, <2>3, DepartureKeeps
<1>4. CASE \E s \in Sockets : Disconnect(s)
  <2>1. PICK s \in Sockets : Disconnect(s)
    BY <1>4
  <2>. DEFINE R == IF phase[s] = Joined THEN {currentRoom[s]} ELSE {}
  <2>2. /\ leaveRooms(s, R) /\ Close(s) /\ openRooms' = openRooms
        /\ UNCHANGED <<user, phase, target, currentRoom, late>>
    BY <2>1 DEF Disconnect, historyVars
  <2>3. \A r \in openRooms : r \in R \/ s \notin sockets[r]
    BY DEF RoomsInv, InCurrentRoom
  <2> HIDE DEF R
  <2>4. QED
    BY <2>2, <2>3, DepartureKeeps
<1>5. CASE UNCHANGED vars
  <2>1. UNCHANGED <<user, connected, phase, target, currentRoom, openRooms, members,
                    sockets, channel, late>>
    BY <1>5 DEF vars, socketVars, roomVars, historyVars
  <2>2. InCurrentRoom' /\ GhostsAreLate'
    BY <2>1 DEF RoomsInv, InCurrentRoom, GhostsAreLate
  <2>3. MembersMatchSockets'
    BY <2>1 DEF RoomsInv, MembersMatchSockets, UsersOf
  <2>4. PresentIsServed'
    <3>1. Present' = Present
      BY <2>1 DEF Present
    <3>2. QED
      BY <2>1, <3>1 DEF RoomsInv, PresentIsServed, UsersOf
  <2>5. QED
    BY <2>2, <2>3, <2>4
<1>6. QED
  BY <1>1, <1>2, <1>3, <1>4, <1>5 DEF Next

(* Whoever counts as an owner without a claim of his own is one, and the   *)
(* channels and creators of rooms are sockets that have joined.            *)
OwnersInv ==
  /\ \A s \in owner : user[s] \in Owners \/ s \in unverified
  /\ \A n \in RoomNames : \A s \in ownerChannel[n] : s \in Sockets /\ phase[s] = Joined
  /\ \A s \in creators : phase[s] = Joined
  /\ OwnersAreReached

(* The flag of the socket that joins, and no other, is set by the lookup.  *)
LEMMA OwnerFlag ==
  ASSUME OwnersInv, NEW s \in Sockets, OnFind(s)
  PROVE  /\ \A t : t # s => (t \in owner' <=> t \in owner) /\ (t \in unverified' <=> t \in unverified)
         /\ s \in owner' => user[s] \in Owners \/ s \in unverified'
         /\ s \notin unverified' => (s \in owner' <=> user[s] \in Owners)
         /\ unverified \subseteq unverified'
BY DEF OnFind, Verified, Unverified, OwnersInv

LEMMA OwnersStep ==
  ASSUME RoomsInv, OwnersInv, [Next]_vars
  PROVE  OwnersInv'
<1> USE DEF vars, socketVars, roomVars, historyVars
<1>1. CASE UNCHANGED vars
  BY <1>1 DEF OwnersInv, OwnersAreReached, Present
<1>2. ASSUME NEW s \in Sockets, Join(s) \/ LookupFails(s) PROVE OwnersInv'
  <2>1. UNCHANGED <<user, target, owner, creators, unverified, ownerChannel>> /\ Present' = Present
    BY <1>2 DEF Join, LookupFails, Present, RoomsInv, TypeOK, New, Finding, Joined
  <2>2. \A t \in Sockets : phase[t] = Joined => phase'[t] = Joined
    BY <1>2 DEF Join, LookupFails, RoomsInv, TypeOK, New, Finding, Joined
  <2>3. QED
    BY <2>1, <2>2 DEF OwnersInv, OwnersAreReached, RoomsInv, TypeOK
<1>3. ASSUME NEW s \in Sockets, OnFind(s) PROVE OwnersInv'
  <2>1. /\ UNCHANGED <<user, target>> /\ target[s] \in RoomNames
        /\ \A t \in Present' : t \in Sockets /\ (t # s => t \in Present)
        /\ phase[s] # Joined /\ phase'[s] = Joined
        /\ \A t \in Sockets : t # s => phase'[t] = phase[t]
    BY <1>3, OnFindFacts DEF RoomsInv, TypeOK, OnFind, Finding, Joined
  <2>2. \A t \in owner' : user'[t] \in Owners \/ t \in unverified'
    BY <1>3, <2>1, OwnerFlag DEF OwnersInv
  <2>3. /\ \A n \in RoomNames : s \notin ownerChannel[n]
        /\ s \notin creators
    BY <2>1 DEF OwnersInv
  <2>4. \/ creators' = creators \cup {s} /\ ownerChannel' = ownerChannel
        \/ /\ creators' = creators
           /\ \A n \in RoomNames : ownerChannel'[n] = IF n = target[s] /\ s \in owner'
                                                      THEN ownerChannel[n] \cup {s}
                                                      ELSE ownerChannel[n]
    <3>1. CASE NewRoom(s)
      BY <3>1 DEF NewRoom
    <3>2. CASE \E r \in openRooms : JoinRoom(s, r)
      <4>1. ownerChannel \in [RoomNames -> SUBSET Sockets]
        BY DEF RoomsInv, TypeOK
      <4>2. creators' = creators
            /\ ownerChannel' = IF s \in owner'
                               THEN [ownerChannel EXCEPT ![target[s]] = @ \cup {s}]
                               ELSE ownerChannel
        BY <3>2 DEF JoinRoom
      <4>3. QED
        BY <2>1, <4>1, <4>2
    <3>3. QED
      BY <1>3, <3>1, <3>2 DEF OnFind
  <2>0. \A n \in RoomNames : \A t \in ownerChannel'[n] :
          t \in ownerChannel[n] \/ (t = s /\ s \in owner')
    BY <2>4
  <2>5. /\ \A n \in RoomNames : \A t \in ownerChannel'[n] : t \in Sockets /\ phase'[t] = Joined
        /\ \A t \in creators' : phase'[t] = Joined
    <3>1. \A t \in creators : t \in Sockets
      BY DEF RoomsInv, TypeOK
    <3>2. \A t \in creators' : t \in creators \/ t = s
      BY <2>4
    <3>3. \A t \in creators' : phase'[t] = Joined
      BY <2>1, <3>1, <3>2 DEF OwnersInv
    <3>4. QED
      BY <2>0, <2>1, <3>3 DEF OwnersInv
  <2>6. ASSUME NEW t \in Present', t \notin unverified'
        PROVE  t \in ownerChannel'[target[t]] <=> user[t] \in Owners /\ t \notin creators'
    <3>1. target[t] \in RoomNames
      BY <2>1 DEF RoomsInv, TypeOK
    <3>2. CASE t = s
      BY <1>3, <2>1, <2>3, <2>4, <2>6, <3>2, OwnerFlag
    <3>3. CASE t # s
      <4>1. t \in Present /\ t \notin unverified
        BY <1>3, <2>1, <2>6, <3>3, OwnerFlag
      <4>2. t \in ownerChannel[target[t]] <=> user[t] \in Owners /\ t \notin creators
        BY <4>1 DEF OwnersInv, OwnersAreReached
      <4>3. t \in ownerChannel'[target[t]] <=> t \in ownerChannel[target[t]]
        BY <2>4, <3>1, <3>3
      <4>4. t \in creators' <=> t \in creators
        BY <2>4, <3>3
      <4>5. QED
        BY <4>2, <4>3, <4>4
    <3>4. QED
      BY <3>2, <3>3
  <2>7. ASSUME NEW n \in RoomNames, NEW t \in ownerChannel'[n]
        PROVE  user[t] \in Owners \/ t \in unverified'
    BY <1>3, <2>0, <2>7, OwnerFlag DEF OwnersInv, OwnersAreReached
  <2>8. OwnersAreReached'
    BY <2>1, <2>6, <2>7 DEF OwnersAreReached
  <2>9. QED
    BY <2>2, <2>5, <2>8 DEF OwnersInv
<1>4. ASSUME NEW s \in Sockets, Leave(s) \/ Disconnect(s) PROVE OwnersInv'
  <2>1. UNCHANGED <<user, phase, target, owner, creators, unverified>> /\ Close(s)
    BY <1>4 DEF Leave, Disconnect
  <2>2. \A t \in Present' : t \in Present /\ t # s /\ t \in Sockets
    BY <2>1 DEF Present, Close, RoomsInv, TypeOK
  <2>3. \A n \in RoomNames : ownerChannel'[n] = ownerChannel[n] \ {s}
    BY <2>1 DEF Close
  <2>4. \A t \in Present' : target[t] \in RoomNames
    BY <2>2 DEF RoomsInv, TypeOK
  <2>5. QED
    BY <2>1, <2>2, <2>3, <2>4 DEF OwnersInv, OwnersAreReached
<1>5. QED
  BY <1>1, <1>2, <1>3, <1>4 DEF Next

LEMMA InvInit == Init => RoomsInv
  BY TypeInit DEF Init, RoomsInv, InCurrentRoom, PresentIsServed, MembersMatchSockets,
                  GhostsAreLate, Present, New, Joined

(* A lesson has one room, and every socket that has joined is served by it *)
(* (handler.js 52-104, 304-342; room.js 197-262).                          *)
THEOREM ServedCorrect == Spec => []PresentIsServed
<1>1. RoomsInv => PresentIsServed
  BY DEF RoomsInv
<1>2. QED
  BY InvInit, InvStep, <1>1, PTL DEF Spec

(* The members of a room are the users with a socket in it, each once      *)
(* (room.js 197-213, 234-262).                                             *)
THEOREM MembersCorrect == Spec => []MembersMatchSockets
<1>1. RoomsInv => MembersMatchSockets
  BY DEF RoomsInv
<1>2. QED
  BY InvInit, InvStep, <1>1, PTL DEF Spec

(* Only a join completed after its socket had closed leaves a ghost        *)
(* (handler.js 58-76, 336-342).                                            *)
THEOREM GhostsCorrect == Spec => []GhostsAreLate
<1>1. RoomsInv => GhostsAreLate
  BY DEF RoomsInv
<1>2. QED
  BY InvInit, InvStep, <1>1, PTL DEF Spec

(* What is sent to the instructors of a lesson reaches every connected     *)
(* socket of an owner, except the one that made the room, and of others    *)
(* only those whose namespace could not be looked up                       *)
(* (handler.js 74-88; room.js 44-49, 176-180, 208-211, 252-260).           *)
THEOREM OwnersCorrect == Spec => []OwnersAreReached
<1>1. Init => RoomsInv /\ OwnersInv
  BY InvInit DEF Init, OwnersInv, OwnersAreReached, Present, New, Joined
<1>2. RoomsInv /\ OwnersInv /\ [Next]_vars => RoomsInv' /\ OwnersInv'
  BY InvStep, OwnersStep
<1>3. OwnersInv => OwnersAreReached
  BY DEF OwnersInv
<1>4. QED
  BY <1>1, <1>2, <1>3, PTL DEF Spec
-----------------------------------------------------------------------------
(* Chats, classrooms and presence *)

(* The rooms made so far are counted, and who is in a channel of a lesson  *)
(* has joined it.                                                          *)
MadeInv ==
  /\ \A r \in openRooms : r[2] <= made[r[1]]
  /\ \A n \in RoomNames : \A s \in channel[n] : phase[s] = Joined /\ target[s] = n

(* The chat of a room that is still to be made is empty.                   *)
FreshChats == \A r \in Room : r[2] > made[r[1]] => chatMembers[r] = {}

(* Owners listen in one channel of the chat, the others in the other.      *)
ChatSides ==
  \A n \in RoomNames : chatOwners[n] \subseteq owner /\ chatUsers[n] \cap owner = {}

ChatsInv ==
  /\ RoomsInv
  /\ MadeInv
  /\ ChatsTypeOK
  /\ FreshChats
  /\ ChatMembersAreInRoom
  /\ ChatStaysInRoom
  /\ ChatSides
------------------------------------------------------------------------------
(* Steps of the rooms *)

LEMMA RoomPair ==
  ASSUME NEW r \in Room
  PROVE  r[1] \in RoomNames /\ r[2] \in 1 .. MaxGen
BY DEF Room

LEMMA MadeStep ==
  ASSUME RoomsInv, MadeInv, [Next]_vars
  PROVE  MadeInv'
<1> USE DEF vars, socketVars, roomVars, historyVars
<1>1. CASE UNCHANGED vars
  BY <1>1 DEF MadeInv
<1>2. ASSUME NEW s \in Sockets, Join(s) \/ LookupFails(s) PROVE MadeInv'
  <2>1. /\ phase[s] # Joined /\ \A t \in Sockets : t # s => phase'[t] = phase[t]
        /\ UNCHANGED <<openRooms, made, channel, target>>
    BY <1>2 DEF Join, LookupFails, RoomsInv, TypeOK, New, Finding, Joined
  <2>2. \A n \in RoomNames : channel[n] \subseteq Sockets /\ s \notin channel[n]
    BY <2>1 DEF MadeInv, RoomsInv, TypeOK
  <2>3. QED
    BY <2>1, <2>2 DEF MadeInv
<1>3. ASSUME NEW s \in Sockets, OnFind(s) PROVE MadeInv'
  <2>1. /\ phase'[s] = Joined /\ \A t \in Sockets : t # s => phase'[t] = phase[t]
        /\ target' = target /\ target[s] \in RoomNames
    BY <1>3 DEF OnFind, RoomsInv, TypeOK
  <2>2. /\ \A n \in RoomNames \ {target[s]} : channel'[n] = channel[n]
        /\ channel'[target[s]] = channel[target[s]] \cup {s}
    BY <1>3, <2>1 DEF OnFind, NewRoom, JoinRoom, RoomsInv, TypeOK
  <2>3. \A n \in RoomNames : \A t \in channel'[n] : phase'[t] = Joined /\ target'[t] = n
    BY <2>1, <2>2 DEF MadeInv, RoomsInv, TypeOK
  <2>4. CASE NewRoom(s)
    <3>1. /\ made'[target[s]] = made[target[s]] + 1
          /\ \A n \in RoomNames \ {target[s]} : made'[n] = made[n]
          /\ openRooms' = openRooms \cup {<<target[s], made[target[s]] + 1>>}
      BY <2>1, <2>4 DEF NewRoom, RoomsInv, TypeOK
    <3>2. \A n \in RoomNames : made[n] \in Nat /\ made[n] <= made'[n]
      BY <2>1, <3>1 DEF RoomsInv, TypeOK
    <3>3. \A r \in openRooms : r[1] \in RoomNames /\ r[2] \in Nat /\ r[2] <= made'[r[1]]
      BY <3>1, <3>2, RoomPair DEF MadeInv, RoomsInv, TypeOK
    <3>4. QED
      BY <2>1, <2>3, <3>1, <3>2, <3>3 DEF MadeInv
  <2>5. CASE \E r \in openRooms : JoinRoom(s, r)
    BY <2>3, <2>5 DEF JoinRoom, MadeInv
  <2>6. QED
    BY <1>3, <2>4, <2>5 DEF OnFind
<1>4. ASSUME NEW s \in Sockets, Leave(s) \/ Disconnect(s) PROVE MadeInv'
  BY <1>4 DEF Leave, Disconnect, Close, MadeInv
<1>5. QED
  BY <1>1, <1>2, <1>3, <1>4 DEF Next
------------------------------------------------------------------------------
(* Steps of the chats *)

(* Each is a step of the rooms, too.                                       *)
LEMMA ChatsStepIsStep == [ChatsNext]_chatsVars => [Next]_vars
BY DEF ChatsNext, chatsVars, OnFindChats, LeaveChats, DisconnectChats, joinChat, leaveChat,
       closeChatForAll, Next

LEMMA ChatsTypesInv ==
  ASSUME ChatsInv
  PROVE  /\ TypeOK
         /\ chats \subseteq Room
         /\ chatMembers \in [Room -> SUBSET Sockets]
         /\ chatUsers \in [RoomNames -> SUBSET Sockets]
         /\ chatOwners \in [RoomNames -> SUBSET Sockets]
BY DEF ChatsInv, ChatsTypeOK

(* What Listen does to the channels.                                       *)
LEMMA ListenFacts ==
  ASSUME ChatsInv, NEW s \in Sockets, Listen(s)
  PROVE  LET n == target[s] IN
         /\ chatUsers' \in [RoomNames -> SUBSET Sockets]
         /\ chatOwners' \in [RoomNames -> SUBSET Sockets]
         /\ \A m \in RoomNames : m # n => chatUsers'[m] = chatUsers[m] /\ chatOwners'[m] = chatOwners[m]
         /\ chatUsers[n] \subseteq chatUsers'[n] /\ chatOwners[n] \subseteq chatOwners'[n]
         /\ chatUsers'[n] \subseteq chatUsers[n] \cup {s}
         /\ chatOwners'[n] \subseteq chatOwners[n] \cup {s}
         /\ s \in chatOwners'[n] => s \in chatOwners[n] \/ s \in owner'
         /\ s \in chatUsers'[n] => s \in chatUsers[n] \/ s \notin owner'
         /\ s \in chatUsers'[n] \cup chatOwners'[n]
<1>1. target[s] \in RoomNames
  BY ChatsTypesInv DEF TypeOK
<1>2. QED
  BY <1>1, ChatsTypesInv DEF Listen

(* A socket that is in the channel of its lesson may listen to its chat,   *)
(* if it is no owner yet or has been one all along.                        *)
LEMMA ListenStays ==
  ASSUME ChatsInv, NEW s \in Sockets, Listen(s), UNCHANGED connected,
         s \in channel'[target[s]],
         \A n \in RoomNames : channel[n] \subseteq channel'[n],
         \A t \in Sockets : t # s => (t \in owner' <=> t \in owner),
         (s \in owner' <=> s \in owner) \/ \A n \in RoomNames : s \notin channel[n],
         \A r \in Room : chatMembers'[r] \subseteq
           (IF r[1] = target[s] THEN chatMembers[r] \cup {s} ELSE chatMembers[r])
  PROVE  ChatStaysInRoom' /\ ChatSides'
<1>. DEFINE n == target[s]
<1>1. \A m \in RoomNames : /\ chatUsers[m] \cup chatOwners[m] \subseteq channel[m]
                           /\ chatUsers[m] \subseteq Sockets /\ chatOwners[m] \subseteq Sockets
                           /\ \A t \in chatOwners[m] : t \in owner
                           /\ \A t \in chatUsers[m] : t \notin owner
  BY ChatsTypesInv DEF ChatsInv, ChatStaysInRoom, ChatSides
<1>2. n \in RoomNames /\ \A r \in Room : r[1] \in RoomNames
  BY ChatsTypesInv, RoomPair DEF TypeOK
<1>3. ASSUME NEW m \in RoomNames
      PROVE  /\ chatUsers'[m] \cup chatOwners'[m] \subseteq channel'[m]
             /\ chatUsers[m] \cup chatOwners[m] \subseteq chatUsers'[m] \cup chatOwners'[m]
             /\ \A t \in chatOwners'[m] : t \in owner'
             /\ \A t \in chatUsers'[m] : t \notin owner'
  <2>1. /\ \A t \in chatOwners[m] : t \in owner'
        /\ \A t \in chatUsers[m] : t \notin owner'
    BY <1>1
  <2>2. CASE m = n
    BY <1>1, <2>1, <2>2, ListenFacts
  <2>3. CASE m # n
    BY <1>1, <2>1, <2>3, ListenFacts
  <2>4. QED
    BY <2>2, <2>3
<1>4. ASSUME NEW r \in Room
      PROVE  chatMembers'[r] \cap connected' \subseteq chatUsers'[r[1]] \cup chatOwners'[r[1]]
  <2>1. chatMembers[r] \cap connected \subseteq chatUsers[r[1]] \cup chatOwners[r[1]]
    BY DEF ChatsInv, ChatStaysInRoom
  <2>2. chatMembers[r] \cap connected' \subseteq chatUsers'[r[1]] \cup chatOwners'[r[1]]
    BY <1>2, <1>3, <2>1
  <2>3. CASE r[1] = n
    <3>1. s \in chatUsers'[r[1]] \cup chatOwners'[r[1]]
      BY <2>3, ListenFacts
    <3>2. QED
      BY <2>2, <2>3, <3>1
  <2>4. CASE r[1] # n
    BY <2>2, <2>4
  <2>5. QED
    BY <2>3, <2>4
<1>5. ChatSides'
  BY <1>3 DEF ChatSides
<1>6. \A m \in RoomNames : chatUsers'[m] \cap chatOwners'[m] = {}
  BY <1>3
<1>7. QED
  BY <1>3, <1>4, <1>5, <1>6 DEF ChatStaysInRoom

(* Where nobody begins to listen, and no member is added, the same holds.  *)
LEMMA SilenceStays ==
  ASSUME ChatsInv, UNCHANGED <<chatUsers, chatOwners>>, UNCHANGED connected,
         \A n \in RoomNames : channel[n] \subseteq channel'[n],
         \A t \in Sockets : (t \in owner' <=> t \in owner) \/ \A n \in RoomNames : t \notin channel[n],
         \A r \in Room : chatMembers'[r] \subseteq chatMembers[r]
  PROVE  ChatStaysInRoom' /\ ChatSides'
<1>1. ChatStaysInRoom'
  BY DEF ChatsInv, ChatStaysInRoom
<1>2. \A n \in RoomNames : chatUsers[n] \cup chatOwners[n] \subseteq channel[n] \cap Sockets
  BY ChatsTypesInv DEF ChatsInv, ChatStaysInRoom
<1>3. ChatSides'
  BY <1>2 DEF ChatsInv, ChatSides
<1>4. QED
  BY <1>1, <1>3

LEMMA ChatsJoinKeeps ==
  ASSUME ChatsInv, NEW s \in Sockets, Join(s) \/ LookupFails(s), UNCHANGED chatVars
  PROVE  ChatsTypeOK' /\ FreshChats' /\ ChatMembersAreInRoom' /\ ChatStaysInRoom'
           /\ ChatSides'
<1>1. UNCHANGED <<user, connected, owner, made, members, channel>>
      /\ UNCHANGED <<chats, chatMembers, chatUsers, chatOwners>>
  BY DEF Join, LookupFails, roomVars, historyVars, chatVars
<1>2. TypeOK'
  BY ChatsTypesInv, TypeStep DEF Next
<1>3. ChatsTypeOK' /\ FreshChats'
  BY <1>1, <1>2, ChatsTypesInv DEF ChatsInv, ChatsTypeOK, FreshChats
<1>4. ChatMembersAreInRoom' /\ ChatStaysInRoom' /\ ChatSides'
  BY <1>1 DEF ChatsInv, ChatMembersAreInRoom, ChatStaysInRoom, ChatSides, UsersOf
<1>5. QED
  BY <1>3, <1>4

(* What the completed join does to the rooms, as far as the chats feel it. *)
LEMMA OnFindChannels ==
  ASSUME ChatsInv, NEW s \in Sockets, OnFind(s)
  PROVE  /\ UNCHANGED <<user, connected, target>>
         /\ \A t : t # s => (t \in owner' <=> t \in owner)
         /\ \A n \in RoomNames : s \notin channel[n]
         /\ s \in channel'[target[s]]
         /\ \A n \in RoomNames : channel[n] \subseteq channel'[n]
         /\ \A r \in Room : made[r[1]] <= made'[r[1]]
         /\ \A r \in Room : r[2] <= made[r[1]] => members[r] \subseteq members'[r]
<1>1. TypeOK /\ target[s] \in RoomNames /\ UNCHANGED <<user, connected, target>>
  BY ChatsTypesInv DEF TypeOK, OnFind
<1>0. /\ \A t : t # s => (t \in owner' <=> t \in owner)
      /\ \A n \in RoomNames : s \notin channel[n]
  BY DEF OnFind, Verified, Unverified, ChatsInv, MadeInv, Finding, Joined
<1>2. s \in channel'[target[s]] /\ \A n \in RoomNames : channel[n] \subseteq channel'[n]
  BY <1>1 DEF OnFind, NewRoom, JoinRoom, TypeOK
<1>3. CASE NewRoom(s)
  <2>. DEFINE r == <<target[s], made[target[s]] + 1>>
  <2>1. \A n \in RoomNames : made[n] \in Nat /\ made[n] <= made'[n]
    BY <1>1, <1>3 DEF NewRoom, TypeOK
  <2>2. \A q \in Room : q # r => members'[q] = members[q]
    BY <1>1, <1>3 DEF NewRoom, TypeOK
  <2>3. ~(r[2] <= made[r[1]])
    BY <1>1, <2>1
  <2>4. QED
    BY <1>0, <1>1, <1>2, <2>1, <2>2, <2>3, RoomPair
<1>4. CASE \E r \in openRooms : JoinRoom(s, r)
  <2>1. made' = made /\ \A q \in Room : members[q] \subseteq members'[q]
    BY <1>1, <1>4 DEF JoinRoom, TypeOK
  <2>2. \A r \in Room : made[r[1]] \in Nat
    BY <1>1, RoomPair DEF TypeOK
  <2>3. QED
    BY <1>0, <1>1, <1>2, <2>1, <2>2
<1>5. QED
  BY <1>3, <1>4 DEF OnFind

LEMMA ChatsOnFindKeeps ==
  ASSUME ChatsInv, NEW s \in Sockets, OnFindChats(s)
  PROVE  ChatsTypeOK' /\ FreshChats' /\ ChatMembersAreInRoom' /\ ChatStaysInRoom'
           /\ ChatSides'
<1>1. OnFind(s) /\ UNCHANGED <<chats, chatMembers>>
      /\ (Listen(s) \/ UNCHANGED <<chatUsers, chatOwners>>)
  BY DEF OnFindChats
<1>2. TypeOK'
  BY <1>1, ChatsTypesInv, TypeStep DEF Next
<1>3. ChatsTypeOK'
  BY <1>1, <1>2, ChatsTypesInv, ListenFacts DEF ChatsTypeOK
<1>4. \A r \in Room : r[2] \in Nat /\ made[r[1]] \in Nat /\ made'[r[1]] \in Nat
  BY <1>2, ChatsTypesInv, RoomPair DEF TypeOK
<1>5. FreshChats'
  BY <1>1, <1>4, OnFindChannels DEF ChatsInv, FreshChats
<1>6. ChatMembersAreInRoom'
  <2>1. SUFFICES ASSUME NEW r \in Room
                 PROVE  /\ {user[m] : m \in chatMembers[r]} \subseteq {user[m] : m \in members'[r]}
                        /\ \A m, k \in chatMembers[r] : user[m] = user[k] => m = k
    BY <1>1, OnFindChannels DEF ChatMembersAreInRoom, UsersOf
  <2>2. /\ {user[m] : m \in chatMembers[r]} \subseteq {user[m] : m \in members[r]}
        /\ \A m, k \in chatMembers[r] : user[m] = user[k] => m = k
    BY DEF ChatsInv, ChatMembersAreInRoom, UsersOf
  <2>3. CASE r[2] > made[r[1]]
    BY <2>3 DEF ChatsInv, FreshChats
  <2>4. CASE r[2] <= made[r[1]]
    BY <1>1, <2>2, <2>4, OnFindChannels
  <2>5. QED
    BY <1>4, <2>3, <2>4
<1>7. ChatStaysInRoom' /\ ChatSides'
  <2>1. CASE Listen(s)
    BY <1>1, <2>1, OnFindChannels, ListenStays
  <2>2. CASE UNCHANGED <<chatUsers, chatOwners>>
    <3>1. /\ connected' = connected /\ \A n \in RoomNames : channel[n] \subseteq channel'[n]
          /\ \A t \in Sockets : (t \in owner' <=> t \in owner) \/ \A n \in RoomNames : t \notin channel[n]
      BY <1>1, OnFindChannels
    <3>2. QED
      BY <1>1, <2>2, <3>1, SilenceStays
  <2>3. QED
    BY <1>1, <2>1, <2>2
<1>8. QED
  BY <1>3, <1>5, <1>6, <1>7

(* A socket closes and leaves the rooms of R.                              *)
LEMMA ChatsDepartureKeeps ==
  ASSUME ChatsInv, NEW s \in Sockets, NEW R, leaveRooms(s, R), Close(s), CloseChats(s, R),
         UNCHANGED <<user, owner, made>>, TypeOK'
  PROVE  ChatsTypeOK' /\ FreshChats' /\ ChatMembersAreInRoom' /\ ChatStaysInRoom'
           /\ ChatSides'
<1>1. \A r \in Room : chatMembers'[r] \subseteq chatMembers[r]
  BY DEF CloseChats
<1>2. ChatsTypeOK'
  BY <1>1, ChatsTypesInv DEF CloseChats, ChatsTypeOK
<1>3. FreshChats'
  BY <1>1 DEF ChatsInv, FreshChats
<1>4. ChatMembersAreInRoom'
  <2>1. SUFFICES ASSUME NEW r \in Room
                 PROVE  /\ {user[m] : m \in chatMembers'[r]} \subseteq {user[m] : m \in members'[r]}
                        /\ \A m, k \in chatMembers'[r] : user[m] = user[k] => m = k
    BY DEF ChatMembersAreInRoom, UsersOf
  <2>2. /\ {user[m] : m \in chatMembers[r]} \subseteq {user[m] : m \in members[r]}
        /\ \A m, k \in chatMembers[r] : user[m] = user[k] => m = k
    BY DEF ChatsInv, ChatMembersAreInRoom, UsersOf
  <2>3. CASE r \in R /\ Goes(r, s)
    <3>1. members'[r] = {m \in members[r] : user[m] # user[s]}
      BY <2>3 DEF leaveRooms, MembersLeft
    <3>2. \A m \in chatMembers'[r] : m \in chatMembers[r] /\ user[m] # user[s]
      BY <2>2, <2>3 DEF CloseChats, UsersOf
    <3>3. QED
      BY <2>2, <3>1, <3>2
  <2>4. CASE ~(r \in R /\ Goes(r, s))
    <3>1. members'[r] = members[r] /\ chatMembers'[r] = chatMembers[r]
      BY <2>4 DEF leaveRooms, MembersLeft, CloseChats
    <3>2. QED
      BY <2>2, <3>1
  <2>5. QED
    BY <2>3, <2>4
<1>5. ChatStaysInRoom' /\ ChatSides'
  <2>1. \A n \in RoomNames : /\ chatUsers'[n] = chatUsers[n] \ {s}
                             /\ chatOwners'[n] = chatOwners[n] \ {s}
                             /\ channel'[n] = channel[n] \ {s}
    BY DEF CloseChats, Close
  <2>2. ASSUME NEW r \in Room
        PROVE  chatMembers'[r] \cap connected' \subseteq chatUsers'[r[1]] \cup chatOwners'[r[1]]
    <3>1. chatMembers[r] \cap connected \subseteq chatUsers[r[1]] \cup chatOwners[r[1]]
      BY DEF ChatsInv, ChatStaysInRoom
    <3>2. r[1] \in RoomNames
      BY RoomPair
    <3>3. QED
      BY <1>1, <2>1, <3>1, <3>2 DEF Close
  <2>3. \A n \in RoomNames : /\ chatUsers'[n] \cup chatOwners'[n] \subseteq channel'[n]
                             /\ chatUsers'[n] \cap chatOwners'[n] = {}
    BY <2>1 DEF ChatsInv, ChatStaysInRoom
  <2>4. ChatSides'
    BY <2>1 DEF ChatsInv, ChatSides
  <2>5. QED
    BY <2>2, <2>3, <2>4 DEF ChatStaysInRoom
<1>6. QED
  BY <1>2, <1>3, <1>4, <1>5

(* Whoever is present is a member of its room, which is open and was made. *)
LEMMA PresentFacts ==
  ASSUME ChatsInv, NEW s \in Present
  PROVE  LET r == currentRoom[s] IN
         /\ s \in Sockets /\ r \in Room /\ r \in openRooms /\ r[1] = target[s]
         /\ target[s] \in RoomNames /\ r[2] <= made[r[1]]
         /\ user[s] \in UsersOf(members[r]) /\ s \in channel[target[s]]
BY DEF ChatsInv, RoomsInv, TypeOK, PresentIsServed, MadeInv, Present

LEMMA ChatsOwnKeeps ==
  ASSUME ChatsInv, NEW s \in Sockets, joinChat(s) \/ leaveChat(s) \/ closeChatForAll(s)
  PROVE  ChatsTypeOK' /\ FreshChats' /\ ChatMembersAreInRoom' /\ ChatStaysInRoom'
           /\ ChatSides'
<1>. DEFINE r == currentRoom[s]
<1>1. s \in Present /\ UNCHANGED <<user, connected, owner, made, members, channel>>
  BY DEF joinChat, leaveChat, closeChatForAll, vars, socketVars, roomVars, historyVars
<1>2. r \in Room /\ r[2] <= made[r[1]] /\ user[s] \in UsersOf(members[r])
      /\ s \in channel[target[s]] /\ r[1] = target[s]
  BY <1>1, PresentFacts
<1>3. TypeOK'
  BY ChatsTypesInv, TypeStep DEF joinChat, leaveChat, closeChatForAll
<1> HIDE DEF r
<1>4. /\ chats' \subseteq Room
      /\ chatMembers' \in [Room -> SUBSET Sockets]
      /\ \A q \in Room : q # r => chatMembers'[q] = chatMembers[q]
      /\ \/ chatMembers'[r] \subseteq chatMembers[r]
         \/ ~isMember(r, user[s]) /\ chatMembers'[r] = chatMembers[r] \cup {s}
  BY <1>2, ChatsTypesInv DEF joinChat, leaveChat, closeChatForAll, r
<1>5. \/ Listen(s)
      \/ UNCHANGED <<chatUsers, chatOwners>> /\ chatMembers'[r] \subseteq chatMembers[r]
  BY <1>2, ChatsTypesInv DEF joinChat, leaveChat, closeChatForAll, r
<1>6. ChatsTypeOK'
  BY <1>3, <1>4, <1>5, ChatsTypesInv, ListenFacts DEF ChatsTypeOK
<1>7. FreshChats'
  <2>1. \A q \in Room : q[2] \in Nat /\ made[q[1]] \in Nat
    BY ChatsTypesInv, RoomPair DEF TypeOK
  <2>2. QED
    BY <1>1, <1>2, <1>4, <2>1 DEF ChatsInv, FreshChats
<1>8. ChatMembersAreInRoom'
  BY <1>1, <1>2, <1>4 DEF ChatsInv, ChatMembersAreInRoom, UsersOf, isMember
<1>9. ChatStaysInRoom' /\ ChatSides'
  <2>1. CASE Listen(s)
    <3>1. \A q \in Room : chatMembers'[q] \subseteq
            (IF q[1] = target[s] THEN chatMembers[q] \cup {s} ELSE chatMembers[q])
      BY <1>2, <1>4
    <3>2. QED
      BY <1>1, <1>2, <2>1, <3>1, ListenStays
  <2>2. CASE UNCHANGED <<chatUsers, chatOwners>> /\ chatMembers'[r] \subseteq chatMembers[r]
    <3>1. \A q \in Room : chatMembers'[q] \subseteq chatMembers[q]
      BY <1>4, <2>2
    <3>2. QED
      BY <1>1, <2>2, <3>1, SilenceStays
  <2>3. QED
    BY <1>5, <2>1, <2>2
<1>10. QED
  BY <1>6, <1>7, <1>8, <1>9

LEMMA ChatsStep == ChatsInv /\ [ChatsNext]_chatsVars => ChatsInv'
<1> SUFFICES ASSUME ChatsInv, [ChatsNext]_chatsVars PROVE ChatsInv'
  OBVIOUS
<1>1. [Next]_vars
  BY ChatsStepIsStep
<1>2. RoomsInv' /\ MadeInv'
  BY <1>1, InvStep, MadeStep DEF ChatsInv
<1>3. ChatsTypeOK' /\ FreshChats' /\ ChatMembersAreInRoom' /\ ChatStaysInRoom' /\ ChatSides'
  <2>1. ASSUME NEW s \in Sockets, (Join(s) \/ LookupFails(s)) /\ UNCHANGED chatVars
        PROVE  ChatsTypeOK' /\ FreshChats' /\ ChatMembersAreInRoom' /\ ChatStaysInRoom' /\ ChatSides'
    BY <2>1, ChatsJoinKeeps
  <2>2. ASSUME NEW s \in Sockets, LeaveChats(s) \/ DisconnectChats(s)
        PROVE  ChatsTypeOK' /\ FreshChats' /\ ChatMembersAreInRoom' /\ ChatStaysInRoom' /\ ChatSides'
    <3>1. Leave(s) \/ Disconnect(s)
      BY <2>2 DEF LeaveChats, DisconnectChats
    <3>2. Close(s) /\ UNCHANGED <<user, owner, made>>
      BY <3>1 DEF Leave, Disconnect, historyVars
    <3>3. TypeOK'
      BY <1>2 DEF RoomsInv
    <3>4. PICK R : leaveRooms(s, R) /\ CloseChats(s, R)
      BY <2>2 DEF LeaveChats, DisconnectChats, Leave, Disconnect
    <3>5. QED
      BY <3>2, <3>3, <3>4, ChatsDepartureKeeps
  <2>3. CASE UNCHANGED chatsVars
    <3>1. UNCHANGED <<user, connected, owner, made, members, channel>>
          /\ UNCHANGED <<chats, chatMembers, chatUsers, chatOwners>>
      BY <2>3 DEF chatsVars, vars, socketVars, roomVars, historyVars, chatVars
    <3>2. TypeOK'
      BY <1>2 DEF RoomsInv
    <3>3. ChatsTypeOK' /\ FreshChats'
      BY <3>1, <3>2, ChatsTypesInv DEF ChatsInv, ChatsTypeOK, FreshChats
    <3>4. ChatMembersAreInRoom' /\ ChatStaysInRoom' /\ ChatSides'
      BY <3>1 DEF ChatsInv, ChatMembersAreInRoom, ChatStaysInRoom, ChatSides, UsersOf
    <3>5. QED
      BY <3>3, <3>4
  <2>4. QED
    BY <2>1, <2>2, <2>3, ChatsOnFindKeeps, ChatsOwnKeeps DEF ChatsNext
<1>4. QED
  BY <1>2, <1>3 DEF ChatsInv

LEMMA ChatsInvInit == ChatsInit => ChatsInv
<1> SUFFICES ASSUME ChatsInit PROVE ChatsInv
  OBVIOUS
<1>1. Init
  BY DEF ChatsInit
<1>2. RoomsInv
  BY <1>1, InvInit
<1>3. MadeInv
  BY <1>1 DEF Init, MadeInv
<1>4. ChatsTypeOK /\ FreshChats /\ ChatMembersAreInRoom
  BY <1>2 DEF ChatsInit, RoomsInv, ChatsTypeOK, FreshChats, ChatMembersAreInRoom, UsersOf
<1>6. ChatStaysInRoom /\ ChatSides
  <2>1. /\ \A n \in RoomNames : chatUsers[n] = {} /\ chatOwners[n] = {}
        /\ \A r \in Room : chatMembers[r] = {}
    BY DEF ChatsInit
  <2>2. QED
    BY <2>1 DEF ChatStaysInRoom, ChatSides
<1>5. QED
  BY <1>2, <1>3, <1>4, <1>6 DEF ChatsInv
------------------------------------------------------------------------------
(* Steps of the classroom *)

LEMMA ClassroomStepIsStep == [ClassroomNext]_classroomVars => [ChatsNext]_chatsVars
BY DEF ClassroomNext, classroomVars, OnFindClassroom, joinChatClassroom, closeChatClassroom,
       createGroups, deleteGroups, SetGroups, addQuestion, removeQuestion, SetQuestions,
       chatMessage, ChatsNext

(* A room that is not open keeps nothing, and a client that is not in a    *)
(* lesson shows groups and questions only of an earlier connection.        *)
Blank ==
  /\ \A r \in Room \ openRooms : groups[r] = NoGroups /\ questions[r] = {} /\ messages[r] = <<>>
  /\ \A s \in Sockets \ Present :
       /\ shownGroups[s] = NoGroups \/ s \in oldGroups
       /\ shownQuestions[s] = {} \/ s \in oldQuestions

(* A message is in one backlog at most.                                    *)
ApartBacklogs ==
  \A r, q \in Room : r # q => ToSet(messages[r]) \cap ToSet(messages[q]) = {}

BoardTypes ==
  /\ DOMAIN groups = Room
  /\ DOMAIN questions = Room
  /\ messages \in [Room -> Seq(Messages)]
  /\ DOMAIN shownGroups = Sockets
  /\ DOMAIN shownQuestions = Sockets
  /\ DOMAIN shownMessages = Sockets

ClassroomInv ==
  /\ ChatsInv
  /\ BoardTypes
  /\ Blank
  /\ ApartBacklogs
  /\ ClientsAgree
  /\ ListenersHaveBacklog

------------------------------------------------------------------------------
(* Lemmas about backlogs *)

LEMMA ToSetFacts ==
  ASSUME NEW S, NEW b \in Seq(S)
  PROVE  /\ \A x : x \in ToSet(b) <=> \E i \in 1 .. Len(b) : b[i] = x
         /\ ToSet(b) \subseteq S
BY DEF ToSet

LEMMA EmptyToSet == ToSet(<<>>) = {}
BY DEF ToSet

(* A message is added, and at most others go.                              *)
LEMMA WithMessageFacts ==
  ASSUME NEW b \in Seq(Messages), NEW m \in Messages
  PROVE  /\ WithMessage(b, m) \in Seq(Messages)
         /\ ToSet(WithMessage(b, m)) \subseteq ToSet(b) \cup {m}
<1>. DEFINE rest == IF Len(b) >= maxNumMessages THEN Tail(b) ELSE b
<1>1. rest \in Seq(Messages) /\ \A i \in 1 .. Len(rest) : \E j \in 1 .. Len(b) : rest[i] = b[j]
  <2>1. CASE Len(b) >= maxNumMessages
    <3>1. b # <<>> /\ Len(b) \in Nat
      BY <2>1, ClassroomAssumption
    <3>2. /\ Tail(b) \in Seq(Messages) /\ Len(Tail(b)) = Len(b) - 1
          /\ \A i \in 1 .. Len(Tail(b)) : Tail(b)[i] = b[i + 1]
      BY <3>1, HeadTailProperties
    <3>3. \A i \in 1 .. Len(Tail(b)) : i + 1 \in 1 .. Len(b) /\ Tail(b)[i] = b[i + 1]
      BY <3>1, <3>2
    <3>4. QED
      BY <2>1, <3>2, <3>3
  <2>2. CASE ~(Len(b) >= maxNumMessages)
    BY <2>2
  <2>3. QED
    BY <2>1, <2>2
<1>2. WithMessage(b, m) = Append(rest, m)
  BY DEF WithMessage
<1> HIDE DEF rest
<1>3. /\ Append(rest, m) \in Seq(Messages) /\ Len(Append(rest, m)) = Len(rest) + 1
      /\ \A i \in 1 .. Len(rest) : Append(rest, m)[i] = rest[i]
      /\ Append(rest, m)[Len(rest) + 1] = m
  BY <1>1
<1>4. Len(rest) \in Nat
  BY <1>1
<1>5. ASSUME NEW x \in ToSet(Append(rest, m)) PROVE x \in ToSet(b) \cup {m}
  <2>1. PICK i \in 1 .. Len(rest) + 1 : Append(rest, m)[i] = x
    <3>. DEFINE c == Append(rest, m)
    <3>1. c \in Seq(Messages) /\ Len(c) = Len(rest) + 1 /\ x \in ToSet(c)
      BY <1>3
    <3> HIDE DEF c
    <3>2. \E i \in 1 .. Len(c) : c[i] = x
      BY <3>1, ToSetFacts
    <3>3. QED
      BY <3>1, <3>2 DEF c
  <2>2. CASE i = Len(rest) + 1
    BY <1>3, <2>1, <2>2
  <2>3. CASE i \in 1 .. Len(rest)
    BY <1>1, <1>3, <2>1, <2>3, ToSetFacts
  <2>4. QED
    BY <1>4, <2>2, <2>3
<1>6. QED
  BY <1>2, <1>3, <1>5
------------------------------------------------------------------------------
(* Steps of the classroom, one action at a time *)

(* An emit to the channel of a lesson reaches those in its room.           *)
LEMMA ToldAreInRoom ==
  ASSUME ClassroomInv, NEW s \in Present
  PROVE  LET r == currentRoom[s] IN
         /\ r \in openRooms /\ r \in Room /\ s \in Sockets
         /\ \A t \in Sockets :
              t \in Told(s, channel[target[s]]) <=> t \in Present /\ currentRoom[t] = r
<1>. DEFINE r == currentRoom[s]
<1>1. ChatsInv
  BY DEF ClassroomInv
<1>2. \A t \in Present : /\ t \in Sockets /\ t \in connected
                         /\ currentRoom[t] \in openRooms /\ currentRoom[t] \in Room
                         /\ currentRoom[t][1] = target[t]
                         /\ t \in channel[target[t]] /\ target[t] \in RoomNames
  BY <1>1, PresentFacts DEF Present
<1>3. \A q, p \in openRooms : q[1] = p[1] => q = p
  BY <1>1 DEF ChatsInv, RoomsInv, PresentIsServed
<1>4. \A t \in connected : t \in channel[target[s]] => t \in Present /\ target[t] = target[s]
  BY <1>1, <1>2 DEF ChatsInv, MadeInv, Present
<1>5. QED
  BY <1>2, <1>3, <1>4 DEF Told

(* Nothing that a client shows or should show changes.                     *)
LEMMA NothingShown ==
  ASSUME ClassroomInv, Present' = Present,
         UNCHANGED <<target, currentRoom, openRooms, chatUsers, chatOwners>>,
         UNCHANGED <<groups, questions, messages, shownGroups, shownQuestions, shownMessages>>,
         UNCHANGED <<oldGroups, oldQuestions>>
  PROVE  BoardTypes' /\ Blank' /\ ApartBacklogs' /\ ClientsAgree' /\ ListenersHaveBacklog'
<1>1. BoardTypes' /\ Blank' /\ ApartBacklogs'
  BY DEF ClassroomInv, BoardTypes, Blank, ApartBacklogs
<1>2. ClientsAgree' /\ ListenersHaveBacklog'
  BY DEF ClassroomInv, ClientsAgree, ListenersHaveBacklog
<1>3. QED
  BY <1>1, <1>2

LEMMA SetGroupsKeeps ==
  ASSUME ClassroomInv, NEW s \in Sockets, NEW g, SetGroups(s, g)
  PROVE  BoardTypes' /\ Blank' /\ ApartBacklogs' /\ ClientsAgree' /\ ListenersHaveBacklog'
<1>. DEFINE r == currentRoom[s]
<1>1. /\ s \in Present /\ Present' = Present
      /\ UNCHANGED <<target, currentRoom, openRooms, chatUsers, chatOwners>>
      /\ UNCHANGED <<questions, messages, shownQuestions, shownMessages, oldQuestions>>
  BY DEF SetGroups, chatsVars, vars, socketVars, roomVars, chatVars, backlogVars, Present
<1>2. /\ r \in openRooms
      /\ \A t \in Sockets :
           t \in Told(s, channel[target[s]]) <=> t \in Present /\ currentRoom[t] = r
  BY <1>1, ToldAreInRoom
<1>3. /\ DOMAIN groups' = Room /\ DOMAIN shownGroups' = Sockets
      /\ \A q \in Room : groups'[q] = IF q = r THEN g ELSE groups[q]
      /\ \A t \in Sockets : shownGroups'[t] = IF t \in Present /\ currentRoom[t] = r
                                               THEN g ELSE shownGroups[t]
      /\ \A t \in Sockets : t \in oldGroups' <=> t \in oldGroups
                               /\ ~(t \in Present /\ currentRoom[t] = r)
  BY <1>2 DEF SetGroups, ClassroomInv, BoardTypes
<1> HIDE DEF r
<1>4. BoardTypes' /\ Blank' /\ ApartBacklogs'
  BY <1>1, <1>2, <1>3 DEF ClassroomInv, BoardTypes, Blank, ApartBacklogs
<1>5. \A t \in Present : t \in Sockets /\ currentRoom[t] \in Room
  BY PresentFacts DEF ClassroomInv
<1>6. ClientsAgree' /\ ListenersHaveBacklog'
  BY <1>1, <1>3, <1>5 DEF ClassroomInv, ClientsAgree, ListenersHaveBacklog
<1>7. QED
  BY <1>4, <1>6

LEMMA SetQuestionsKeeps ==
  ASSUME ClassroomInv, NEW s \in Sockets, NEW Q, SetQuestions(s, Q)
  PROVE  BoardTypes' /\ Blank' /\ ApartBacklogs' /\ ClientsAgree' /\ ListenersHaveBacklog'
<1>. DEFINE r == currentRoom[s]
<1>1. /\ s \in Present /\ Present' = Present
      /\ UNCHANGED <<target, currentRoom, openRooms, chatUsers, chatOwners>>
      /\ UNCHANGED <<groups, messages, shownGroups, shownMessages, oldGroups>>
  BY DEF SetQuestions, chatsVars, vars, socketVars, roomVars, chatVars, backlogVars, Present
<1>2. /\ r \in openRooms
      /\ \A t \in Sockets :
           t \in Told(s, channel[target[s]]) <=> t \in Present /\ currentRoom[t] = r
  BY <1>1, ToldAreInRoom
<1>3. /\ DOMAIN questions' = Room /\ DOMAIN shownQuestions' = Sockets
      /\ \A q \in Room : questions'[q] = IF q = r THEN Q ELSE questions[q]
      /\ \A t \in Sockets : shownQuestions'[t] = IF t \in Present /\ currentRoom[t] = r
                                                  THEN Q ELSE shownQuestions[t]
      /\ \A t \in Sockets : t \in oldQuestions' <=> t \in oldQuestions
                               /\ ~(t \in Present /\ currentRoom[t] = r)
  BY <1>2 DEF SetQuestions, ClassroomInv, BoardTypes
<1> HIDE DEF r
<1>4. BoardTypes' /\ Blank' /\ ApartBacklogs'
  BY <1>1, <1>2, <1>3 DEF ClassroomInv, BoardTypes, Blank, ApartBacklogs
<1>5. \A t \in Present : t \in Sockets /\ currentRoom[t] \in Room
  BY PresentFacts DEF ClassroomInv
<1>6. ClientsAgree' /\ ListenersHaveBacklog'
  BY <1>1, <1>3, <1>5 DEF ClassroomInv, ClientsAgree, ListenersHaveBacklog
<1>7. QED
  BY <1>4, <1>6

(* Only what clients show of a chat, and one room's backlog, change.       *)
LEMMA BoardsUntouched ==
  ASSUME ClassroomInv, UNCHANGED vars, UNCHANGED boardVars
  PROVE  /\ UNCHANGED <<target, currentRoom, openRooms>> /\ Present' = Present
         /\ ClientsAgree'
         /\ DOMAIN groups' = Room /\ DOMAIN questions' = Room
         /\ DOMAIN shownGroups' = Sockets /\ DOMAIN shownQuestions' = Sockets
<1>1. UNCHANGED <<target, currentRoom, openRooms>> /\ Present' = Present
  BY DEF vars, socketVars, roomVars, Present
<1>2. UNCHANGED <<groups, questions, shownGroups, shownQuestions, oldGroups, oldQuestions>>
  BY DEF boardVars
<1>3. ClientsAgree'
  BY <1>1, <1>2 DEF ClassroomInv, ClientsAgree
<1>4. QED
  BY <1>1, <1>2, <1>3 DEF ClassroomInv, BoardTypes

LEMMA MessageKeeps ==
  ASSUME ClassroomInv, NEW s \in Sockets, NEW m \in Messages, chatMessage(s, m)
  PROVE  BoardTypes' /\ Blank' /\ ApartBacklogs' /\ ClientsAgree' /\ ListenersHaveBacklog'
<1>. DEFINE r == currentRoom[s]
            n == target[s]
            told == Told(s, chatUsers[n] \cup chatOwners[n])
            All == UNION {ToSet(messages'[q]) : q \in Room}
<1>1. /\ s \in Present /\ UNCHANGED vars /\ UNCHANGED boardVars
      /\ UNCHANGED <<chatUsers, chatOwners>>
      /\ UNCHANGED <<groups, questions, shownGroups, shownQuestions, oldGroups, oldQuestions>>
      /\ \A q \in Room : m \notin ToSet(messages[q])
  BY DEF chatMessage, chatsVars, chatVars, boardVars
<1>2. r \in openRooms /\ r \in Room /\ r[1] = n
  BY <1>1, PresentFacts DEF ClassroomInv
<1>3. /\ messages' = [messages EXCEPT ![r] = WithMessage(@, m)]
      /\ shownMessages' = [t \in Sockets |->
           (IF t \in told THEN shownMessages[t] \cup {m} ELSE shownMessages[t]) \cap All]
  BY DEF chatMessage
<1> HIDE DEF r, told, All
<1>4. messages \in [Room -> Seq(Messages)]
  BY DEF ClassroomInv, BoardTypes
<1>5. /\ messages' \in [Room -> Seq(Messages)]
      /\ \A q \in Room : q # r => messages'[q] = messages[q]
      /\ ToSet(messages'[r]) \subseteq ToSet(messages[r]) \cup {m}
  <2>1. messages[r] \in Seq(Messages)
    BY <1>2, <1>4
  <2>2. QED
    BY <1>2, <1>3, <1>4, <2>1, WithMessageFacts
<1>6. BoardTypes'
  BY <1>1, <1>3, <1>5, BoardsUntouched DEF BoardTypes
<1>7. Blank'
  BY <1>1, <1>2, <1>5, BoardsUntouched DEF ClassroomInv, Blank
<1>8. ApartBacklogs'
  <2>1. \A q \in Room : q # r => ToSet(messages'[q]) \cap ToSet(messages'[r]) = {}
    <3>1. SUFFICES ASSUME NEW q \in Room, q # r
                   PROVE  ToSet(messages[q]) \cap ToSet(messages'[r]) = {}
      BY <1>5
    <3>2. ToSet(messages[q]) \cap ToSet(messages[r]) = {} /\ m \notin ToSet(messages[q])
      BY <1>1, <1>2, <3>1 DEF ClassroomInv, ApartBacklogs
    <3>3. QED
      BY <1>5, <3>2
  <2>2. ASSUME NEW p \in Room, NEW q \in Room, p # q, p # r, q # r
        PROVE  ToSet(messages'[p]) \cap ToSet(messages'[q]) = {}
    BY <1>5, <2>2 DEF ClassroomInv, ApartBacklogs
  <2>3. QED
    BY <2>1, <2>2 DEF ApartBacklogs
<1>9. ListenersHaveBacklog'
  <2>1. SUFFICES ASSUME NEW t \in Present, t \in chatUsers[target[t]] \cup chatOwners[target[t]]
                 PROVE  ToSet(messages'[currentRoom[t]]) \subseteq shownMessages'[t]
    BY <1>1, BoardsUntouched DEF ListenersHaveBacklog
  <2>2. /\ t \in Sockets /\ currentRoom[t] \in Room /\ currentRoom[t][1] = target[t]
        /\ t \in connected /\ ToSet(messages[currentRoom[t]]) \subseteq shownMessages[t]
    BY <2>1, PresentFacts DEF ClassroomInv, ListenersHaveBacklog, Present
  <2>3. ToSet(messages'[currentRoom[t]]) \subseteq All
    BY <2>2 DEF All
  <2>4. CASE currentRoom[t] = r
    <3>1. t \in told
      BY <1>2, <2>1, <2>2, <2>4 DEF told, Told
    <3>2. QED
      BY <1>3, <1>5, <2>2, <2>3, <2>4, <3>1
  <2>5. CASE currentRoom[t] # r
    BY <1>3, <1>5, <2>2, <2>3, <2>5
  <2>6. QED
    BY <2>4, <2>5
<1>10. QED
  BY <1>1, <1>6, <1>7, <1>8, <1>9, BoardsUntouched

LEMMA CloseChatKeeps ==
  ASSUME ClassroomInv, NEW s \in Sockets, closeChatClassroom(s)
  PROVE  BoardTypes' /\ Blank' /\ ApartBacklogs' /\ ClientsAgree' /\ ListenersHaveBacklog'
<1>. DEFINE r == currentRoom[s]
<1>1. /\ s \in Present /\ UNCHANGED vars /\ UNCHANGED boardVars
      /\ UNCHANGED <<chatUsers, chatOwners>>
      /\ UNCHANGED <<groups, questions, shownGroups, shownQuestions, oldGroups, oldQuestions>>
  BY DEF closeChatClassroom, closeChatForAll, boardVars
<1>2. r \in openRooms /\ r \in Room
  BY <1>1, PresentFacts DEF ClassroomInv
<1>3. /\ messages' = [messages EXCEPT ![r] = <<>>]
      /\ shownMessages' = [t \in Sockets |-> shownMessages[t] \ ToSet(messages[r])]
  BY DEF closeChatClassroom
<1> HIDE DEF r
<1>4. /\ messages' \in [Room -> Seq(Messages)]
      /\ messages'[r] = <<>> /\ ToSet(messages'[r]) = {}
      /\ \A q \in Room : q # r => messages'[q] = messages[q]
  BY <1>2, <1>3, EmptyToSet DEF ClassroomInv, BoardTypes
<1>5. BoardTypes'
  BY <1>1, <1>3, <1>4, BoardsUntouched DEF BoardTypes
<1>6. Blank'
  BY <1>1, <1>4, BoardsUntouched DEF ClassroomInv, Blank
<1>7. ApartBacklogs'
  BY <1>4 DEF ClassroomInv, ApartBacklogs
<1>8. ListenersHaveBacklog'
  <2>1. SUFFICES ASSUME NEW t \in Present, t \in chatUsers[target[t]] \cup chatOwners[target[t]]
                 PROVE  ToSet(messages'[currentRoom[t]]) \subseteq shownMessages'[t]
    BY <1>1, BoardsUntouched DEF ListenersHaveBacklog
  <2>2. /\ t \in Sockets /\ currentRoom[t] \in Room
        /\ ToSet(messages[currentRoom[t]]) \subseteq shownMessages[t]
    BY <2>1, PresentFacts DEF ClassroomInv, ListenersHaveBacklog
  <2>3. CASE currentRoom[t] = r
    BY <1>4, <2>3
  <2>4. CASE currentRoom[t] # r
    <3>1. ToSet(messages[currentRoom[t]]) \cap ToSet(messages[r]) = {}
      BY <1>2, <2>2, <2>4 DEF ClassroomInv, ApartBacklogs
    <3>2. QED
      BY <1>3, <1>4, <2>2, <2>4, <3>1
  <2>5. QED
    BY <2>3, <2>4
<1>9. QED
  BY <1>1, <1>5, <1>6, <1>7, <1>8, BoardsUntouched

LEMMA JoinChatKeeps ==
  ASSUME ClassroomInv, NEW s \in Sockets, joinChatClassroom(s)
  PROVE  BoardTypes' /\ Blank' /\ ApartBacklogs' /\ ClientsAgree' /\ ListenersHaveBacklog'
<1>1. /\ s \in Present /\ UNCHANGED vars /\ UNCHANGED boardVars /\ Listen(s)
      /\ UNCHANGED <<groups, questions, messages, shownGroups, shownQuestions>>
      /\ UNCHANGED <<oldGroups, oldQuestions>>
      /\ UNCHANGED currentRoom
      /\ shownMessages' = [shownMessages EXCEPT ![s] = ToSet(messages[currentRoom[s]])]
  BY DEF joinChatClassroom, joinChat, boardVars, SendHistory, vars, socketVars
<1>2. BoardTypes' /\ Blank' /\ ApartBacklogs'
  BY <1>1, BoardsUntouched DEF ClassroomInv, BoardTypes, Blank, ApartBacklogs
<1>3. ListenersHaveBacklog'
  <2>1. SUFFICES ASSUME NEW t \in Present,
                        t \in chatUsers'[target[t]] \cup chatOwners'[target[t]]
                 PROVE  ToSet(messages[currentRoom[t]]) \subseteq shownMessages'[t]
    BY <1>1, BoardsUntouched DEF ListenersHaveBacklog
  <2>2. t \in Sockets /\ target[t] \in RoomNames
    BY PresentFacts DEF ClassroomInv
  <2>3. CASE t = s
    BY <1>1, <2>2, <2>3 DEF ClassroomInv, BoardTypes
  <2>4. CASE t # s
    <3>1. t \in chatUsers[target[t]] \cup chatOwners[target[t]]
      BY <1>1, <2>1, <2>2, <2>4, ListenFacts DEF ClassroomInv
    <3>2. QED
      BY <1>1, <2>2, <2>4, <3>1 DEF ClassroomInv, BoardTypes, ListenersHaveBacklog
  <2>5. QED
    BY <2>3, <2>4
<1>4. QED
  BY <1>1, <1>2, <1>3, BoardsUntouched

(* Who may be shown something after a completed join.                      *)
LEMMA OnFindShows ==
  ASSUME ClassroomInv, NEW s \in Sockets, OnFind(s)
  PROVE  /\ target' = target /\ target[s] \in RoomNames
         /\ Present' = Present \cup ({s} \cap connected) /\ s \notin Present
         /\ \A n \in RoomNames : s \notin channel[n]
         /\ currentRoom'[s] \in Room /\ currentRoom'[s] \in openRooms'
         /\ \A t \in Sockets : t # s => currentRoom'[t] = currentRoom[t]
         /\ openRooms \subseteq openRooms'
<1>1. TypeOK /\ MadeInv /\ target[s] \in RoomNames
  BY DEF ClassroomInv, ChatsInv, RoomsInv, TypeOK
<1>2. /\ target' = target /\ connected' = connected /\ phase[s] = Finding
      /\ phase' = [phase EXCEPT ![s] = Joined]
  BY DEF OnFind
<1>3. Present' = Present \cup ({s} \cap connected) /\ s \notin Present
  BY <1>1, <1>2 DEF Present, TypeOK, Finding, Joined
<1>4. \A n \in RoomNames : s \notin channel[n]
  BY <1>1, <1>2 DEF MadeInv, Finding, Joined
<1>5. /\ currentRoom'[s] \in Room /\ currentRoom'[s] \in openRooms'
      /\ \A t \in Sockets : t # s => currentRoom'[t] = currentRoom[t]
      /\ openRooms \subseteq openRooms'
  <2>1. CASE NewRoom(s)
    BY <1>1, <2>1, NewRoomIsRoom DEF NewRoom, TypeOK
  <2>2. CASE \E r \in openRooms : JoinRoom(s, r)
    BY <1>1, <2>2 DEF JoinRoom, TypeOK
  <2>3. QED
    BY <2>1, <2>2 DEF OnFind
<1>6. QED
  BY <1>1, <1>2, <1>3, <1>4, <1>5

LEMMA OnFindClassroomKeeps ==
  ASSUME ClassroomInv, NEW s \in Sockets, OnFindClassroom(s)
  PROVE  BoardTypes' /\ Blank' /\ ApartBacklogs' /\ ClientsAgree' /\ ListenersHaveBacklog'
<1>. DEFINE r == currentRoom'[s]
<1>1. /\ OnFind(s) /\ UNCHANGED <<groups, questions, messages>>
      /\ IF mirrors(s, r) THEN Listen(s) ELSE UNCHANGED <<chatUsers, chatOwners>>
  BY DEF OnFindClassroom, OnFindChats
<1>2. /\ target' = target /\ target[s] \in RoomNames
      /\ Present' = Present \cup ({s} \cap connected) /\ s \notin Present
      /\ \A n \in RoomNames : s \notin channel[n]
      /\ r \in Room /\ r \in openRooms'
      /\ \A t \in Sockets : t # s => currentRoom'[t] = currentRoom[t]
      /\ openRooms \subseteq openRooms'
  BY <1>1, OnFindShows
<1>3. /\ shownGroups[s] = NoGroups \/ s \in oldGroups
      /\ shownQuestions[s] = {} \/ s \in oldQuestions
      /\ BoardTypes
  BY <1>2 DEF ClassroomInv, Blank
<1>4. /\ DOMAIN shownGroups' = Sockets /\ DOMAIN shownQuestions' = Sockets
      /\ DOMAIN shownMessages' = Sockets
      /\ \A t \in Sockets : t # s => /\ shownGroups'[t] = shownGroups[t]
                                     /\ shownQuestions'[t] = shownQuestions[t]
                                     /\ shownMessages'[t] = shownMessages[t]
                                     /\ t \in oldGroups' <=> t \in oldGroups
                                     /\ t \in oldQuestions' <=> t \in oldQuestions
      /\ s \notin connected => /\ shownGroups'[s] = shownGroups[s]
                               /\ shownQuestions'[s] = shownQuestions[s]
                               /\ s \in oldGroups' <=> s \in oldGroups
                               /\ s \in oldQuestions' <=> s \in oldQuestions
  BY <1>3 DEF OnFindClassroom, Welcome, SendHistory, BoardTypes
<1>5. s \in connected =>
        /\ shownGroups'[s] = groups[r] \/ (groups[r] = NoGroups /\ s \in oldGroups')
        /\ shownQuestions'[s] = questions[r] \/ (questions[r] = {} /\ s \in oldQuestions')
  BY <1>3 DEF OnFindClassroom, Welcome, BoardTypes
<1>6. s \in connected /\ mirrors(s, r) => shownMessages'[s] = ToSet(messages[r])
  BY <1>3 DEF OnFindClassroom, SendHistory, BoardTypes
<1> HIDE DEF r
<1>7. BoardTypes' /\ Blank' /\ ApartBacklogs'
  BY <1>1, <1>2, <1>3, <1>4 DEF ClassroomInv, BoardTypes, Blank, ApartBacklogs
<1>8. ClientsAgree'
  BY <1>1, <1>2, <1>4, <1>5, PresentFacts DEF ClassroomInv, ClientsAgree, r
<1>9. ListenersHaveBacklog'
  <2>1. SUFFICES ASSUME NEW t \in Present',
                        t \in chatUsers'[target[t]] \cup chatOwners'[target[t]]
                 PROVE  ToSet(messages[currentRoom'[t]]) \subseteq shownMessages'[t]
    BY <1>1, <1>2 DEF ListenersHaveBacklog
  <2>2. CASE t = s
    <3>1. s \in connected
      BY <1>2, <2>2
    <3>2. s \notin chatUsers[target[s]] \cup chatOwners[target[s]]
      BY <1>2 DEF ClassroomInv, ChatsInv, ChatStaysInRoom
    <3>3. mirrors(s, r)
      BY <1>1, <2>1, <2>2, <3>2
    <3>4. QED
      BY <1>6, <2>2, <3>1, <3>3 DEF r
  <2>3. CASE t # s
    <3>1. t \in Present /\ t \in Sockets /\ target[t] \in RoomNames
      BY <1>2, <2>3, PresentFacts DEF ClassroomInv
    <3>2. t \in chatUsers[target[t]] \cup chatOwners[target[t]]
      BY <1>1, <2>1, <2>3, <3>1, ListenFacts DEF ClassroomInv
    <3>3. QED
      BY <1>2, <1>4, <2>3, <3>1, <3>2 DEF ClassroomInv, ListenersHaveBacklog
  <2>4. QED
    BY <2>2, <2>3
<1>10. QED
  BY <1>7, <1>8, <1>9

(* A socket closes; whoever is still present is in a room that is open.    *)
LEMMA CloseClientKeeps ==
  ASSUME ClassroomInv, NEW s \in Sockets, Close(s), CloseClient(s),
         openRooms' \subseteq openRooms, UNCHANGED <<phase, target, currentRoom>>,
         chatUsers' = [n \in RoomNames |-> chatUsers[n] \ {s}],
         chatOwners' = [n \in RoomNames |-> chatOwners[n] \ {s}],
         PresentIsServed'
  PROVE  BoardTypes' /\ Blank' /\ ApartBacklogs' /\ ClientsAgree' /\ ListenersHaveBacklog'
<1>1. /\ DOMAIN groups' = Room /\ DOMAIN questions' = Room /\ DOMAIN messages' = Room
      /\ \A r \in Room :
           IF r \in openRooms'
           THEN groups'[r] = groups[r] /\ questions'[r] = questions[r] /\ messages'[r] = messages[r]
           ELSE groups'[r] = NoGroups /\ questions'[r] = {} /\ messages'[r] = <<>>
  BY DEF CloseClient, CloseRooms
<1>2. /\ DOMAIN shownGroups' = Sockets /\ DOMAIN shownQuestions' = Sockets
      /\ DOMAIN shownMessages' = Sockets
      /\ shownGroups'[s] = NoGroups /\ shownQuestions'[s] = {}
      /\ \A t \in Sockets : t # s => shownMessages'[t] = shownMessages[t]
      /\ \A t \in Sockets : t # s =>
           \/ t \in oldGroups' /\ t \in oldQuestions' /\ t \notin Present
           \/ /\ shownGroups'[t] = shownGroups[t] /\ shownQuestions'[t] = shownQuestions[t]
              /\ t \in oldGroups' <=> t \in oldGroups
              /\ t \in oldQuestions' <=> t \in oldQuestions
  <2>1. /\ DOMAIN shownGroups = Sockets /\ DOMAIN shownQuestions = Sockets
        /\ DOMAIN shownMessages = Sockets
    BY DEF ClassroomInv, BoardTypes
  <2>2. CASE ClosePage(s)
    BY <2>1, <2>2 DEF CloseClient, ClosePage
  <2>3. ASSUME NEW u \in Sockets, Reconnect(s, u)
        PROVE  /\ DOMAIN shownGroups' = Sockets /\ DOMAIN shownQuestions' = Sockets
               /\ shownGroups'[s] = NoGroups /\ shownQuestions'[s] = {}
               /\ \A t \in Sockets : t # s =>
                    \/ t \in oldGroups' /\ t \in oldQuestions' /\ t \notin Present
                    \/ /\ shownGroups'[t] = shownGroups[t] /\ shownQuestions'[t] = shownQuestions[t]
                       /\ t \in oldGroups' <=> t \in oldGroups
                       /\ t \in oldQuestions' <=> t \in oldQuestions
    <3>1. u # s /\ u \notin Present
      BY <2>3 DEF Reconnect, Close, Present, New, Joined
    <3>2. QED
      BY <2>1, <2>3, <3>1 DEF Reconnect
  <2>4. shownMessages' = [shownMessages EXCEPT ![s] = {}]
    BY DEF CloseClient
  <2>5. QED
    BY <2>1, <2>2, <2>3, <2>4 DEF CloseClient
<1>3. Present' = Present \ {s}
  BY DEF Present, Close
<1>4. \A t \in Present' : /\ t \in Present /\ t # s /\ t \in Sockets
                          /\ target[t] \in RoomNames
                          /\ currentRoom[t] \in Room /\ currentRoom[t] \in openRooms'
  BY <1>3, PresentFacts DEF ClassroomInv, PresentIsServed
<1>5. messages \in [Room -> Seq(Messages)]
  BY DEF ClassroomInv, BoardTypes
<1>6. \A r \in Room : messages'[r] \in Seq(Messages) /\ ToSet(messages'[r]) \subseteq ToSet(messages[r])
  <2>1. <<>> \in Seq(Messages) /\ \A r \in Room : messages[r] \in Seq(Messages)
    BY <1>5
  <2>2. \A r \in Room : messages'[r] = messages[r] \/ messages'[r] = <<>>
    BY <1>1
  <2>3. QED
    BY <2>1, <2>2, EmptyToSet
<1>7. messages' \in [Room -> Seq(Messages)]
  <2>1. messages' = [r \in Room |-> messages'[r]]
    BY DEF CloseClient, CloseRooms
  <2>2. QED
    BY <1>6, <2>1
<1>8. BoardTypes' /\ Blank'
  BY <1>1, <1>2, <1>3, <1>7 DEF ClassroomInv, BoardTypes, Blank
<1>9. ApartBacklogs'
  BY <1>6 DEF ClassroomInv, ApartBacklogs
<1>10. ClientsAgree'
  BY <1>1, <1>2, <1>4 DEF ClassroomInv, ClientsAgree
<1>11. ListenersHaveBacklog'
  BY <1>1, <1>2, <1>4 DEF ClassroomInv, ListenersHaveBacklog
<1>12. QED
  BY <1>8, <1>9, <1>10, <1>11
------------------------------------------------------------------------------
LEMMA ClassroomStep == ClassroomInv /\ [ClassroomNext]_classroomVars => ClassroomInv'
<1> SUFFICES ASSUME ClassroomInv, [ClassroomNext]_classroomVars
             PROVE  BoardTypes' /\ Blank' /\ ApartBacklogs' /\ ClientsAgree'
                      /\ ListenersHaveBacklog'
  BY ClassroomStepIsStep, ChatsStep DEF ClassroomInv
<1>1. ChatsInv /\ ChatsInv'
  BY ClassroomStepIsStep, ChatsStep DEF ClassroomInv
<1>2. ASSUME NEW s \in Sockets,
             (Join(s) \/ LookupFails(s)) /\ UNCHANGED <<chatVars, boardVars, backlogVars>>
      PROVE  BoardTypes' /\ Blank' /\ ApartBacklogs' /\ ClientsAgree' /\ ListenersHaveBacklog'
  <2>1. UNCHANGED <<target, currentRoom, openRooms, chatUsers, chatOwners>>
        /\ UNCHANGED <<groups, questions, messages, shownGroups, shownQuestions, shownMessages>>
        /\ UNCHANGED <<oldGroups, oldQuestions>>
    BY <1>2 DEF Join, LookupFails, roomVars, historyVars, chatVars, boardVars, backlogVars
  <2>2. Present' = Present
    BY <1>1, <1>2, ChatsTypesInv DEF Join, LookupFails, Present, TypeOK, New, Finding, Joined
  <2>3. QED
    BY <2>1, <2>2, NothingShown
<1>3. ASSUME NEW s \in Sockets,
             leaveChat(s), UNCHANGED <<boardVars, backlogVars>>
      PROVE  BoardTypes' /\ Blank' /\ ApartBacklogs' /\ ClientsAgree' /\ ListenersHaveBacklog'
  <2>1. UNCHANGED <<connected, phase, target, currentRoom, openRooms, chatUsers, chatOwners>>
        /\ UNCHANGED <<groups, questions, messages, shownGroups, shownQuestions, shownMessages>>
        /\ UNCHANGED <<oldGroups, oldQuestions>>
    BY <1>3 DEF leaveChat, vars, socketVars, roomVars, historyVars, boardVars, backlogVars
  <2>2. Present' = Present
    BY <2>1 DEF Present
  <2>3. QED
    BY <2>1, <2>2, NothingShown
<1>4. ASSUME NEW s \in Sockets, LeaveChats(s) \/ DisconnectChats(s), CloseClient(s)
      PROVE  BoardTypes' /\ Blank' /\ ApartBacklogs' /\ ClientsAgree' /\ ListenersHaveBacklog'
  <2>1. /\ Close(s) /\ openRooms' \subseteq openRooms
        /\ UNCHANGED <<phase, target, currentRoom>>
    BY <1>4 DEF LeaveChats, DisconnectChats, Leave, Disconnect
  <2>2. /\ chatUsers' = [n \in RoomNames |-> chatUsers[n] \ {s}]
        /\ chatOwners' = [n \in RoomNames |-> chatOwners[n] \ {s}]
    BY <1>4 DEF LeaveChats, DisconnectChats, CloseChats
  <2>3. PresentIsServed'
    BY <1>1 DEF ChatsInv, RoomsInv
  <2>4. QED
    BY <1>4, <2>1, <2>2, <2>3, CloseClientKeeps
<1>5. ASSUME NEW s \in Sockets,
             \/ deleteGroups(s)
             \/ \E g \in Groups : createGroups(s, g)
             \/ \E q \in Questions : addQuestion(s, q) \/ removeQuestion(s, q)
      PROVE  BoardTypes' /\ Blank' /\ ApartBacklogs' /\ ClientsAgree' /\ ListenersHaveBacklog'
  BY <1>5, SetGroupsKeeps, SetQuestionsKeeps
     DEF deleteGroups, createGroups, addQuestion, removeQuestion
<1>6. CASE ClassroomNext
  BY <1>2, <1>3, <1>4, <1>5, <1>6, OnFindClassroomKeeps, JoinChatKeeps, CloseChatKeeps,
     MessageKeeps DEF ClassroomNext
<1>7. CASE UNCHANGED classroomVars
  <2>1. UNCHANGED <<connected, phase, target, currentRoom, openRooms, chatUsers, chatOwners>>
        /\ UNCHANGED <<groups, questions, messages, shownGroups, shownQuestions, shownMessages>>
        /\ UNCHANGED <<oldGroups, oldQuestions>>
    BY <1>7 DEF classroomVars, chatsVars, vars, socketVars, roomVars, chatVars, boardVars,
               backlogVars
  <2>2. Present' = Present
    BY <2>1 DEF Present
  <2>3. QED
    BY <2>1, <2>2, NothingShown
<1>8. QED
  BY <1>6, <1>7

LEMMA ClassroomInvInit == ClassroomInit => ClassroomInv
<1> SUFFICES ASSUME ClassroomInit PROVE ClassroomInv
  OBVIOUS
<1>1. ChatsInv
  BY ChatsInvInit DEF ClassroomInit
<1>2. Present = {}
  BY DEF ClassroomInit, ChatsInit, Init, Present, New, Joined
<1>3. BoardTypes /\ Blank
  BY DEF ClassroomInit, BoardTypes, Blank
<1>4. ApartBacklogs
  BY EmptyToSet DEF ClassroomInit, ApartBacklogs
<1>5. ClientsAgree /\ ListenersHaveBacklog
  BY <1>2 DEF ClientsAgree, ListenersHaveBacklog
<1>6. QED
  BY <1>1, <1>3, <1>4, <1>5 DEF ClassroomInv

(* The chats do nothing to the rooms that the rooms do not do by           *)
(* themselves: mirrorJoinChats and chat.leave touch no list of the room    *)
(* (room.js 130-169; chat.js 48-106).                                      *)
THEOREM ChatsImplementRooms == ChatsSpec => Spec
<1>1. ChatsInit => Init
  BY DEF ChatsInit
<1>2. QED
  BY <1>1, ChatsStepIsStep, PTL DEF ChatsSpec, Spec

(* Groups, questions and messages do nothing to rooms and chats            *)
(* (room.js 269-341; chat.js 178-211).                                     *)
THEOREM ClassroomImplementsChats == ClassroomSpec => ChatsSpec
<1>1. ClassroomInit => ChatsInit
  BY DEF ClassroomInit
<1>2. QED
  BY <1>1, ClassroomStepIsStep, PTL DEF ClassroomSpec, ChatsSpec

LEMMA ChatsInvariant == ChatsSpec => []ChatsInv
<1>1. QED
  BY ChatsInvInit, ChatsStep, PTL DEF ChatsSpec

LEMMA ClassroomInvariant == ClassroomSpec => []ClassroomInv
<1>1. QED
  BY ClassroomInvInit, ClassroomStep, PTL DEF ClassroomSpec

(* A chat lists users of its room only, and each of them once              *)
(* (room.js 130-140, 234-250; chat.js 75-106).                             *)
THEOREM ChatMembersCorrect == ChatsSpec => []ChatMembersAreInRoom
<1>1. ChatsInv => ChatMembersAreInRoom
  BY DEF ChatsInv
<1>2. QED
  BY <1>1, ChatsInvariant, PTL

(* Nobody outside a lesson hears its chat, nobody hears it twice, and its  *)
(* connected members all do (chat.js 48-58, 75-86, 128-155, 178-199).      *)
THEOREM ChatStaysCorrect == ChatsSpec => []ChatStaysInRoom
<1>1. ChatsInv => ChatStaysInRoom
  BY DEF ChatsInv
<1>2. QED
  BY <1>1, ChatsInvariant, PTL

(* Every client in a lesson shows its groups and its open questions,       *)
(* however it and others joined and left; if there are none, a page that   *)
(* reconnected may show those of before, until it is sent anything of them *)
(* (room.js 184-190, 207-227, 269-341).                                    *)
THEOREM ClientsCorrect == ClassroomSpec => []ClientsAgree
<1>1. ClassroomInv => ClientsAgree
  BY DEF ClassroomInv
<1>2. QED
  BY <1>1, ClassroomInvariant, PTL

(* Every client that hears a chat shows its whole backlog, whatever the    *)
(* limit of the backlog is (chat.js 48-106, 178-211; room.js 160-169).     *)
THEOREM BacklogCorrect == ClassroomSpec => []ListenersHaveBacklog
<1>1. ClassroomInv => ListenersHaveBacklog
  BY DEF ClassroomInv
<1>2. QED
  BY <1>1, ClassroomInvariant, PTL
--------------------------------------------------------------------------------
(* Presence: the number of editors is the number of active users, and who  *)
(* is active has a connected socket or was late.                           *)

(* What the proof needs to know of the types.                              *)
CountInv ==
  /\ user \in [Sockets -> Users]
  /\ active \subseteq Users
  /\ storedUsers \subseteq Users
  /\ listed \subseteq Users
  /\ CountMatchesActive

USE PresenceAssumption

(* Registering a user keeps the count of any document exact, whether the   *)
(* user was active or not.                                                 *)
LEMMA RegisterCounts ==
  ASSUME NEW u \in Users, NEW L \in SUBSET Users, NEW A \in SUBSET Users,
         registerUser(u, L, A, Cardinality(A))
  PROVE  listed' \subseteq Users /\ active' \subseteq Users /\ CountMatchesActive'
<1>1. IsFiniteSet(A)
  BY FS_Subset
<1>2. Cardinality(A \cup {u}) = IF u \in A THEN Cardinality(A) ELSE Cardinality(A) + 1
  BY <1>1, FS_AddElement
<1>3. QED
  BY <1>2 DEF registerUser, CountMatchesActive

(* So does removing one.                                                   *)
LEMMA RemoveCounts ==
  ASSUME CountInv, NEW u, removeFromInstances(u)
  PROVE  active' \subseteq Users /\ CountMatchesActive'
<1>1. IsFiniteSet(active)
  BY FS_Subset DEF CountInv
<1>2. Cardinality(active) \in Nat
      /\ Cardinality(active \ {u}) = IF u \in active THEN Cardinality(active) - 1
                                     ELSE Cardinality(active)
  BY <1>1, FS_RemoveElement, FS_CardinalityType
<1>3. QED
  BY <1>2 DEF removeFromInstances, CountInv, CountMatchesActive

LEMMA CountStep == CountInv /\ [PresenceNext]_presenceVars => CountInv'
<1> SUFFICES ASSUME CountInv, [PresenceNext]_presenceVars PROVE CountInv'
  OBVIOUS
<1> USE DEF vars, socketVars, historyVars, documentVars
<1>1. CASE UNCHANGED presenceVars
  BY <1>1 DEF presenceVars, CountInv, CountMatchesActive
<1>2. CASE Save \/ Evict
  BY <1>2, FS_EmptySet DEF Save, Evict, CountInv, CountMatchesActive
<1>3. ASSUME NEW s \in Sockets
      PROVE  /\ Join(s) \/ LookupFails(s) \/ OnFind(s) \/ Leave(s) \/ Disconnect(s)
                  => user' = user
             /\ user[s] \in Users
  BY DEF Join, LookupFails, OnFind, Leave, Disconnect, CountInv
<1>4. ASSUME NEW s \in Sockets, Join(s) \/ LookupFails(s) \/ OnFind(s),
             UNCHANGED <<documentVars, loads, lateUsers>>
      PROVE  CountInv'
  BY <1>3, <1>4 DEF CountInv, CountMatchesActive
<1>5. ASSUME NEW s \in Sockets, LeaveDocuments(s) \/ DisconnectDocuments(s)
      PROVE  CountInv'
  <2>1. user' = user
    BY <1>3, <1>5 DEF LeaveDocuments, DisconnectDocuments
  <2>2. CASE removeFromInstances(user[s])
    <3>1. listed' = listed /\ storedUsers' = storedUsers
      BY <2>2 DEF removeFromInstances
    <3>2. QED
      BY <2>1, <2>2, <3>1, RemoveCounts DEF CountInv
  <2>3. CASE UNCHANGED <<documentVars, loads, lateUsers>>
    BY <2>1, <2>3 DEF CountInv, CountMatchesActive
  <2>4. QED
    BY <1>5, <2>2, <2>3 DEF LeaveDocuments, DisconnectDocuments
<1>6. ASSUME NEW s \in Sockets, GetCached(s)
      PROVE  CountInv'
  <2>1. /\ registerUser(user[s], listed, active, Cardinality(active))
        /\ UNCHANGED <<user, storedUsers>>
    BY <1>6 DEF GetCached, CountInv, CountMatchesActive
  <2>2. QED
    BY <1>3, <2>1, RegisterCounts DEF CountInv
<1>7. ASSUME NEW s \in Sockets, GetMissing(s)
      PROVE  CountInv'
  BY <1>7 DEF GetMissing, CountInv, CountMatchesActive
<1>8. ASSUME NEW s \in Sockets, GetLoaded(s)
      PROVE  CountInv'
  <2>. DEFINE A == {u \in storedUsers : memberHasActiveSocket(s, u)}
  <2>1. /\ registerUser(user[s], storedUsers, A, Cardinality(A))
        /\ UNCHANGED <<user, storedUsers>>
    BY <1>8 DEF GetLoaded
  <2>2. A \in SUBSET Users /\ storedUsers \in SUBSET Users
    BY DEF CountInv
  <2> HIDE DEF A
  <2>3. QED
    BY <1>3, <2>1, <2>2, RegisterCounts DEF CountInv
<1>9. QED
  BY <1>1, <1>2, <1>4, <1>5, <1>6, <1>7, <1>8 DEF PresenceNext

(* The number of editors of a document is the number of its active users   *)
(* (instance.js 119-125, 234-243, 333-343).                                *)
THEOREM CountCorrect == PresenceSpec => []CountMatchesActive
<1>1. PresenceInit => CountInv
  BY FS_EmptySet DEF PresenceInit, Init, CountInv, CountMatchesActive
<1>2. CountInv /\ [PresenceNext]_presenceVars => CountInv'
  BY CountStep
<1>3. CountInv => CountMatchesActive
  BY DEF CountInv
<1>4. QED
  BY <1>1, <1>2, <1>3, PTL DEF PresenceSpec
-----------------------------------------------------------------------------
(* Active users *)

(* A room that was dropped has no socket in its lists, and whoever has     *)
(* joined has been in a room.                                              *)
ClosedRoomsAreEmpty == \A r \in Room \ openRooms : sockets[r] = {}
JoinedHasRoom == \A s \in Sockets : phase[s] = Joined => currentRoom[s] \in Room

PresenceInv ==
  /\ RoomsInv
  /\ ClosedRoomsAreEmpty
  /\ JoinedHasRoom
  /\ \A s \in loading : s \in Sockets /\ phase[s] = Joined
  /\ ActiveUnlessLate

(* A room whose members have all gone has no sockets either.               *)
LEMMA DroppedIsEmpty ==
  ASSUME RoomsInv, NEW s \in Sockets, NEW r \in openRooms, MembersLeft(r, s) = {}
  PROVE  SocketsLeft(r, s) = {}
<1>1. UsersOf(members[r]) = UsersOf(sockets[r])
  BY DEF RoomsInv, MembersMatchSockets
<1>2. SUFFICES ASSUME NEW t \in sockets[r], t # s PROVE FALSE
  BY DEF SocketsLeft
<1>3. PICK m \in members[r] : user[m] = user[t]
  BY <1>1, <1>2 DEF UsersOf
<1>4. CASE Goes(r, s)
  BY <1>2, <1>3, <1>4 DEF MembersLeft, Goes, SocketsLeft, UsersOf
<1>5. CASE ~Goes(r, s)
  BY <1>3, <1>5 DEF MembersLeft
<1>6. QED
  BY <1>4, <1>5

LEMMA ClosedStep ==
  ASSUME RoomsInv, ClosedRoomsAreEmpty, JoinedHasRoom, [Next]_vars
  PROVE  ClosedRoomsAreEmpty' /\ JoinedHasRoom'
<1> USE DEF vars, socketVars, roomVars, historyVars
<1>1. CASE UNCHANGED vars
  BY <1>1 DEF ClosedRoomsAreEmpty, JoinedHasRoom
<1>2. ASSUME NEW s \in Sockets, Join(s) \/ LookupFails(s)
      PROVE  ClosedRoomsAreEmpty' /\ JoinedHasRoom'
  BY <1>2 DEF Join, LookupFails, ClosedRoomsAreEmpty, JoinedHasRoom, RoomsInv, TypeOK,
              New, Finding, Joined
<1>3. ASSUME NEW s \in Sockets, OnFind(s)
      PROVE  ClosedRoomsAreEmpty' /\ JoinedHasRoom'
  <2>1. \A t \in Sockets : t # s => phase'[t] = phase[t]
    BY <1>3 DEF OnFind, RoomsInv, TypeOK
  <2>2. CASE NewRoom(s)
    <3>. DEFINE r == <<target[s], made[target[s]] + 1>>
    <3>1. r \in Room
      BY <2>2, NewRoomIsRoom DEF NewRoom, RoomsInv
    <3>2. /\ currentRoom' = [currentRoom EXCEPT ![s] = r]
          /\ sockets' = [sockets EXCEPT ![r] = {s}]
          /\ openRooms' = openRooms \cup {r}
      BY <2>2 DEF NewRoom
    <3> HIDE DEF r
    <3>3. QED
      BY <2>1, <3>1, <3>2 DEF ClosedRoomsAreEmpty, JoinedHasRoom, RoomsInv, TypeOK
  <2>3. CASE \E r \in openRooms : JoinRoom(s, r)
    BY <2>1, <2>3 DEF JoinRoom, ClosedRoomsAreEmpty, JoinedHasRoom, RoomsInv, TypeOK
  <2>4. QED
    BY <1>3, <2>2, <2>3 DEF OnFind
<1>4. ASSUME NEW s \in Sockets, Leave(s)
      PROVE  ClosedRoomsAreEmpty' /\ JoinedHasRoom'
  <2>1. ASSUME NEW r \in Room \ openRooms' PROVE sockets'[r] = {}
    <3>1. CASE r \in openRooms
      <4>1. MembersLeft(r, s) = {} /\ sockets'[r] = SocketsLeft(r, s)
        BY <1>4, <2>1, <3>1 DEF Leave, leaveRooms
      <4>2. QED
        BY <3>1, <4>1, DroppedIsEmpty
    <3>2. CASE r \notin openRooms
      BY <1>4, <2>1, <3>2 DEF Leave, leaveRooms, ClosedRoomsAreEmpty
    <3>3. QED
      BY <3>1, <3>2
  <2>2. QED
    BY <1>4, <2>1 DEF Leave, ClosedRoomsAreEmpty, JoinedHasRoom
<1>5. ASSUME NEW s \in Sockets, Disconnect(s)
      PROVE  ClosedRoomsAreEmpty' /\ JoinedHasRoom'
  <2>1. \A r \in Room : sockets'[r] \subseteq sockets[r]
    BY <1>5 DEF Disconnect, leaveRooms, SocketsLeft
  <2>2. QED
    BY <1>5, <2>1 DEF Disconnect, ClosedRoomsAreEmpty, JoinedHasRoom
<1>6. QED
  BY <1>1, <1>2, <1>3, <1>4, <1>5 DEF Next

(* Each step of a document is one of the rooms.                            *)
LEMMA PresenceStepIsStep == [PresenceNext]_presenceVars => [Next]_vars
BY DEF PresenceNext, presenceVars, LeaveDocuments, DisconnectDocuments, GetCached, GetMissing,
       GetLoaded, Save, Evict, Next

(* A socket closes: only its user may lose the last connected socket.      *)
LEMMA CloseKeepsActive ==
  ASSUME PresenceInv, NEW s \in Sockets, Close(s), UNCHANGED <<user, phase, late, lateUsers>>,
         \/ s \notin Present /\ active' = active
         \/ active' = active \ {user[s]}
  PROVE  ActiveUnlessLate'
<1>1. Present' = Present \ {s}
  BY DEF Close, Present
<1>2. QED
  BY <1>1 DEF PresenceInv, ActiveUnlessLate, UsersOf

(* The users restored with a stored document that have a socket in the     *)
(* room have a connected one, or were late.                                *)
LEMMA RestoredAreActive ==
  ASSUME PresenceInv, NEW s \in loading, NEW u, memberHasActiveSocket(s, u)
  PROVE  u \in UsersOf(Present) \cup UsersOf(late)
<1>. DEFINE r == currentRoom[s]
<1>1. r \in Room /\ u \in UsersOf(sockets[r])
  BY DEF PresenceInv, JoinedHasRoom, memberHasActiveSocket
<1>2. r \in openRooms
  BY <1>1 DEF PresenceInv, ClosedRoomsAreEmpty, UsersOf
<1>3. \A t \in sockets[r] : t \in Present \cup late
  BY <1>2 DEF PresenceInv, RoomsInv, InCurrentRoom, GhostsAreLate, Present
<1>4. QED
  BY <1>1, <1>3 DEF UsersOf

LEMMA PresenceStep == PresenceInv /\ [PresenceNext]_presenceVars => PresenceInv'
<1> SUFFICES ASSUME PresenceInv, [PresenceNext]_presenceVars
             PROVE  /\ \A s \in loading' : s \in Sockets /\ phase'[s] = Joined
                    /\ ActiveUnlessLate'
  BY PresenceStepIsStep, InvStep, ClosedStep DEF PresenceInv
<1>1. CASE UNCHANGED presenceVars
  <2>1. UNCHANGED <<user, connected, phase, late, loading, active, lateUsers>>
    BY <1>1 DEF presenceVars, vars, socketVars, historyVars, documentVars
  <2>2. QED
    BY <2>1 DEF PresenceInv, ActiveUnlessLate, Present, UsersOf
<1>2. ASSUME NEW s \in Sockets, Join(s) \/ LookupFails(s),
             UNCHANGED <<documentVars, loads, lateUsers>>
      PROVE  /\ \A t \in loading' : t \in Sockets /\ phase'[t] = Joined
             /\ ActiveUnlessLate'
  <2>1. /\ UNCHANGED <<user, connected, late, loading, active, lateUsers>>
        /\ phase[s] # Joined /\ phase'[s] # Joined
        /\ \A t \in Sockets : t # s => phase'[t] = phase[t]
    BY <1>2 DEF Join, LookupFails, historyVars, documentVars, PresenceInv, RoomsInv, TypeOK, New, Finding, Joined
  <2>2. Present' = Present
    BY <2>1 DEF Present, PresenceInv, RoomsInv, TypeOK
  <2>3. QED
    BY <2>1, <2>2 DEF PresenceInv, ActiveUnlessLate, UsersOf
<1>3. ASSUME NEW s \in Sockets, OnFind(s), UNCHANGED <<documentVars, loads, lateUsers>>
      PROVE  /\ \A t \in loading' : t \in Sockets /\ phase'[t] = Joined
             /\ ActiveUnlessLate'
  <2>1. /\ UNCHANGED <<user, connected, loading, active, lateUsers>> /\ late \subseteq late'
        /\ \A t \in Sockets : phase[t] = Joined => phase'[t] = Joined
    BY <1>3, OnFindFacts DEF documentVars, PresenceInv
  <2>2. Present \subseteq Present'
    BY <2>1 DEF Present, PresenceInv, RoomsInv, TypeOK
  <2>3. QED
    BY <2>1, <2>2 DEF PresenceInv, ActiveUnlessLate, UsersOf
<1>4. ASSUME NEW s \in Sockets, LeaveDocuments(s) \/ DisconnectDocuments(s)
      PROVE  /\ \A t \in loading' : t \in Sockets /\ phase'[t] = Joined
             /\ ActiveUnlessLate'
  <2>1. Close(s) /\ UNCHANGED <<user, phase, late, loading, lateUsers>>
    BY <1>4 DEF LeaveDocuments, DisconnectDocuments, Leave, Disconnect, removeFromInstances,
                historyVars, documentVars
  <2>2. \/ s \notin Present /\ active' = active
        \/ active' = active \ {user[s]}
    BY <1>4 DEF LeaveDocuments, DisconnectDocuments, removeFromInstances, documentVars, Present
  <2>3. QED
    BY <2>1, <2>2, CloseKeepsActive DEF PresenceInv
<1>5. ASSUME NEW s \in Sockets, GetCached(s) \/ GetMissing(s)
      PROVE  /\ \A t \in loading' : t \in Sockets /\ phase'[t] = Joined
             /\ ActiveUnlessLate'
  <2>1. /\ s \in Present /\ UNCHANGED <<user, connected, phase, late, lateUsers>>
        /\ loading' \subseteq loading \cup {s} /\ active' \subseteq active \cup {user[s]}
    BY <1>5 DEF GetCached, GetMissing, registerUser, vars, socketVars, historyVars
  <2>2. QED
    BY <2>1 DEF PresenceInv, ActiveUnlessLate, Present, UsersOf
<1>6. ASSUME NEW s \in Sockets, GetLoaded(s)
      PROVE  /\ \A t \in loading' : t \in Sockets /\ phase'[t] = Joined
             /\ ActiveUnlessLate'
  <2>1. /\ s \in loading /\ loading' \subseteq loading
        /\ UNCHANGED <<user, connected, phase, late>>
        /\ active' = {u \in storedUsers : memberHasActiveSocket(s, u)} \cup {user[s]}
        /\ lateUsers \subseteq lateUsers' /\ (s \in connected \/ user[s] \in lateUsers')
    BY <1>6 DEF GetLoaded, registerUser, vars, socketVars, historyVars
  <2>2. \A u : memberHasActiveSocket(s, u) => u \in UsersOf(Present) \cup UsersOf(late)
    BY <2>1, RestoredAreActive
  <2>3. user[s] \in UsersOf(Present) \cup lateUsers'
    BY <2>1 DEF PresenceInv, Present, UsersOf
  <2>4. Present' = Present /\ UsersOf(Present)' = UsersOf(Present) /\ UsersOf(late)' = UsersOf(late)
    BY <2>1 DEF Present, UsersOf
  <2>5. QED
    BY <2>1, <2>2, <2>3, <2>4 DEF PresenceInv, ActiveUnlessLate
<1>7. CASE Save \/ Evict
  <2>1. UNCHANGED <<user, connected, phase, late, loading, lateUsers>> /\ active' \subseteq active
    BY <1>7 DEF Save, Evict, vars, socketVars, historyVars
  <2>2. QED
    BY <2>1 DEF PresenceInv, ActiveUnlessLate, Present, UsersOf
<1>8. QED
  BY <1>1, <1>2, <1>3, <1>4, <1>5, <1>6, <1>7 DEF PresenceNext

(* A user without a connected socket counts as an editor only if he was    *)
(* registered, or had joined the room, after his socket had closed         *)
(* (instance.js 119-125, 234-243, 333-343; room.js memberHasActiveSocket). *)
THEOREM ActiveCorrect == PresenceSpec => []ActiveUnlessLate
<1>1. PresenceInit => PresenceInv
  <2> SUFFICES ASSUME PresenceInit PROVE PresenceInv
    OBVIOUS
  <2>2. RoomsInv
    BY InvInit DEF PresenceInit
  <2>3. QED
    BY <2>2 DEF PresenceInit, Init, PresenceInv, ClosedRoomsAreEmpty, JoinedHasRoom,
                ActiveUnlessLate, New, Joined
<1>2. PresenceInv => ActiveUnlessLate
  BY DEF PresenceInv
<1>3. QED
  BY <1>1, <1>2, PresenceStep, PTL DEF PresenceSpec
================================================================================
