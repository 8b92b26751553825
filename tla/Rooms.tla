-------------------------------- MODULE Rooms --------------------------------
(***************************************************************************)
(* The lesson rooms of the web socket server: the handlers join, leave and *)
(* disconnect of lib/sockets/handler.js, class Room of                     *)
(* lib/sockets/room.js (members, sockets, owners, socket.io channels) and  *)
(* the list lib/sockets/open_rooms.js.                                     *)
(*                                                                         *)
(* A user may have several sockets (tabs, devices).  A socket is one       *)
(* connection: a client that reconnects gets a new one, and a client joins *)
(* one lesson per connection.  A member object belongs to one socket, so   *)
(* the socket stands for it.  A room that was removed and made again is a  *)
(* new object of the same name, hence the generation in Room.              *)
(***************************************************************************)
EXTENDS Naturals, FiniteSets

CONSTANTS
  Sockets,   \* connections
  Users,     \* user accounts, by email address
  Owners,    \* users that own the namespace of the lessons
  RoomNames, \* "<namespace>/<lesson>"
  MaxGen,    \* bound on how often a room of one name is made
  MaxFailed  \* bound on how many queries for a namespace fail

ASSUME RoomsAssumption == Owners \subseteq Users /\ MaxGen \in Nat /\ MaxFailed \in Nat

Room == RoomNames \X (1 .. MaxGen)
NoRoom == <<>>

VARIABLES
  user,         \* user[s]: the user behind socket s
  connected,    \* sockets that are connected
  phase,        \* phase[s]: how far the join of s has come
  target,       \* target[s]: the lesson s asked to join
  currentRoom,  \* currentRoom[s]: the variable of the closure of s
  owner,        \* sockets whose member object has owner = true
  openRooms,    \* the array openRooms
  members,      \* members[r]: room.members
  sockets,      \* sockets[r]: all sockets in the lists room.sockets[email]
  owners,       \* owners[r]: room.owners
  channel,      \* channel[n]: sockets in the socket.io room n
  ownerChannel, \* ownerChannel[n]: sockets in the socket.io room n + ":owners"
  made,         \* made[n]: history, rooms made for the lesson n
  late,         \* history: sockets whose join completed after they had closed
  creators,     \* history: sockets whose join made a new room
  unverified    \* history: sockets whose namespace could not be looked up

socketVars == <<user, connected, phase, target, currentRoom, owner>>
roomVars == <<openRooms, members, sockets, owners, channel, ownerChannel>>
historyVars == <<made, late, creators, unverified>>
vars == <<socketVars, roomVars, historyVars>>

New == "new"          \* has not asked to join
Finding == "finding"  \* waits for the user and the namespace
Joined == "joined"

Init ==
  /\ user \in [Sockets -> Users]
  /\ connected = Sockets
  /\ phase = [s \in Sockets |-> New]
  /\ target \in [Sockets -> RoomNames]
  /\ currentRoom = [s \in Sockets |-> NoRoom]
  /\ owner = {}
  /\ openRooms = {}
  /\ members = [r \in Room |-> {}]
  /\ sockets = [r \in Room |-> {}]
  /\ owners = [r \in Room |-> {}]
  /\ channel = [n \in RoomNames |-> {}]
  /\ ownerChannel = [n \in RoomNames |-> {}]
  /\ made = [n \in RoomNames |-> 0]
  /\ late = {}
  /\ creators = {}
  /\ unverified = {}

UsersOf(S) == {user[s] : s \in S}
------------------------------------------------------------------------------
(* Joining *)

Join(s) ==
  /\ s \in connected /\ phase[s] = New
  /\ phase' = [phase EXCEPT ![s] = Finding]
  /\ UNCHANGED <<user, connected, target, currentRoom, owner, roomVars, historyVars>>

(* The query for the user fails: the join is dropped without an answer,    *)
(* and the client may ask again.                                           *)
LookupFails(s) ==
  /\ phase[s] = Finding
  /\ phase' = [phase EXCEPT ![s] = New]
  /\ UNCHANGED <<user, connected, target, currentRoom, owner, roomVars, historyVars>>

(* The namespace was looked up: its owners become owners in the room.      *)
Verified(s) ==
  /\ owner' = IF user[s] \in Owners THEN owner \cup {s} ELSE owner
  /\ UNCHANGED unverified

(* The query for the namespace fails.  The error is logged, and the join   *)
(* goes on: the member is an owner if the client said so of itself.        *)
Unverified(s) ==
  /\ Cardinality(unverified) < MaxFailed
  /\ owner' \in {owner, owner \cup {s}}
  /\ unverified' = unverified \cup {s}

(* The constructor of Room.  It joins an owner to this.name + ':owners'    *)
(* before this.name has a value, that is, to a channel of no room.         *)
NewRoom(s) ==
  LET n == target[s]
      r == <<n, made[n] + 1>>
  IN /\ made[n] < MaxGen
     /\ made' = [made EXCEPT ![n] = @ + 1]
     /\ openRooms' = openRooms \cup {r}
     /\ currentRoom' = [currentRoom EXCEPT ![s] = r]
     /\ members' = [members EXCEPT ![r] = {s}]
     /\ sockets' = [sockets EXCEPT ![r] = {s}]
     /\ owners' = [owners EXCEPT ![r] = IF s \in owner' THEN {s} ELSE {}]
     /\ channel' = [channel EXCEPT ![n] = @ \cup {s}]
     /\ creators' = creators \cup {s}
     /\ UNCHANGED ownerChannel

(* Mutant: mirrorJoin forgets the channel of the owners. *)
JoinRoomOwnerOnce(s, r) ==
  LET n == target[s]
      first == user[s] \notin UsersOf(members[r])
  IN /\ currentRoom' = [currentRoom EXCEPT ![s] = r]
     /\ sockets' = [sockets EXCEPT ![r] = @ \cup {s}]
     /\ members' = IF first THEN [members EXCEPT ![r] = @ \cup {s}] ELSE members
     /\ owners' = IF first /\ s \in owner' THEN [owners EXCEPT ![r] = @ \cup {s}] ELSE owners
     /\ channel' = [channel EXCEPT ![n] = @ \cup {s}]
     /\ ownerChannel' = IF first /\ s \in owner' THEN [ownerChannel EXCEPT ![n] = @ \cup {s}]
                        ELSE ownerChannel
     /\ UNCHANGED <<openRooms, made, creators>>

(* room.join and mirrorJoin                                                *)
JoinRoom(s, r) ==
  LET n == target[s]
      first == user[s] \notin UsersOf(members[r])
  IN /\ currentRoom' = [currentRoom EXCEPT ![s] = r]
     /\ sockets' = [sockets EXCEPT ![r] = @ \cup {s}]
     /\ members' = IF first THEN [members EXCEPT ![r] = @ \cup {s}] ELSE members
     /\ owners' = IF first /\ s \in owner' THEN [owners EXCEPT ![r] = @ \cup {s}] ELSE owners
     /\ channel' = [channel EXCEPT ![n] = @ \cup {s}]
     /\ ownerChannel' = IF s \in owner' THEN [ownerChannel EXCEPT ![n] = @ \cup {s}]
                        ELSE ownerChannel
     /\ UNCHANGED <<openRooms, made, creators>>

(* Mutant: an open room is not found again. *)
OnFindAlwaysNew(s) ==
  /\ phase[s] = Finding
  /\ phase' = [phase EXCEPT ![s] = Joined]
  /\ Verified(s) \/ Unverified(s)
  /\ NewRoom(s)
  /\ late' = IF s \in connected THEN late ELSE late \cup {s}
  /\ UNCHANGED <<user, connected, target>>

(* The lookups are back.  Nothing asks whether the socket is still there.  *)
OnFind(s) ==
  LET open == {r \in openRooms : r[1] = target[s]} IN
  /\ phase[s] = Finding
  /\ phase' = [phase EXCEPT ![s] = Joined]
  /\ Verified(s) \/ Unverified(s)
  /\ \/ open = {} /\ NewRoom(s)
     \/ \E r \in open : JoinRoom(s, r)
  /\ late' = IF s \in connected THEN late ELSE late \cup {s}
  /\ UNCHANGED <<user, connected, target>>
------------------------------------------------------------------------------
(* Leaving *)

(* Mutant: the socket stays in the list of its user. *)
SocketsKept(r, s) == sockets[r]

(* Mutant: a user goes with any of his sockets. *)
GoesAtOnce(r, s) == TRUE

(* What room.leave makes of the room r when the member of s leaves it: the *)
(* user stays as long as another of his sockets is in the room.            *)
SocketsLeft(r, s) == sockets[r] \ {s}
Goes(r, s) == user[s] \notin UsersOf(SocketsLeft(r, s))
MembersLeft(r, s) ==
  IF Goes(r, s) THEN {m \in members[r] : user[m] # user[s]} ELSE members[r]
OwnersLeft(r, s) ==
  IF Goes(r, s) /\ user[s] \in UsersOf(members[r]) THEN owners[r] \ {s} ELSE owners[r]

leaveRooms(s, R) ==
  /\ sockets' = [r \in Room |-> IF r \in R THEN SocketsLeft(r, s) ELSE sockets[r]]
  /\ members' = [r \in Room |-> IF r \in R THEN MembersLeft(r, s) ELSE members[r]]
  /\ owners' = [r \in Room |-> IF r \in R THEN OwnersLeft(r, s) ELSE owners[r]]

(* A socket that closes is taken out of all its channels.                  *)
Close(s) ==
  /\ connected' = connected \ {s}
  /\ channel' = [n \in RoomNames |-> channel[n] \ {s}]
  /\ ownerChannel' = [n \in RoomNames |-> ownerChannel[n] \ {s}]

(* The event 'leave': the member leaves every open room, rooms without     *)
(* members are dropped, and the server closes the socket.  (The handler of *)
(* 'disconnect', which runs inside, finds nothing left to do.)             *)
Leave(s) ==
  /\ s \in connected /\ phase[s] = Joined
  /\ leaveRooms(s, openRooms)
  /\ openRooms' = {r \in openRooms : MembersLeft(r, s) # {}}
  /\ Close(s)
  /\ UNCHANGED <<user, phase, target, currentRoom, owner, historyVars>>

(* The connection is lost or closed by the client, at any time.            *)
Disconnect(s) ==
  /\ s \in connected
  /\ leaveRooms(s, IF phase[s] = Joined THEN {currentRoom[s]} ELSE {})
  /\ Close(s)
  /\ UNCHANGED <<user, phase, target, currentRoom, owner, openRooms, historyVars>>

Next ==
  \E s \in Sockets :
    Join(s) \/ LookupFails(s) \/ OnFind(s) \/ Leave(s) \/ Disconnect(s)

Spec == Init /\ [][Next]_vars
------------------------------------------------------------------------------
Present == {s \in connected : phase[s] = Joined}

TypeOK ==
  /\ user \in [Sockets -> Users]
  /\ connected \subseteq Sockets
  /\ phase \in [Sockets -> {New, Finding, Joined}]
  /\ target \in [Sockets -> RoomNames]
  /\ currentRoom \in [Sockets -> Room \cup {NoRoom}]
  /\ openRooms \subseteq Room
  /\ members \in [Room -> SUBSET Sockets]
  /\ sockets \in [Room -> SUBSET Sockets]
  /\ owners \in [Room -> SUBSET Sockets]
  /\ channel \in [RoomNames -> SUBSET Sockets]
  /\ ownerChannel \in [RoomNames -> SUBSET Sockets]
  /\ made \in [RoomNames -> 0 .. MaxGen]
  /\ owner \subseteq Sockets /\ late \subseteq Sockets
  /\ creators \subseteq Sockets /\ unverified \subseteq Sockets

(* However joins, tabs and disconnects interleave, a lesson has one room,  *)
(* and a socket that has joined and is connected is served by it: its room *)
(* is open, lists the socket and its user, and the socket hears the room   *)
(* (handler.js 52-104, 304-342; room.js 197-262).                          *)
PresentIsServed ==
  /\ \A r, q \in openRooms : r[1] = q[1] => r = q
  /\ \A s \in Present :
       LET r == currentRoom[s] IN
       /\ r \in openRooms /\ r[1] = target[s]
       /\ s \in sockets[r] /\ s \in channel[target[s]]
       /\ user[s] \in UsersOf(members[r])

(* The list of members shown to all names every user with a socket in the  *)
(* room exactly once, and no other user (room.js 197-213, 234-262).        *)
MembersMatchSockets ==
  \A r \in openRooms :
    /\ UsersOf(members[r]) = UsersOf(sockets[r])
    /\ \A m, k \in members[r] : user[m] = user[k] => m = k

(* A closed socket stays in a room only when its join was completed after  *)
(* it had closed (handler.js 58-76, 336-342).                              *)
GhostsAreLate == \A r \in openRooms : sockets[r] \subseteq connected \cup late

(* Messages for the instructors reach every connected socket of an owner   *)
(* but the one whose join made the room, and no other socket.  Who owns    *)
(* the namespace is not known of a socket whose query for it failed: only  *)
(* such a one may be taken for an owner by its own word                    *)
(* (handler.js 74-88; room.js 44-49, 176-180, 208-211, 252-260).           *)
OwnersAreReached ==
  /\ \A s \in Present \ unverified :
       s \in ownerChannel[target[s]] <=> user[s] \in Owners /\ s \notin creators
  /\ \A n \in RoomNames : \A s \in ownerChannel[n] :
       user[s] \in Owners \/ s \in unverified
==============================================================================
