------------------------------ MODULE Presence ------------------------------
(***************************************************************************)
(* Who is counted as an editor of a collaborative document: the users and  *)
(* userCount of class Instance, registerUser, removeFromInstances and the  *)
(* users getInstance restores (lib/sockets/document/instance.js), composed *)
(* with the rooms, whose joins and disconnects drive them.  One document   *)
(* is modelled; removeFromInstances treats each in the same way.           *)
(***************************************************************************)
EXTENDS Rooms

CONSTANT MaxLoads \* bound on the number of times the document is loaded

ASSUME PresenceAssumption == IsFiniteSet(Users) /\ MaxLoads \in Nat

VARIABLES
  inMemory,    \* is the document among `instances`?
  listed,      \* keys of instance.users
  active,      \* those with active = true
  userCount,   \* instance.userCount
  loading,     \* sockets waiting in getInstance for the stored document
  storedUsers, \* users of the stored document
  loads,       \* history: number of loads
  lateUsers    \* history: users registered for a socket that had closed

documentVars == <<inMemory, listed, active, userCount, loading, storedUsers>>
presenceVars == <<vars, documentVars, loads, lateUsers>>

PresenceInit ==
  /\ Init
  /\ inMemory = FALSE
  /\ listed = {}
  /\ active = {}
  /\ userCount = 0
  /\ loading = {}
  /\ storedUsers = {}
  /\ loads = 0
  /\ lateUsers = {}

(* Mutant: every request counts. *)
RegisterAlwaysCounts(u, L, A, k) ==
  /\ listed' = L \cup {u}
  /\ active' = A \cup {u}
  /\ userCount' = k + 1

(* registerUser on a document with users L, active ones A and the count k  *)
registerUser(u, L, A, k) ==
  /\ listed' = L \cup {u}
  /\ active' = A \cup {u}
  /\ userCount' = IF u \in A THEN k ELSE k + 1

(* A socket joins the editing session, sends or polls: the document is in  *)
(* memory.                                                                 *)
GetCached(s) ==
  /\ s \in Present /\ inMemory
  /\ registerUser(user[s], listed, active, userCount)
  /\ UNCHANGED <<vars, inMemory, loading, storedUsers, loads, lateUsers>>

(* It has to be loaded.                                                    *)
GetMissing(s) ==
  /\ s \in Present /\ ~inMemory
  /\ s \notin loading
  /\ loading' = loading \cup {s}
  /\ UNCHANGED <<vars, inMemory, listed, active, userCount, storedUsers, loads, lateUsers>>

(* room.memberHasActiveSocket of the room of s                             *)
memberHasActiveSocket(s, u) == u \in UsersOf(sockets[currentRoom[s]])

(* The document has arrived.  Its instance replaces any made meanwhile;    *)
(* the users it was stored with are active if they have a socket in the    *)
(* room.  The caller is registered, even if its socket has closed.         *)
GetLoaded(s) ==
  LET A == {u \in storedUsers : memberHasActiveSocket(s, u)} IN
  /\ s \in loading
  /\ loads < MaxLoads
  /\ loads' = loads + 1
  /\ loading' = loading \ {s}
  /\ inMemory' = TRUE
  /\ registerUser(user[s], storedUsers, A, Cardinality(A))
  /\ lateUsers' = IF s \in connected THEN lateUsers ELSE lateUsers \cup {user[s]}
  /\ UNCHANGED <<vars, storedUsers>>

(* The document is saved with its users, or dropped from memory.           *)
Save ==
  /\ inMemory
  /\ storedUsers' = listed
  /\ UNCHANGED <<vars, inMemory, listed, active, userCount, loading, loads, lateUsers>>

Evict ==
  /\ inMemory
  /\ inMemory' = FALSE
  /\ listed' = {} /\ active' = {} /\ userCount' = 0
  /\ UNCHANGED <<vars, loading, storedUsers, loads, lateUsers>>

(* removeFromInstances goes by the email address: a user with another tab  *)
(* on the document becomes inactive, too.                                  *)
removeFromInstances(u) ==
  /\ active' = active \ {u}
  /\ userCount' = IF u \in active THEN userCount - 1 ELSE userCount
  /\ UNCHANGED <<inMemory, listed, loading, storedUsers, loads, lateUsers>>

LeaveDocuments(s) == Leave(s) /\ removeFromInstances(user[s])

(* Mutant: only the event 'leave' removes the user. *)
DisconnectOnly(s) == Disconnect(s) /\ UNCHANGED <<documentVars, loads, lateUsers>>

DisconnectDocuments(s) ==
  /\ Disconnect(s)
  /\ IF phase[s] = Joined THEN removeFromInstances(user[s])
     ELSE UNCHANGED <<documentVars, loads, lateUsers>>

PresenceNext ==
  \/ \E s \in Sockets :
       \/ (Join(s) \/ LookupFails(s) \/ OnFind(s))
          /\ UNCHANGED <<documentVars, loads, lateUsers>>
       \/ LeaveDocuments(s)
       \/ DisconnectDocuments(s)
       \/ GetCached(s) \/ GetMissing(s) \/ GetLoaded(s)
  \/ Save
  \/ Evict

PresenceSpec == PresenceInit /\ [][PresenceNext]_presenceVars
------------------------------------------------------------------------------
PresenceTypeOK ==
  /\ listed \subseteq Users
  /\ active \subseteq listed
  /\ userCount \in Nat
  /\ inMemory \in BOOLEAN
  /\ loading \subseteq Sockets
  /\ storedUsers \subseteq Users
  /\ lateUsers \subseteq Users
  /\ loads \in 0 .. MaxLoads

(* The number of editors that is sent to the clients, kept by increments   *)
(* and decrements over registrations, departures, overlapping loads and    *)
(* evictions, is the number of active users (instance.js 119-125, 234-243, *)
(* 333-343).                                                               *)
CountMatchesActive == userCount = Cardinality(active)

(* A user without a connected socket counts as an editor only if he was    *)
(* registered, or had joined the room, after his socket had closed.        *)
ActiveUnlessLate ==
  active \subseteq UsersOf(Present) \cup lateUsers \cup UsersOf(late)
==============================================================================
