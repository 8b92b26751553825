-------------------------------- MODULE Chats --------------------------------
(***************************************************************************)
(* The chats of the lesson rooms (lib/sockets/chat.js), composed with the  *)
(* rooms: joining a room from a second tab joins the chats of the user,    *)
(* and leaving a room with the last tab leaves them.  One chat per room is *)
(* modelled; a room's chats do not touch each other.  Classroom adds the   *)
(* messages.                                                               *)
(***************************************************************************)
EXTENDS Rooms

VARIABLES
  chats,       \* rooms whose chat has been made
  chatMembers, \* chatMembers[r]: chat.members
  chatUsers,   \* chatUsers[n]: sockets in the channel chat.name + ":users"
  chatOwners   \* chatOwners[n]: sockets in the channel chat.name + ":owners"

chatVars == <<chats, chatMembers, chatUsers, chatOwners>>
chatsVars == <<vars, chatVars>>

ChatsInit ==
  /\ Init
  /\ chats = {}
  /\ chatMembers = [r \in Room |-> {}]
  /\ chatUsers = [n \in RoomNames |-> {}]
  /\ chatOwners = [n \in RoomNames |-> {}]

(* Mutant: owners listen with the others, too. *)
ListenTwice(s) ==
  LET n == target[s] IN
  /\ chatUsers' = [chatUsers EXCEPT ![n] = @ \cup {s}]
  /\ chatOwners' = IF s \in owner' THEN [chatOwners EXCEPT ![n] = @ \cup {s}] ELSE chatOwners

(* The part of chat.join and chat.mirrorJoin that the sockets feel.        *)
Listen(s) ==
  LET n == target[s] IN
  IF s \in owner'
  THEN chatOwners' = [chatOwners EXCEPT ![n] = @ \cup {s}] /\ UNCHANGED chatUsers
  ELSE chatUsers' = [chatUsers EXCEPT ![n] = @ \cup {s}] /\ UNCHANGED chatOwners

isMember(r, u) == u \in UsersOf(chatMembers[r])

(* The user of s, who joins the room r, is in it and in its chat already.  *)
mirrors(s, r) == user[s] \in UsersOf(members[r]) /\ isMember(r, user[s])

(* mirrorJoinChats                                                         *)
OnFindChats(s) ==
  /\ OnFind(s)
  /\ IF mirrors(s, currentRoom'[s])
     THEN Listen(s)
     ELSE UNCHANGED <<chatUsers, chatOwners>>
  /\ UNCHANGED <<chats, chatMembers>>

(* Mutant: who leaves a room stays in its chat. *)
CloseChannels(s, R) ==
  /\ chatUsers' = [n \in RoomNames |-> chatUsers[n] \ {s}]
  /\ chatOwners' = [n \in RoomNames |-> chatOwners[n] \ {s}]
  /\ UNCHANGED <<chats, chatMembers>>

(* A socket that closes is in no channel any more.  A user who leaves a    *)
(* room of R with his last socket leaves its chat.                         *)
CloseChats(s, R) ==
  /\ chatMembers' = [r \in Room |->
       IF r \in R /\ Goes(r, s) /\ user[s] \in UsersOf(members[r])
       THEN {m \in chatMembers[r] : user[m] # user[s]} ELSE chatMembers[r]]
  /\ chatUsers' = [n \in RoomNames |-> chatUsers[n] \ {s}]
  /\ chatOwners' = [n \in RoomNames |-> chatOwners[n] \ {s}]
  /\ UNCHANGED chats

LeaveChats(s) == Leave(s) /\ CloseChats(s, openRooms)

DisconnectChats(s) ==
  Disconnect(s) /\ CloseChats(s, IF phase[s] = Joined THEN {currentRoom[s]} ELSE {})

(* joinChat and chat.join: the first to join makes the chat, and only the  *)
(* first socket of a user becomes a member.                                *)
joinChat(s) ==
  LET r == currentRoom[s] IN
  /\ s \in Present
  /\ chats' = chats \cup {r}
  /\ chatMembers' = IF isMember(r, user[s]) THEN chatMembers
                    ELSE [chatMembers EXCEPT ![r] = @ \cup {s}]
  /\ UNCHANGED vars
  /\ Listen(s)

(* leaveChat and chat.leave.  The socket leaves the channel chat.name, but *)
(* not the channels ":users" and ":owners" that messages are sent to.      *)
(* (Of a chat that was never made, room.js:122 throws.)                    *)
leaveChat(s) ==
  LET r == currentRoom[s] IN
  /\ s \in Present /\ r \in chats
  /\ chatMembers' = [chatMembers EXCEPT ![r] = {m \in @ : user[m] # user[s]}]
  /\ UNCHANGED <<vars, chats, chatUsers, chatOwners>>

(* closeChatForAll and chat.removeAllMembers: the same omission.           *)
closeChatForAll(s) ==
  LET r == currentRoom[s] IN
  /\ s \in Present /\ r \in chats
  /\ chatMembers' = [chatMembers EXCEPT ![r] = {}]
  /\ UNCHANGED <<vars, chats, chatUsers, chatOwners>>

ChatsNext ==
  \E s \in Sockets :
    \/ (Join(s) \/ LookupFails(s)) /\ UNCHANGED chatVars
    \/ OnFindChats(s)
    \/ LeaveChats(s)
    \/ DisconnectChats(s)
    \/ joinChat(s)
    \/ leaveChat(s)
    \/ closeChatForAll(s)

ChatsSpec == ChatsInit /\ [][ChatsNext]_chatsVars
------------------------------------------------------------------------------
ChatsTypeOK ==
  /\ TypeOK
  /\ chats \subseteq Room
  /\ chatMembers \in [Room -> SUBSET Sockets]
  /\ chatUsers \in [RoomNames -> SUBSET Sockets]
  /\ chatOwners \in [RoomNames -> SUBSET Sockets]

(* A chat lists users of its room only, each once: whoever left the room   *)
(* with his last tab is gone from the chat, whichever tab had joined it    *)
(* (room.js 130-140, 234-250; chat.js 75-106).                             *)
ChatMembersAreInRoom ==
  \A r \in Room :
    /\ UsersOf(chatMembers[r]) \subseteq UsersOf(members[r])
    /\ \A m, k \in chatMembers[r] : user[m] = user[k] => m = k

(* Nobody outside a lesson hears its chat, and who listens is in one of    *)
(* its two channels, so that no message comes twice.  A connected member   *)
(* always listens: of leaving the chat, joining it again from another tab  *)
(* and leaving the room, no order leaves a member deaf, or anybody         *)
(* listening who is gone (chat.js 48-58, 75-86, 128-155, 178-199).         *)
ChatStaysInRoom ==
  /\ \A n \in RoomNames :
       /\ chatUsers[n] \cup chatOwners[n] \subseteq channel[n]
       /\ chatUsers[n] \cap chatOwners[n] = {}
  /\ \A r \in Room :
       chatMembers[r] \cap connected \subseteq chatUsers[r[1]] \cup chatOwners[r[1]]
==============================================================================
