------------------------------- MODULE Classroom -------------------------------
(***************************************************************************)
(* What the clients in a lesson share beyond being there: the groups an    *)
(* instructor makes, the queue of questions (lib/sockets/room.js) and the  *)
(* backlog of the chat (lib/sockets/chat.js), composed with rooms and      *)
(* chats.  Nothing is asked for: a client is told all there is when it     *)
(* joins, and of every change after that, through the channels that it is  *)
(* in by then.                                                             *)
(*                                                                         *)
(* A client shows what it was last told, and its own messages.  A page     *)
(* that loses its connection goes on showing it, and may join again with   *)
(* another connection.  The order of questions and their repetition are    *)
(* left out.  What a client shows of messages that are in no backlog any   *)
(* more, or of a chat it has to join again, is left out, too.              *)
(***************************************************************************)
EXTENDS Chats, SequencesExt

CONSTANTS
  Groups,         \* ways to divide a lesson into groups
  Questions,      \* questions that may be asked
  Messages,       \* chat messages, each in one backlog at a time
  maxNumMessages  \* messages kept in a backlog

ASSUME ClassroomAssumption == maxNumMessages \in Nat \ {0}

NoGroups == "no groups"

VARIABLES
  groups,         \* groups[r]: room.groups
  questions,      \* questions[r]: those in room.questions
  messages,       \* messages[r]: chat.messages
  shownGroups,    \* shownGroups[s]: the groups the client of s shows
  shownQuestions, \* shownQuestions[s]: the questions it shows
  shownMessages,  \* shownMessages[s]: the messages of a backlog it shows
  oldGroups,      \* history: sockets whose page has shown groups since before
                  \* it reconnected: nothing was sent of groups since
  oldQuestions    \* history: the same of questions

boardVars == <<groups, questions, shownGroups, shownQuestions, oldGroups, oldQuestions>>
backlogVars == <<messages, shownMessages>>
classroomVars == <<chatsVars, boardVars, backlogVars>>

ClassroomInit ==
  /\ ChatsInit
  /\ groups = [r \in Room |-> NoGroups]
  /\ questions = [r \in Room |-> {}]
  /\ messages = [r \in Room |-> <<>>]
  /\ shownGroups = [s \in Sockets |-> NoGroups]
  /\ shownQuestions = [s \in Sockets |-> {}]
  /\ shownMessages = [s \in Sockets |-> {}]
  /\ oldGroups = {}
  /\ oldQuestions = {}

(* The clients an emit to a channel reaches: the sender is told apart.     *)
Told(s, listeners) == (listeners \cap connected) \cup {s}
------------------------------------------------------------------------------
(* Joining and leaving *)

(* Mutant: who joins is sent no groups. *)
WelcomeWithQuestions(s) ==
  LET r == currentRoom'[s] IN
  /\ shownQuestions' = [shownQuestions EXCEPT ![s] = questions[r]]
  /\ oldQuestions' = oldQuestions \ {s}
  /\ UNCHANGED <<shownGroups, oldGroups>>

(* sendGroups and sendQuestions, which tell of groups and questions there  *)
(* are, but not that there are none.                                       *)
Welcome(s) ==
  LET r == currentRoom'[s] IN
  /\ IF groups[r] = NoGroups THEN UNCHANGED <<shownGroups, oldGroups>>
     ELSE /\ shownGroups' = [shownGroups EXCEPT ![s] = groups[r]]
          /\ oldGroups' = oldGroups \ {s}
  /\ IF questions[r] = {} THEN UNCHANGED <<shownQuestions, oldQuestions>>
     ELSE /\ shownQuestions' = [shownQuestions EXCEPT ![s] = questions[r]]
          /\ oldQuestions' = oldQuestions \ {s}

(* Mutant: another tab of a member is not sent the backlog. *)
NoHistory(s) == UNCHANGED shownMessages

(* 'chat_history', sent to each tab that joins the chat.                   *)
SendHistory(s) ==
  shownMessages' = [shownMessages EXCEPT ![s] = ToSet(messages[currentRoom'[s]])]

OnFindClassroom(s) ==
  /\ OnFindChats(s)
  /\ IF s \in connected
     THEN /\ Welcome(s)
          /\ IF mirrors(s, currentRoom'[s])
             THEN SendHistory(s) ELSE UNCHANGED shownMessages
     ELSE UNCHANGED <<shownGroups, shownQuestions, oldGroups, oldQuestions, shownMessages>>
  /\ UNCHANGED <<groups, questions, messages>>

joinChatClassroom(s) ==
  /\ joinChat(s)
  /\ SendHistory(s)
  /\ UNCHANGED <<boardVars, messages>>

(* What a room kept goes with the room.  A room that the last member left  *)
(* by losing the connection is still open, and keeps it for whoever joins  *)
(* next.                                                                   *)
CloseRooms ==
  LET Kept(of, none) == [r \in Room |-> IF r \in openRooms' THEN of[r] ELSE none] IN
  /\ groups' = Kept(groups, NoGroups)
  /\ questions' = Kept(questions, {})
  /\ messages' = Kept(messages, <<>>)

(* The page of the closed socket s is closed, too, or goes on with a new   *)
(* connection t of its user.                                               *)
ClosePage(s) ==
  /\ shownGroups' = [shownGroups EXCEPT ![s] = NoGroups]
  /\ shownQuestions' = [shownQuestions EXCEPT ![s] = {}]
  /\ oldGroups' = oldGroups \ {s}
  /\ oldQuestions' = oldQuestions \ {s}

Reconnect(s, t) ==
  /\ t \in connected' /\ phase[t] = New /\ t \notin oldGroups
  /\ user[t] = user[s] /\ target[t] = target[s]
  /\ shownGroups[s] # NoGroups \/ shownQuestions[s] # {}
  /\ shownGroups' = [shownGroups EXCEPT ![s] = NoGroups, ![t] = shownGroups[s]]
  /\ shownQuestions' = [shownQuestions EXCEPT ![s] = {}, ![t] = shownQuestions[s]]
  /\ oldGroups' = (oldGroups \ {s}) \cup {t}
  /\ oldQuestions' = (oldQuestions \ {s}) \cup {t}

CloseClient(s) ==
  /\ CloseRooms
  /\ ClosePage(s) \/ \E t \in Sockets : Reconnect(s, t)
  /\ shownMessages' = [shownMessages EXCEPT ![s] = {}]
------------------------------------------------------------------------------
(* Groups *)

SetGroups(s, g) ==
  /\ s \in Present /\ s \in owner
  /\ groups' = [groups EXCEPT ![currentRoom[s]] = g]
  /\ shownGroups' = [t \in Sockets |-> IF t \in Told(s, channel[target[s]]) THEN g
                                       ELSE shownGroups[t]]
  /\ oldGroups' = oldGroups \ Told(s, channel[target[s]])
  /\ UNCHANGED <<chatsVars, questions, shownQuestions, oldQuestions, backlogVars>>

createGroups(s, g) == SetGroups(s, g)
deleteGroups(s) == SetGroups(s, NoGroups)

(* Questions *)

(* The whole queue is sent each time.                                      *)
SetQuestions(s, Q) ==
  /\ s \in Present
  /\ questions' = [questions EXCEPT ![currentRoom[s]] = Q]
  /\ shownQuestions' = [t \in Sockets |-> IF t \in Told(s, channel[target[s]]) THEN Q
                                          ELSE shownQuestions[t]]
  /\ oldQuestions' = oldQuestions \ Told(s, channel[target[s]])
  /\ UNCHANGED <<chatsVars, groups, shownGroups, oldGroups, backlogVars>>

addQuestion(s, q) == SetQuestions(s, questions[currentRoom[s]] \cup {q})
removeQuestion(s, q) == SetQuestions(s, questions[currentRoom[s]] \ {q})

(* Messages *)

(* addMessage: the oldest message makes room.                              *)
WithMessage(backlog, m) ==
  Append(IF Len(backlog) >= maxNumMessages THEN Tail(backlog) ELSE backlog, m)

(* Whoever is in the room may send, member of the chat or not.             *)
chatMessage(s, m) ==
  LET r == currentRoom[s]
      n == target[s]
      told == Told(s, chatUsers[n] \cup chatOwners[n])
  IN /\ s \in Present /\ r \in chats
     /\ \A q \in Room : m \notin ToSet(messages[q])
     /\ messages' = [messages EXCEPT ![r] = WithMessage(@, m)]
     /\ shownMessages' = [t \in Sockets |->
          (IF t \in told THEN shownMessages[t] \cup {m} ELSE shownMessages[t])
            \cap UNION {ToSet(messages'[q]) : q \in Room}]
     /\ UNCHANGED <<chatsVars, boardVars>>

(* cleanMessages                                                           *)
closeChatClassroom(s) ==
  /\ closeChatForAll(s)
  /\ messages' = [messages EXCEPT ![currentRoom[s]] = <<>>]
  /\ shownMessages' = [t \in Sockets |-> shownMessages[t] \ ToSet(messages[currentRoom[s]])]
  /\ UNCHANGED boardVars

ClassroomNext ==
  \E s \in Sockets :
    \/ (Join(s) \/ LookupFails(s)) /\ UNCHANGED <<chatVars, boardVars, backlogVars>>
    \/ OnFindClassroom(s)
    \/ (LeaveChats(s) \/ DisconnectChats(s)) /\ CloseClient(s)
    \/ joinChatClassroom(s)
    \/ leaveChat(s) /\ UNCHANGED <<boardVars, backlogVars>>
    \/ closeChatClassroom(s)
    \/ deleteGroups(s)
    \/ \E g \in Groups : createGroups(s, g)
    \/ \E q \in Questions : addQuestion(s, q) \/ removeQuestion(s, q)
    \/ \E m \in Messages : chatMessage(s, m)

ClassroomSpec == ClassroomInit /\ [][ClassroomNext]_classroomVars
------------------------------------------------------------------------------
ClassroomTypeOK ==
  /\ ChatsTypeOK
  /\ groups \in [Room -> Groups \cup {NoGroups}]
  /\ questions \in [Room -> SUBSET Questions]
  /\ DOMAIN messages = Room
  /\ \A r \in Room :
       ToSet(messages[r]) \subseteq Messages /\ Len(messages[r]) <= maxNumMessages
  /\ shownGroups \in [Sockets -> Groups \cup {NoGroups}]
  /\ shownQuestions \in [Sockets -> SUBSET Questions]
  /\ shownMessages \in [Sockets -> SUBSET Messages]
  /\ oldGroups \subseteq Sockets /\ oldQuestions \subseteq Sockets

(* Every client in a lesson shows its groups and its open questions,       *)
(* whenever it came and whatever rooms of the lesson there were before.    *)
(* Since a client is never told that there are none, a page that           *)
(* reconnects may go on showing those of before, but only if there are     *)
(* none, and only until the next change                                    *)
(* (room.js 184-190, 207-227, 269-341).                                    *)
ClientsAgree ==
  \A s \in Present :
    LET r == currentRoom[s] IN
    /\ shownGroups[s] = groups[r] \/ (groups[r] = NoGroups /\ s \in oldGroups)
    /\ shownQuestions[s] = questions[r] \/ (questions[r] = {} /\ s \in oldQuestions)

(* A client that hears the chat has the whole backlog, however it joined:  *)
(* nothing is sent between the history and the channel, and no tab of a    *)
(* member goes without (chat.js 48-106, 178-211; room.js 160-169).         *)
ListenersHaveBacklog ==
  \A s \in Present :
    s \in chatUsers[target[s]] \cup chatOwners[target[s]] =>
      ToSet(messages[currentRoom[s]]) \subseteq shownMessages[s]
==============================================================================
