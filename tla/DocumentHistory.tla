--------------------------- MODULE DocumentHistory ---------------------------
(***************************************************************************)
(* The edit history of one collaborative document: the versions, steps and *)
(* comment events of class Instance (lib/sockets/document/instance.js),    *)
(* what is left of them when a copy that was saved is loaded again, and    *)
(* what getEvents answers to a client that polls.                          *)
(*                                                                         *)
(* Steps are numbered by the version they lead to.  A stored step may      *)
(* stand for several of them, because mergeSteps joins neighbouring steps  *)
(* of a client.  Which copy is loaded is left open: updates may fail or    *)
(* overtake one another, and the process may die (see DocumentStore).  A   *)
(* client that polls may hold any version the document had since it was    *)
(* loaded, so polls are evaluated for all of them in every state.          *)
(***************************************************************************)
EXTENDS Integers, FiniteSets, SequencesExt

CONSTANTS
  Clients,     \* client ids (data.clientID)
  CommentIds,  \* identities of comments (bounds the comments of a run)
  MaxSteps,    \* MAX_STEP_HISTORY
  MaxVersion,  \* bound on the version of the document
  MaxBatch,    \* bound on the steps of one message
  MaxEvents,   \* bound on the comment events between two loads
  MaxSaves,    \* bound on the copies of the document that are saved
  MaxReloads   \* bound on the number of times the document is loaded again

ASSUME HistoryAssumption ==
  /\ MaxSteps \in Nat \ {0}
  /\ {MaxVersion, MaxBatch, MaxEvents, MaxSaves, MaxReloads} \subseteq Nat

VARIABLES
  version,        \* instance.version
  steps,          \* instance.steps
  comments,       \* instance.comments.comments, by identity
  events,         \* instance.comments.events
  commentVersion, \* instance.comments.version
  saves,          \* the copies of the document that were sent to the database
  author,         \* history: author[i] is the client of step i
  known,          \* history: the comments ever created, in that order
  lost,           \* history: comments gone since the load without an event of theirs
  loadedAt,       \* history: version at which the document was last loaded
  reloads         \* history: number of reloads

docVars == <<version, steps, author>>
commentVars == <<comments, events, commentVersion, known, lost>>
instanceVars == <<docVars, commentVars, saves, loadedAt, reloads>>

(* A stored step: the steps first .. last of one client.                   *)
Step(c, i, j) == [client |-> c, first |-> i, last |-> j]
Event(t, id) == [type |-> t, id |-> id]

(* The numbers of the steps a sequence of stored steps stands for.         *)
Numbers(s) == UNION {s[i].first .. s[i].last : i \in DOMAIN s}

(* What updateOne sends of the document, as far as it is modelled.         *)
Copy(v, s, cs, a) == [version |-> v, steps |-> s, comments |-> cs, author |-> a]

(* No document is found: a new instance is made.                           *)
Unsaved == Copy(0, <<>>, {}, <<>>)

HistoryInit ==
  /\ version = 0 /\ steps = <<>> /\ author = <<>>
  /\ comments = {} /\ events = <<>> /\ commentVersion = 0
  /\ known = <<>> /\ lost = {}
  /\ saves = {}
  /\ loadedAt = 0
  /\ reloads = 0
------------------------------------------------------------------------------
(* comments.js *)

(* The comment at index 0: comments are listed in the order they came.     *)
first(cs) == known[SelectInSeq(known, LAMBDA id : id \in cs)]

(* `found` is never null: splice( undefined, 1 ) removes the first comment.*)
deleted(cs, id) == IF cs = {} THEN cs ELSE cs \ {IF id \in cs THEN id ELSE first(cs)}

(* The comment event of a message, or none, when cs are the comments that  *)
(* its steps have left.  Ids of new comments are fresh; a client may       *)
(* delete any comment it has ever been shown.                              *)
CommentEvent(cs) ==
  \/ /\ comments' = cs /\ lost' = lost \cup (comments \ cs)
     /\ UNCHANGED <<events, commentVersion, known>>
  \/ /\ Len(events) < MaxEvents
     /\ commentVersion' = commentVersion + 1
     /\ \E id \in CommentIds :
          \/ /\ id \notin ToSet(known)
             /\ comments' = cs \cup {id}
             /\ events' = Append(events, Event("create", id))
             /\ known' = Append(known, id)
             /\ lost' = lost \cup (comments \ cs)
          \/ /\ id \in ToSet(known)
             /\ comments' = deleted(cs, id)
             /\ events' = Append(events, Event("delete", id))
             /\ lost' = lost \cup (comments \ (comments' \cup {id}))
             /\ UNCHANGED known

------------------------------------------------------------------------------
(* instance.js *)

(* slice( start ) of a JavaScript array                                    *)
Slice(s, start) ==
  LET from == IF start >= 0 THEN start
              ELSE IF Len(s) + start >= 0 THEN Len(s) + start ELSE 0
  IN SubSeq(s, from + 1, Len(s))

Trimmed(s) == IF Len(s) > MaxSteps THEN Slice(s, Len(s) - MaxSteps) ELSE s

(* addEvents: a message with n steps (none when only comments change) is   *)
(* accepted, whatever version it was made for.  Steps may delete the text  *)
(* that comments are attached to, which drops those without an event.  A   *)
(* message with a step that does not apply changes nothing.                *)
addSteps(c, n) ==
  /\ version + n <= MaxVersion
  /\ version' = version + n
  /\ steps' = Trimmed(steps \o
                [i \in 1 .. n |-> Step(c, version + i, version + i)])
  /\ author' = author \o [i \in 1 .. n |-> c]
  /\ \E gone \in SUBSET comments : (n = 0 => gone = {}) /\ CommentEvent(comments \ gone)
  /\ UNCHANGED <<saves, loadedAt, reloads>>

(* Where the runs of neighbouring steps that become one step end, in order *)
Ends(s) ==
  {ends \in UNION {[1 .. n -> 1 .. Len(s)] : n \in 1 .. Len(s)} :
     /\ ends[Len(ends)] = Len(s)
     /\ \A i, j \in DOMAIN ends : i < j => ends[i] < ends[j]}

(* Mutant: steps are joined whoever made them. *)
CutsAnywhere(s) == Ends(s)

(* What mergeSteps may return for s: neighbouring steps of a client are    *)
(* joined where ProseMirror can join them.  The loop that collects the     *)
(* result starts at the second step, so a single step is not collected.    *)
Cuts(s) == {ends \in Ends(s) :
              \A i \in 1 .. Len(s) - 1 : s[i].client # s[i + 1].client => i \in Range(ends)}

MergedAt(s, ends) ==
  LET start(i) == IF i = 1 THEN 1 ELSE ends[i - 1] + 1
  IN [i \in DOMAIN ends |->
        Step(s[start(i)].client, s[start(i)].first, s[ends[i]].last)]

mergeSteps(s) ==
  IF Len(s) <= 1 THEN {<<>>} ELSE {MergedAt(s, ends) : ends \in Cuts(s)}

(* saveToDatabase: the document as it is now is sent to the database.  Its *)
(* comment events, their version and the cursors are not.                  *)
Save ==
  /\ Cardinality(saves) < MaxSaves
  /\ \E merged \in mergeSteps(steps) :
       saves' = saves \cup {Copy(version, merged, comments, author)}
  /\ UNCHANGED <<docVars, commentVars, loadedAt, reloads>>

(* Mutant: the comment version survives, its events do not. *)
ReloadKeepsVersion ==
  /\ reloads < MaxReloads
  /\ reloads' = reloads + 1
  /\ \E copy \in saves \cup {Unsaved} :
       /\ version' = copy.version /\ steps' = copy.steps /\ author' = copy.author
       /\ comments' = copy.comments
       /\ loadedAt' = copy.version
  /\ events' = <<>> /\ lost' = {}
  /\ UNCHANGED <<commentVersion, known, saves>>

(* getInstance for a document that was evicted, or after a restart: the    *)
(* database has the copy of the last update that reached it, or none.      *)
Reload ==
  /\ reloads < MaxReloads
  /\ reloads' = reloads + 1
  /\ \E copy \in saves \cup {Unsaved} :
       /\ version' = copy.version /\ steps' = copy.steps /\ author' = copy.author
       /\ comments' = copy.comments
       /\ loadedAt' = copy.version
  /\ events' = <<>> /\ commentVersion' = 0 /\ lost' = {}
  /\ UNCHANGED <<known, saves>>

HistoryNext ==
  \/ \E c \in Clients, n \in 0 .. MaxBatch : addSteps(c, n)
  \/ Save
  \/ Reload

HistorySpec == HistoryInit /\ [][HistoryNext]_instanceVars

(* Mutant: off by one. *)
startIndexEarly(v) == Len(steps) - (version - v) - 1

startIndex(v) == Len(steps) - (version - v)
commentStartIndex(cv) == Len(events) - (commentVersion - cv)

EventsFrom(start) == SubSeq(events, start + 1, Len(events))

(* eventsAfter throws where there is no event, and where it looks up the   *)
(* comment of a creation that is gone: `found` is undefined, but not null. *)
throws(start) ==
  \/ start < 0
  \/ \E e \in ToSet(EventsFrom(start)) : e.type = "create" /\ e.id \notin comments

Answer(kind, s, es) == [answer |-> kind, steps |-> s, comment |-> es]

(* getEvents for a client that holds version v and comment version cv: the *)
(* history is reported as unavailable (`false`), the events are returned,  *)
(* or an error is thrown and the client gets no answer.  (The code also    *)
(* asks for the cursors to be current before it returns `false`; without   *)
(* that it does so more often.)                                            *)
getEvents(v, cv) ==
  IF v > version \/ (startIndex(v) < 0 /\ commentStartIndex(cv) < 0)
  THEN Answer("unavailable", <<>>, <<>>)
  ELSE IF throws(commentStartIndex(cv)) THEN Answer("none", <<>>, <<>>)
  ELSE Answer("events", Slice(steps, startIndex(v)), EventsFrom(commentStartIndex(cv)))
------------------------------------------------------------------------------
HistoryTypeOK ==
  /\ version \in 0 .. MaxVersion
  /\ steps \in Seq([client : Clients, first : 1 .. version, last : 1 .. version])
  /\ known \in Seq(CommentIds)
  /\ comments \subseteq ToSet(known) /\ lost \subseteq ToSet(known)
  /\ Cardinality(saves) <= MaxSaves
  /\ events \in Seq([type : {"create", "delete"}, id : CommentIds])
  /\ commentVersion \in 0 .. MaxEvents
  /\ author \in Seq(Clients)
  /\ loadedAt \in 0 .. version
  /\ reloads \in 0 .. MaxReloads

(* Through trimming, merging, saving and loading, the kept steps remain    *)
(* the last ones of the document, in order and without a gap, each under   *)
(* the name of the client that made it, and they are never more than       *)
(* MAX_STEP_HISTORY (instance.js 65-88, 163-168, 293).                     *)
HistoryIsTail ==
  /\ Len(author) = version
  /\ Len(steps) <= MaxSteps
  /\ steps # <<>> => steps[Len(steps)].last = version
  /\ \A i \in 1 .. Len(steps) - 1 : steps[i].last + 1 = steps[i + 1].first
  /\ \A i \in DOMAIN steps : \A k \in steps[i].first .. steps[i].last :
       author[k] = steps[i].client

(* Whatever was loaded and deleted, a client that holds a comment version  *)
(* of this load is sent the events it lacks and no others - or no answer   *)
(* at all, exactly when one of them is the creation of a comment that is   *)
(* gone: by its own deletion, with the text it was on, or instead of       *)
(* another that was deleted twice (comments.js 90-118).  A consequence the *)
(* code does not seem to intend: commentStartIndex is never negative, so   *)
(* getEvents never reports a lost history (instance.js 209-217).           *)
CommentEventsAligned ==
  /\ Len(events) = commentVersion
  /\ \A cv \in 0 .. commentVersion :
       LET lacking == SubSeq(events, cv + 1, commentVersion)
           poll == getEvents(version, cv)
       IN IF \E e \in ToSet(lacking) :
               e.type = "create" /\ (e.id \in lost \/ Event("delete", e.id) \in ToSet(events))
          THEN poll.answer = "none"
          ELSE poll.answer = "events" /\ poll.comment = lacking

(* A poll by a client whose version lies within this load, and within the  *)
(* history limit, is never told that the history is lost; and if it is     *)
(* answered, then with exactly the steps the client lacks, whichever copy  *)
(* was loaded and however the steps before it were merged (instance.js     *)
(* 205-225).  Older clients may be sent others: a negative startIndex      *)
(* counts from the end of the steps.                                       *)
RecentPollIsExact ==
  \A v \in loadedAt .. version, cv \in 0 .. commentVersion :
    version - v <= MaxSteps =>
      LET poll == getEvents(v, cv) IN
      /\ poll.answer # "unavailable"
      /\ poll.answer = "events" => Numbers(poll.steps) = v + 1 .. version
==============================================================================
