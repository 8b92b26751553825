------------------------------ MODULE Scheduler ------------------------------
(***************************************************************************)
(* Scheduled events: the collection of events, the scheduler that triggers *)
(* those that are due every minute (lib/scheduler.js), the requests of     *)
(* lib/events.js, the initial event of lib/create_events.js, and the mails *)
(* of lib/utils/send_cohort_invitations.js.                                *)
(*                                                                         *)
(* checkEvents does not wait for its previous call, so calls overlap when  *)
(* one takes longer than a minute.  A call holds the documents it has read *)
(* in its queue; the save that marks an event as done is not awaited, and  *)
(* the saves before it are: a call may be cut off between the two.         *)
(* Events that lock and unlock a lesson are triggered in LessonLocks.      *)
(***************************************************************************)
EXTENDS Naturals, FiniteSets

CONSTANTS
  Events,    \* identities of events (bounds the events of a run)
  Calls,     \* calls of checkEvents and triggerEvent that can be in progress
  None,      \* null
  MaxCrashes \* bound on the number of restarts of the process

ASSUME SchedulerAssumption == None \notin Events /\ MaxCrashes \in Nat

VARIABLES
  event,    \* event[e]: the document e of the collection of events
  saving,   \* events whose save with done = true is under way
  call,     \* call[c]: what the call c has in hand
  users,    \* is there a user?
  setup,    \* has create_events still to run?
  lapsed,   \* history: a statistics event was triggered without any user
  removed,  \* history: an administrator has deleted a statistics event
  repeated, \* history: an event was taken up that a call had taken up before
  mailed,   \* history: events that were mailed
  twice,    \* history: events that were mailed again
  cut,      \* history: events left open by a call that had carried them out
  crashes   \* history: number of restarts

eventVars == <<event, saving>>
historyVars == <<lapsed, removed, repeated, mailed, twice, cut>>
schedulerVars == <<eventVars, call, users, setup, historyVars, crashes>>

Statistics == "overview_statistics"
Mail == "send_email"
Lock == "lock_lesson"
Unlock == "unlock_lesson"
Types == {Statistics, Mail, Lock, Unlock}

Absent == "absent"
Open == "open"       \* done = false
Done == "done"
Deleted == "deleted"

EventDoc == [type : Types, state : {Absent, Open, Done, Deleted}, due : BOOLEAN]

(* queue: events read and not yet triggered; event: the one that waits for *)
(* a document to be saved; saved: it is, but the call does not know yet.   *)
Call == [queue : SUBSET Events, event : Events \cup {None}, saved : BOOLEAN]

NoEvent == [type |-> Mail, state |-> Absent, due |-> FALSE]
NoCall == [queue |-> {}, event |-> None, saved |-> FALSE]

SchedulerInit ==
  /\ event = [e \in Events |-> NoEvent]
  /\ saving = {}
  /\ call = [c \in Calls |-> NoCall]
  /\ users = FALSE
  /\ setup = TRUE
  /\ lapsed = FALSE /\ removed = FALSE /\ repeated = FALSE
  /\ mailed = {} /\ twice = {} /\ cut = {}
  /\ crashes = 0

(* What is left for the call c when it is through with e.                  *)
Without(c, e) == [queue |-> call[c].queue \ {e}, event |-> None, saved |-> FALSE]

InHand(c) == call[c].queue \cup {call[c].event}
Free(c) == call[c].queue = {} /\ call[c].event = None

(* The events that were carried out and are still to be marked as done, by *)
(* the calls of C.                                                         *)
CarriedOut(C) == {call[c].event : c \in {x \in C : call[x].saved}}

(* Events that were carried out although the database has them open yet.   *)
Spent == saving \cup CarriedOut(Calls) \cup cut

(* Events a call must not take up once more: some call has them in hand,   *)
(* or they were triggered already.                                         *)
Taken == (UNION {InHand(c) : c \in Calls}) \cup saving \cup cut
           \cup {e \in Events : event[e].state = Done}

NewEvent(e, type, due) ==
  /\ event[e].state = Absent
  /\ event' = [event EXCEPT ![e] = [type |-> type, state |-> Open, due |-> due]]
------------------------------------------------------------------------------
(* Where events come from and how they go *)

(* The count of create_events.js, once at every start of the process.      *)
CreateEvents ==
  /\ setup
  /\ setup' = FALSE
  /\ IF \E e \in Events : event[e].type = Statistics /\ event[e].state \in {Open, Done}
     THEN UNCHANGED event
     ELSE \E e \in Events : NewEvent(e, Statistics, TRUE)
  /\ UNCHANGED <<saving, call, users, historyVars, crashes>>

(* An invitation to a cohort is to be mailed later.                        *)
ScheduleMail(e) ==
  /\ NewEvent(e, Mail, FALSE)
  /\ UNCHANGED <<saving, call, users, setup, historyVars, crashes>>

TimePasses(e) ==
  /\ event[e].state = Open /\ ~event[e].due
  /\ event' = [event EXCEPT ![e].due = TRUE]
  /\ UNCHANGED <<saving, call, users, setup, historyVars, crashes>>

FirstUser ==
  /\ ~users
  /\ users' = TRUE
  /\ UNCHANGED <<eventVars, call, setup, historyVars, crashes>>

DeleteEvent(e) ==
  /\ event[e].state \in {Open, Done}
  /\ event' = [event EXCEPT ![e].state = Deleted]
  /\ removed' = (removed \/ event[e].type = Statistics)
  /\ UNCHANGED <<saving, call, users, setup, lapsed, repeated, mailed, twice, cut, crashes>>
------------------------------------------------------------------------------
(* Triggering *)

TakeUp(c, E) ==
  /\ Free(c) /\ E # {}
  /\ call' = [call EXCEPT ![c].queue = E]
  /\ repeated' = (repeated \/ E \cap Taken # {})
  /\ UNCHANGED <<eventVars, users, setup, lapsed, removed, mailed, twice, cut, crashes>>

(* The minute is over: the events that are due and not done are read.      *)
CheckEvents(c) == TakeUp(c, {e \in Events : event[e].state = Open /\ event[e].due})

(* An administrator triggers an event; whether it is done is not asked.    *)
TriggerEvent(c, e) == event[e].state \in {Open, Done} /\ TakeUp(c, {e})

(* Mutant: done is not saved. *)
FinishUnsaved(c, e) ==
  /\ call' = [call EXCEPT ![c] = Without(c, e)]
  /\ UNCHANGED saving

(* The end of triggerEvent: done is set, the save started, and the loop    *)
(* goes on.                                                                *)
Finish(c, e) ==
  /\ saving' = saving \cup {e}
  /\ call' = [call EXCEPT ![c] = Without(c, e)]

(* The save that was started reaches the database, where the event may     *)
(* have been deleted, or it fails.                                         *)
SaveDone(e) ==
  /\ e \in saving
  /\ saving' = saving \ {e}
  /\ event' = IF event[e].state = Deleted THEN event ELSE [event EXCEPT ![e].state = Done]
  /\ UNCHANGED <<call, users, setup, historyVars, crashes>>

SaveDoneFails(e) ==
  /\ e \in saving
  /\ saving' = saving \ {e}
  /\ repeated' = TRUE
  /\ UNCHANGED <<event, call, users, setup, lapsed, removed, mailed, twice, cut, crashes>>

TriggerMail(c, e) ==
  /\ call[c].event = None /\ e \in call[c].queue /\ event[e].type = Mail
  /\ mailed' = mailed \cup {e}
  /\ twice' = IF e \in mailed THEN twice \cup {e} ELSE twice
  /\ Finish(c, e)
  /\ UNCHANGED <<event, users, setup, lapsed, removed, repeated, cut, crashes>>

(* The statistics are computed.  Without users there is nothing to sum up, *)
(* and no event is scheduled for the next day.                             *)
TriggerStatistics(c, e) ==
  /\ call[c].event = None /\ e \in call[c].queue /\ event[e].type = Statistics
  /\ IF users
     THEN /\ call' = [call EXCEPT ![c].event = e]
          /\ UNCHANGED <<saving, lapsed>>
     ELSE /\ Finish(c, e)
          /\ lapsed' = TRUE
  /\ UNCHANGED <<event, users, setup, removed, repeated, mailed, twice, cut, crashes>>

(* Mutant: done is set before the event for the next day is saved. *)
SaveNextStatisticsLate(c) ==
  LET e == call[c].event IN
  /\ e # None /\ event[e].type = Statistics /\ ~call[c].saved
  /\ IF e \in saving
     THEN /\ \E next \in Events : NewEvent(next, Statistics, FALSE)
          /\ call' = [call EXCEPT ![c].saved = TRUE]
          /\ UNCHANGED saving
     ELSE /\ saving' = saving \cup {e}
          /\ UNCHANGED <<event, call>>
  /\ UNCHANGED <<users, setup, historyVars, crashes>>

(* They have been stored, and the event for the next day is ...            *)
SaveNextStatistics(c) ==
  LET e == call[c].event IN
  /\ e # None /\ event[e].type = Statistics /\ ~call[c].saved
  /\ \E next \in Events : NewEvent(next, Statistics, FALSE)
  /\ call' = [call EXCEPT ![c].saved = TRUE]
  /\ UNCHANGED <<saving, users, setup, historyVars, crashes>>

(* ... and the call is told of it.                                         *)
FinishSaved(c) ==
  /\ call[c].saved
  /\ Finish(c, call[c].event)
  /\ UNCHANGED <<event, users, setup, historyVars, crashes>>

(* A query fails, or its answer is lost: triggerEvent throws, and the loop *)
(* ends.                                                                   *)
CallFails(c) ==
  /\ ~Free(c)
  /\ call' = [call EXCEPT ![c] = NoCall]
  /\ cut' = cut \cup CarriedOut({c})
  /\ UNCHANGED <<eventVars, users, setup, lapsed, removed, repeated, mailed, twice, crashes>>

(* The process dies and is started again.                                  *)
Crash ==
  /\ crashes < MaxCrashes
  /\ crashes' = crashes + 1
  /\ call' = [c \in Calls |-> NoCall]
  /\ saving' = {}
  /\ setup' = TRUE
  /\ cut' = cut \cup CarriedOut(Calls)
  /\ repeated' = (repeated \/ saving # {})
  /\ UNCHANGED <<event, users, lapsed, removed, mailed, twice>>

(* Steps of a call, apart from taking up events.                           *)
CallStep(c) ==
  \/ \E e \in Events : TriggerMail(c, e) \/ TriggerStatistics(c, e)
  \/ SaveNextStatistics(c)
  \/ FinishSaved(c)
  \/ CallFails(c)

SchedulerNext ==
  \/ CreateEvents
  \/ FirstUser
  \/ \E e \in Events :
       ScheduleMail(e) \/ TimePasses(e) \/ DeleteEvent(e) \/ SaveDone(e) \/ SaveDoneFails(e)
  \/ \E c \in Calls :
       \/ CheckEvents(c)
       \/ \E e \in Events : TriggerEvent(c, e)
       \/ CallStep(c)
  \/ Crash

SchedulerSpec == SchedulerInit /\ [][SchedulerNext]_schedulerVars
------------------------------------------------------------------------------
SchedulerTypeOK ==
  /\ event \in [Events -> EventDoc]
  /\ saving \subseteq Events
  /\ call \in [Calls -> Call]
  /\ {users, setup, lapsed, removed, repeated} \subseteq BOOLEAN
  /\ mailed \subseteq Events /\ twice \subseteq Events /\ cut \subseteq Events
  /\ crashes \in 0 .. MaxCrashes

Pending(type) == {e \in Events : event[e].type = type /\ event[e].state = Open}

(* Once started, the daily statistics go on, through overlapping calls,    *)
(* failing queries, failing saves and restarts - unless an administrator   *)
(* has deleted their event or it was triggered before there was a user     *)
(* (create_events.js, scheduler.js 82-170).                                *)
StatisticsGoOn == setup \/ removed \/ lapsed \/ Pending(Statistics) # {}

(* There is one chain of statistics events (as long as none was deleted),  *)
(* and no mail is sent twice, unless an event was taken up twice.  A call  *)
(* that is cut off between the save of the next event and that of its own  *)
(* leaves its own open beside the chain (`cut`): nothing but taking it up  *)
(* again makes a second one (scheduler.js 48-192, events.js).              *)
TriggeredOnce ==
  repeated \/ /\ twice = {}
              /\ removed \/ Cardinality(Pending(Statistics) \ Spent) <= 1
==============================================================================
