----------------------------- MODULE LessonLocks -----------------------------
(***************************************************************************)
(* The locks of a lesson: "lock until" and "lock after", which an          *)
(* instructor sets with update_lesson (lib/lessons.js) and the scheduler   *)
(* carries out.  update_lesson reads the lesson with its two events, marks *)
(* events that no longer hold as done, creates new ones and saves the      *)
(* lesson, waiting for the database at each of these steps.  One lesson is *)
(* modelled: events of different lessons do not touch each other, and the  *)
(* events that module Scheduler triggers itself touch none.                *)
(***************************************************************************)
EXTENDS Scheduler, Sequences

CONSTANTS
  Updates,     \* requests of update_lesson that can be in progress at once
  MaxDeletions \* bound on the number of events that are deleted

ASSUME LocksAssumption == MaxDeletions \in Nat

VARIABLES
  lesson, \* the document of the lesson
  change, \* change[c]: the fields that the save of the call c will write
  update, \* update[u]: what the request u has still to do
  raced,  \* history: two have worked on the same lock at once, or one in part
  opened  \* history: an instructor has activated the lesson

lessonVars == <<lesson, change>>
locksVars == <<schedulerVars, lessonVars, update, raced, opened>>

Lesson == [exists : BOOLEAN, active : BOOLEAN,
           lockUntil : Events \cup {None}, lockAfter : Events \cup {None}]
Changes == UNION {[F -> BOOLEAN \cup Events \cup {None}] :
                    F \in SUBSET {"active", "lockUntil", "lockAfter"}}
NewLesson == [exists |-> TRUE, active |-> TRUE, lockUntil |-> None, lockAfter |-> None]

Fields == {"lockUntil", "lockAfter"}
TypeOf(field) == IF field = "lockUntil" THEN Unlock ELSE Lock

(* The steps of update_lesson that wait for the database.                  *)
MarkDone(field, e) == [step |-> "done", field |-> field, event |-> e]
Create(field) == [step |-> "create", field |-> field, event |-> None]
Save == [step |-> "save", field |-> "lockUntil", event |-> None]

(* todo: the steps ahead; fields: the locks the request changes; active:   *)
(* the lesson was active when it was read; set: what the save will change. *)
NoUpdate == [todo |-> <<>>, fields |-> {}, active |-> FALSE, set |-> <<>>]

LocksInit ==
  /\ SchedulerInit
  /\ lesson = NewLesson
  /\ change = [c \in Calls |-> <<>>]
  /\ update = [u \in Updates |-> NoUpdate]
  /\ raced = FALSE
  /\ opened = FALSE

Updating == \E u \in Updates : update[u].todo # <<>>

(* The fields that the requests at work change, and those of the events    *)
(* that are being triggered.                                               *)
Updated == UNION {update[u].fields : u \in Updates}
Triggered ==
  {field \in Fields : \E e \in saving \cup UNION {InHand(c) : c \in Calls} :
                        e # None /\ event[e].type = TypeOf(field)}
------------------------------------------------------------------------------
(* triggerEvent *)

(* What saving the document doc, read as `read`, will write: the fields    *)
(* that differ; one more of them; and the document with them written.      *)
Changed(read, doc) == [f \in {g \in DOMAIN read : doc[g] # read[g]} |-> doc[f]]
Assigned(set, field, value) == [f \in DOMAIN set \cup {field} |-> IF f = field THEN value ELSE set[f]]
Written(set, doc) == [f \in DOMAIN doc |-> IF f \in DOMAIN set THEN set[f] ELSE doc[f]]

(* The lesson of the event e is looked up ...                              *)
FindLesson(c, e) ==
  /\ call[c].event = None /\ e \in call[c].queue /\ event[e].type \in {Lock, Unlock}
  /\ IF lesson.exists
     THEN /\ call' = [call EXCEPT ![c].event = e]
          /\ change' = [change EXCEPT ![c] = Changed(lesson,
                 IF event[e].type = Unlock
                 THEN [lesson EXCEPT !.active = TRUE, !.lockUntil = None]
                 ELSE [lesson EXCEPT !.active = FALSE, !.lockAfter = None])]
          /\ UNCHANGED saving
     ELSE Finish(c, e) /\ UNCHANGED change
  /\ UNCHANGED <<event, users, setup, historyVars, crashes, lesson, update, raced, opened>>

(* ... and saved; a lesson that was deleted meanwhile makes the save, and  *)
(* the call with it, fail.  The event is finished when the answer has come.*)
SaveLesson(c) ==
  LET e == call[c].event IN
  /\ e # None /\ event[e].type \in {Lock, Unlock} /\ ~call[c].saved
  /\ IF lesson.exists
     THEN /\ lesson' = Written(change[c], lesson)
          /\ call' = [call EXCEPT ![c].saved = TRUE]
     ELSE call' = [call EXCEPT ![c] = NoCall] /\ UNCHANGED lesson
  /\ change' = [change EXCEPT ![c] = <<>>]
  /\ UNCHANGED <<eventVars, users, setup, historyVars, crashes, update, raced, opened>>

LocksFinish(c) == FinishSaved(c) /\ UNCHANGED <<lessonVars, update, raced, opened>>

LocksCallFails(c) ==
  /\ CallFails(c)
  /\ change' = [change EXCEPT ![c] = <<>>]
  /\ UNCHANGED <<lesson, update, raced, opened>>
------------------------------------------------------------------------------
(* update_lesson *)

(* The populated event of a field: null if it was deleted.                 *)
Populated(field) ==
  IF lesson[field] # None /\ event[lesson[field]].state # Deleted
  THEN lesson[field] ELSE None

(* Mutant: the event that no longer holds is left open. *)
TodoKeepsOld(field, wish) ==
  LET old == Populated(field) IN
  CASE wish = "none" -> <<>>
    [] wish = "same" /\ old # None -> <<>>
    [] OTHER -> <<Create(field)>>

(* What is to be done for a field: the request asks for no lock, for the   *)
(* time that is set, or for another time.                                  *)
Todo(field, wish) ==
  LET old == Populated(field)
      cancel == IF old = None THEN <<>> ELSE <<MarkDone(field, old)>>
  IN CASE wish = "none" -> cancel
       [] wish = "same" /\ old # None -> <<>>
       [] OTHER -> cancel \o <<Create(field)>>

FindForUpdate(u) ==
  /\ update[u].todo = <<>> /\ lesson.exists
  /\ \E wish \in [Fields -> {"none", "same", "other"}] :
       LET changed == {f \in Fields : Todo(f, wish[f]) # <<>>}
           cleared == {f \in changed : wish[f] = "none"}
       IN /\ update' = [update EXCEPT ![u] =
               [todo |-> Todo("lockUntil", wish["lockUntil"])
                           \o Todo("lockAfter", wish["lockAfter"]) \o <<Save>>,
                fields |-> changed,
                active |-> lesson.active,
                set |-> Changed(lesson, [f \in DOMAIN lesson |->
                          IF f \in cleared THEN None ELSE lesson[f]])]]
          /\ raced' = (changed \cap (Updated \cup Triggered) # {})
  /\ UNCHANGED <<schedulerVars, lessonVars, opened>>

Next1(u, step) == update[u].todo # <<>> /\ Head(update[u].todo).step = step
Abandon(u) == update' = [update EXCEPT ![u] = NoUpdate] /\ raced' = TRUE

(* oldEvent.save(), which fails when the event has been deleted            *)
MarkEventDone(u) ==
  LET e == Head(update[u].todo).event IN
  /\ Next1(u, "done")
  /\ IF event[e].state = Deleted
     THEN Abandon(u) /\ UNCHANGED event
     ELSE /\ event' = [event EXCEPT ![e].state = Done]
          /\ update' = [update EXCEPT ![u].todo = Tail(@)]
          /\ UNCHANGED raced
  /\ UNCHANGED <<saving, call, users, setup, historyVars, crashes, lessonVars, opened>>

(* Mutant: a lesson that gets a lock stays active. *)
CreateEventActive(u) ==
  LET field == Head(update[u].todo).field IN
  /\ Next1(u, "create")
  /\ \E e \in Events :
       /\ NewEvent(e, TypeOf(field), TRUE)
       /\ update' = [update EXCEPT ![u].todo = Tail(@), ![u].set = Assigned(@, field, e)]
  /\ UNCHANGED <<saving, call, users, setup, historyVars, crashes, lessonVars, raced, opened>>

(* event.save(); "lock until" also makes the lesson inactive.  (The event  *)
(* is due at once: that it is due later is a call that comes later.)       *)
CreateEvent(u) ==
  LET field == Head(update[u].todo).field IN
  /\ Next1(u, "create")
  /\ \E e \in Events :
       /\ NewEvent(e, TypeOf(field), TRUE)
       /\ LET set == Assigned(update[u].set, field, e) IN
          update' = [update EXCEPT ![u].todo = Tail(@),
            ![u].set = IF field = "lockUntil" /\ update[u].active
                       THEN Assigned(set, "active", FALSE) ELSE set]
  /\ UNCHANGED <<saving, call, users, setup, historyVars, crashes, lessonVars, raced, opened>>

SaveUpdate(u) ==
  /\ Next1(u, "save")
  /\ IF lesson.exists
     THEN /\ lesson' = Written(update[u].set, lesson)
          /\ update' = [update EXCEPT ![u] = NoUpdate]
          /\ opened' = (opened /\ lesson'.active)
          /\ UNCHANGED raced
     ELSE Abandon(u) /\ UNCHANGED <<lesson, opened>>
  /\ UNCHANGED <<schedulerVars, change>>

UpdateFails(u) ==
  /\ update[u].todo # <<>>
  /\ Abandon(u)
  /\ UNCHANGED <<schedulerVars, lessonVars, opened>>
------------------------------------------------------------------------------
(* Other requests *)

(* activate_lesson and deactivate_lesson                                   *)
SetActive(active) ==
  /\ lesson.exists /\ lesson.active # active
  /\ lesson' = [lesson EXCEPT !.active = active]
  /\ opened' = (opened \/ active)
  /\ raced' = (Updating \/ "lockUntil" \in Triggered)
  /\ UNCHANGED <<schedulerVars, change, update>>

(* delete_lesson leaves the events alone.                                  *)
DeleteLesson ==
  /\ lesson.exists
  /\ lesson' = [lesson EXCEPT !.exists = FALSE]
  /\ UNCHANGED <<schedulerVars, change, update, raced, opened>>

LocksDeleteEvent(e) ==
  /\ Cardinality({x \in Events : event[x].state = Deleted}) < MaxDeletions
  /\ DeleteEvent(e)
  /\ UNCHANGED <<lessonVars, update, raced, opened>>

(* The scheduler takes events up.                                          *)
LocksCall(c) ==
  /\ CheckEvents(c) \/ \E e \in Events : TriggerEvent(c, e)
  /\ raced' = (repeated' \/ Updated \cap Triggered' # {})
  /\ UNCHANGED <<lessonVars, update, opened>>

LocksSaveDone(e) == SaveDone(e) /\ UNCHANGED <<lessonVars, update, raced, opened>>
LocksSaveDoneFails(e) ==
  SaveDoneFails(e) /\ raced' = TRUE /\ UNCHANGED <<lessonVars, update, opened>>

LocksCrash ==
  /\ Crash
  /\ change' = [c \in Calls |-> <<>>]
  /\ update' = [u \in Updates |-> NoUpdate]
  /\ raced' = (repeated' \/ Updating)
  /\ UNCHANGED <<lesson, opened>>

(* Every promise about the locks ends at the first race: a behaviour is    *)
(* followed up to it.                                                      *)
LocksNext == ~raced /\
  \/ \E u \in Updates :
       FindForUpdate(u) \/ MarkEventDone(u) \/ CreateEvent(u) \/ SaveUpdate(u) \/ UpdateFails(u)
  \/ \E active \in BOOLEAN : SetActive(active)
  \/ DeleteLesson
  \/ \E c \in Calls : LocksCall(c) \/ SaveLesson(c) \/ LocksFinish(c) \/ LocksCallFails(c)
  \/ \E c \in Calls, e \in Events : FindLesson(c, e)
  \/ \E e \in Events : LocksDeleteEvent(e) \/ LocksSaveDone(e) \/ LocksSaveDoneFails(e)
  \/ LocksCrash

LocksSpec == LocksInit /\ [][LocksNext]_locksVars
------------------------------------------------------------------------------
LocksTypeOK ==
  /\ SchedulerTypeOK
  /\ lesson \in Lesson
  /\ change \in [Calls -> Changes]
  /\ \A u \in Updates :
       /\ update[u].set \in Changes
       /\ update[u].fields \subseteq Fields
       /\ Len(update[u].todo) <= 5
  /\ {raced, opened} \subseteq BOOLEAN

(* While no request is at work, the open lock and unlock events are those  *)
(* the lesson refers to, one of each kind at most, and it refers to no     *)
(* event that was triggered: no cancelled lock ever strikes, no lock is    *)
(* forgotten.  This holds although requests and the scheduler save the     *)
(* lesson at the same time, as long as they do not work on the same lock.  *)
(* An event whose call was cut off after the lesson was saved stays open   *)
(* without it (`cut`), until it is taken up again                          *)
(* (lessons.js 390-470, scheduler.js 51-71, 174-175).                      *)
LocksArePending ==
  lesson.exists /\ ~Updating /\ ~raced =>
    \A field \in Fields :
      /\ Pending(TypeOf(field)) \ Spent \subseteq {lesson[field]}
      /\ lesson[field] # None => event[lesson[field]].state # Done

(* A lesson with an open "lock until" is inactive, unless an instructor    *)
(* has activated it (lessons.js 405-432, scheduler.js 51-60).              *)
LockedIsInactive ==
  lesson.exists /\ ~Updating /\ ~raced /\ ~opened /\ lesson.lockUntil \in Pending(Unlock)
    => ~lesson.active
==============================================================================
