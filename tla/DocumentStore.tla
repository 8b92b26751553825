---------------------------- MODULE DocumentStore ----------------------------
(***************************************************************************)
(* The in-memory store of collaborative documents of                       *)
(* lib/sockets/document/instance.js: the cache `instances`, the table      *)
(* `instancesToSave`, the save timer, and the three asynchronous           *)
(* operations getInstance (load on demand, with eviction), addEvents (as   *)
(* far as it concerns the store) and saveToDatabase.                       *)
(*                                                                         *)
(* Node runs one callback at a time, so an action is what happens between  *)
(* two awaits.  A request of getInstance that misses the cache is split at *)
(* `await TextEditorDocument.findOne`, a save run at each                  *)
(* `await TextEditorDocument.updateOne`; the database executes a query at  *)
(* some moment between the two halves.                                     *)
(*                                                                         *)
(* A document is abstracted to the set of edit messages it consists of: a  *)
(* document that was never stored and an empty one are both {}.            *)
(***************************************************************************)
EXTENDS Naturals, FiniteSets

CONSTANTS
  Docs,         \* document identifiers
  Edits,        \* identities of edit messages (bounds the edits of a run)
  Handlers,     \* socket callbacks that can be inside getInstance at once
  Runs,         \* calls of saveToDatabase that can be in progress at once
  MaxInstances, \* MAX_DOC_INSTANCES
  MaxCount,     \* bound on the counter instanceCount, which can drift upwards
  MaxCrashes    \* bound on the number of restarts of the process

ASSUME StoreAssumption ==
  /\ IsFiniteSet(Docs) /\ Docs # {}
  /\ MaxInstances \in Nat
  /\ MaxCount \in Nat
  /\ MaxCrashes \in Nat

VARIABLES
  loaded,        \* keys of `instances`
  content,       \* content[d]: edits in the in-memory instance of d
  lastActive,    \* lastActive[d]: rank of d by its last use, larger is later
  instanceCount, \* the counter `instanceCount`
  toSave,        \* keys of `instancesToSave`
  saveTimeout,   \* is the variable `saveTimeout` non-null?
  armed,         \* timers of the event loop that will call saveToDatabase
  handler,       \* handler[h]: the request h inside getInstance
  run,           \* run[r]: the call r of saveToDatabase
  stored,        \* stored[d]: edits of d in the database
  accepted,      \* history: edits of d acknowledged to a client
  faulted,       \* history: documents hit by one of the faults named below
  aborted,       \* history: a save run threw in the middle of its loop
  crashes        \* history: number of restarts

cacheVars == <<loaded, content, lastActive, instanceCount>>
timerVars == <<toSave, saveTimeout, armed>>
historyVars == <<accepted, faulted, aborted, crashes>>
vars == <<cacheVars, timerVars, handler, run, stored, historyVars>>

Idle == "idle"
Finding == "finding"  \* findOne has been sent
Found == "found"      \* findOne has been executed, the callback is pending
Writing == "writing"  \* updateOne is in flight

HandlerState == [pc : {Idle, Finding, Found}, doc : Docs, read : SUBSET Edits]
RunState == [pc : {Idle, Writing}, queue : SUBSET Docs,
             doc : Docs, elem : SUBSET Edits]

AnyDoc == CHOOSE d \in Docs : TRUE
NoRequest == [pc |-> Idle, doc |-> AnyDoc, read |-> {}]
NoRun == [pc |-> Idle, queue |-> {}, doc |-> AnyDoc, elem |-> {}]

(* Save runs with an updateOne for d in flight, requests loading d.        *)
Writers(d) == {r \in Runs : run[r].pc = Writing /\ run[r].doc = d}
Loaders(d) == {h \in Handlers : handler[h].pc # Idle /\ handler[h].doc = d}

Init ==
  /\ loaded = {}
  /\ content = [d \in Docs |-> {}]
  /\ lastActive \in {f \in [Docs -> 1 .. Cardinality(Docs)] :
                        \A x, y \in Docs : x # y => f[x] # f[y]}
  /\ instanceCount = 0
  /\ toSave = {}
  /\ saveTimeout = FALSE
  /\ armed = 0
  /\ handler = [h \in Handlers |-> NoRequest]
  /\ run = [r \in Runs |-> NoRun]
  /\ stored = [d \in Docs |-> {}]
  /\ accepted = [d \in Docs |-> {}]
  /\ faulted = {}
  /\ aborted = FALSE
  /\ crashes = 0
------------------------------------------------------------------------------
(* getInstance *)

(* d becomes the most recently used document; the order of the others is   *)
(* kept.  (Two uses within one millisecond are not distinguished in the    *)
(* code; the model orders them.)                                           *)
Touched(d) ==
  [x \in Docs |-> IF x = d THEN Cardinality(Docs)
                  ELSE IF lastActive[x] > lastActive[d]
                       THEN lastActive[x] - 1 ELSE lastActive[x]]

(* Mutant: instances waiting to be saved can be dropped. *)
RemovableIfPending(d) == loaded \ {d}

(* The instances a call of getInstance for d drops first: when the counter *)
(* exceeds the limit, the excess number of least recently used instances,  *)
(* d itself and those waiting to be saved excepted.                        *)
Removable(d) == loaded \ ({d} \cup toSave)

Evicted(d) ==
  IF instanceCount <= MaxInstances THEN {}
  ELSE {x \in Removable(d) :
          Cardinality({y \in Removable(d) : lastActive[y] < lastActive[x]})
            < instanceCount - MaxInstances}

(* Mutant: a document is noted only when it arms the timer. *)
ScheduleIfUnarmed(d) ==
  /\ toSave' = IF saveTimeout THEN toSave ELSE toSave \cup {d}
  /\ saveTimeout' = TRUE
  /\ armed' = IF saveTimeout THEN armed ELSE armed + 1

(* addEvents, as far as the store sees it: the message is acknowledged and *)
(* the document scheduled to be saved, or it is refused and nothing        *)
(* changes.  Both are possible in every state: version 0 passes the        *)
(* version test, and a step may or may not apply.                          *)
scheduleSaveToDatabase(d) ==
  /\ toSave' = toSave \cup {d}
  /\ saveTimeout' = TRUE
  /\ armed' = IF saveTimeout THEN armed ELSE armed + 1

Unused == {e \in Edits : \A d \in Docs : e \notin accepted[d]}

addEvents(d, base) ==
  \E e \in Unused :
    /\ content' = [content EXCEPT ![d] = base \cup {e}]
    /\ accepted' = [accepted EXCEPT ![d] = @ \cup {e}]
    /\ scheduleSaveToDatabase(d)

NoEvents(d, base) ==
  /\ content' = [content EXCEPT ![d] = base]
  /\ UNCHANGED <<accepted, timerVars>>

(* The document is in memory: the whole callback runs without waiting.     *)
GetCached(d) ==
  /\ d \in loaded
  /\ loaded' = loaded \ Evicted(d)
  /\ instanceCount' = instanceCount - Cardinality(Evicted(d))
  /\ lastActive' = Touched(d)
  /\ \/ addEvents(d, content[d])
     \/ NoEvents(d, content[d])
  /\ UNCHANGED <<handler, run, stored, faulted, aborted, crashes>>

(* It is not: the query is sent.  Fault: a second load of d is under way.  *)
GetMissing(h, d) ==
  /\ handler[h].pc = Idle
  /\ d \notin loaded
  /\ loaded' = loaded \ Evicted(d)
  /\ instanceCount' = instanceCount - Cardinality(Evicted(d))
  /\ handler' = [handler EXCEPT ![h] = [pc |-> Finding, doc |-> d, read |-> {}]]
  /\ faulted' = IF Loaders(d) # {} THEN faulted \cup {d} ELSE faulted
  /\ UNCHANGED <<content, lastActive, timerVars, run, stored,
                 accepted, aborted, crashes>>

(* The database executes the query.  Fault: a save of d is in flight.      *)
DbFind(h) ==
  /\ handler[h].pc = Finding
  /\ handler' = [handler EXCEPT ![h].pc = Found,
                                ![h].read = stored[handler[h].doc]]
  /\ faulted' = IF Writers(handler[h].doc) # {}
                THEN faulted \cup {handler[h].doc} ELSE faulted
  /\ UNCHANGED <<cacheVars, timerVars, run, stored,
                 accepted, aborted, crashes>>

(* The query fails: the callback is rejected and the request dropped.      *)
FindFails(h) ==
  /\ handler[h].pc = Finding
  /\ handler' = [handler EXCEPT ![h] = NoRequest]
  /\ UNCHANGED <<cacheVars, timerVars, run, stored, historyVars>>

(* Mutant: a load that replaces nothing is not counted. *)
GetLoadedUncounted(h) ==
  LET d == handler[h].doc IN
  /\ handler[h].pc = Found
  /\ handler' = [handler EXCEPT ![h] = NoRequest]
  /\ loaded' = loaded \cup {d}
  /\ lastActive' = Touched(d)
  /\ addEvents(d, handler[h].read) \/ NoEvents(d, handler[h].read)
  /\ UNCHANGED <<instanceCount, run, stored, faulted, aborted, crashes>>

(* Mutant: the stored document is not used. *)
GetLoadedEmpty(h) ==
  LET d == handler[h].doc IN
  /\ handler[h].pc = Found
  /\ instanceCount < MaxCount
  /\ handler' = [handler EXCEPT ![h] = NoRequest]
  /\ loaded' = loaded \cup {d}
  /\ instanceCount' = instanceCount + 1
  /\ lastActive' = Touched(d)
  /\ addEvents(d, {}) \/ NoEvents(d, {})
  /\ UNCHANGED <<run, stored, faulted, aborted, crashes>>

(* The callback continues with newInstance, which replaces whatever        *)
(* instance of d exists and counts one more, and may add events.           *)
GetLoaded(h) ==
  LET d == handler[h].doc IN
  /\ handler[h].pc = Found
  /\ instanceCount < MaxCount
  /\ handler' = [handler EXCEPT ![h] = NoRequest]
  /\ loaded' = loaded \cup {d}
  /\ instanceCount' = instanceCount + 1
  /\ lastActive' = Touched(d)
  /\ \/ addEvents(d, handler[h].read)
     \/ NoEvents(d, handler[h].read)
  /\ UNCHANGED <<run, stored, faulted, aborted, crashes>>
------------------------------------------------------------------------------
(* saveToDatabase *)

(* One turn of the loop, up to the await: the next key leaves              *)
(* instancesToSave and the instance is copied into the update.  An         *)
(* instance that has left the memory makes the run throw.  Object keys are *)
(* taken in any order.  Fault: another run is writing the same document.   *)
(* hit is what a fault of the turn before has struck.                      *)
NextKey(r, queue, hit) ==
  \/ /\ queue = {}
     /\ run' = [run EXCEPT ![r] = NoRun]
     /\ faulted' = faulted \cup hit
     /\ UNCHANGED <<toSave, aborted>>
  \/ \E d \in queue :
       /\ toSave' = toSave \ {d}
       /\ IF d \in loaded
          THEN /\ run' = [run EXCEPT ![r] = [pc |-> Writing, queue |-> queue \ {d},
                                             doc |-> d, elem |-> content[d]]]
               /\ faulted' = faulted \cup hit \cup
                               (IF Writers(d) \ {r} # {} THEN {d} ELSE {})
               /\ UNCHANGED aborted
          ELSE /\ run' = [run EXCEPT ![r] = NoRun]
               /\ faulted' = faulted \cup hit
               /\ aborted' = TRUE

(* Mutant: saveTimeout is not reset. *)
SaveWithoutReset(r) ==
  /\ run[r].pc = Idle
  /\ NextKey(r, toSave, {})
  /\ UNCHANGED <<cacheVars, saveTimeout, handler, stored, accepted, crashes>>

(* The call itself clears saveTimeout, not the timer behind it.            *)
saveToDatabase(r) ==
  /\ run[r].pc = Idle
  /\ saveTimeout' = FALSE
  /\ NextKey(r, toSave, {})
  /\ UNCHANGED <<cacheVars, handler, stored, accepted, crashes>>

TimerFires(r) ==
  /\ armed > 0
  /\ armed' = armed - 1
  /\ saveToDatabase(r)

(* Mutant: the request takes a timer away, whether there is one or not. *)
HttpSaveDisarms(r) == saveToDatabase(r) /\ armed' = armed - 1

(* GET /text_editor_document calls saveToDatabase, too.                    *)
HttpSave(r) ==
  /\ saveToDatabase(r)
  /\ UNCHANGED armed

(* The update takes effect and the loop continues.  (Nothing of the run    *)
(* can be observed between the two, so they are one step.)                 *)
UpdateDone(r) ==
  /\ run[r].pc = Writing
  /\ stored' = [stored EXCEPT ![run[r].doc] = run[r].elem]
  /\ NextKey(r, run[r].queue, {})
  /\ UNCHANGED <<cacheVars, saveTimeout, armed, handler, accepted, crashes>>

(* The update fails: the error is logged and the loop continues.  Fault.   *)
UpdateFails(r) ==
  /\ run[r].pc = Writing
  /\ NextKey(r, run[r].queue, {run[r].doc})
  /\ UNCHANGED <<cacheVars, saveTimeout, armed, handler, stored,
                 accepted, crashes>>
------------------------------------------------------------------------------
(* The process dies and is started again: the memory is gone.  An update   *)
(* in flight may still take effect.  Fault for every document with an edit *)
(* that was not known to be saved.                                         *)
Crash ==
  /\ crashes < MaxCrashes
  /\ crashes' = crashes + 1
  /\ faulted' = faulted \cup toSave \cup {d \in Docs : Writers(d) # {}}
  /\ \E landed \in [Docs -> BOOLEAN] :
       stored' = [d \in Docs |->
                    IF landed[d] /\ Writers(d) # {}
                    THEN run[CHOOSE r \in Writers(d) : TRUE].elem
                    ELSE stored[d]]
  /\ loaded' = {}
  /\ content' = [d \in Docs |-> {}]
  /\ instanceCount' = 0
  /\ toSave' = {}
  /\ saveTimeout' = FALSE
  /\ armed' = 0
  /\ handler' = [h \in Handlers |-> NoRequest]
  /\ run' = [r \in Runs |-> NoRun]
  /\ UNCHANGED <<lastActive, accepted, aborted>>

Next ==
  \/ \E d \in Docs : GetCached(d)
  \/ \E h \in Handlers, d \in Docs : GetMissing(h, d)
  \/ \E h \in Handlers : DbFind(h) \/ FindFails(h) \/ GetLoaded(h)
  \/ \E r \in Runs : TimerFires(r) \/ HttpSave(r) \/ UpdateDone(r) \/ UpdateFails(r)
  \/ Crash

Spec == Init /\ [][Next]_vars

(* A timer that is due fires and the database answers every update.        *)
Fairness ==
  /\ WF_vars(\E r \in Runs : TimerFires(r))
  /\ \A r \in Runs : WF_vars(UpdateDone(r) \/ UpdateFails(r))

FairSpec == Spec /\ Fairness
------------------------------------------------------------------------------
TypeOK ==
  /\ loaded \in SUBSET Docs
  /\ content \in [Docs -> SUBSET Edits]
  /\ lastActive \in [Docs -> 1 .. Cardinality(Docs)]
  /\ instanceCount \in Nat
  /\ toSave \in SUBSET Docs
  /\ saveTimeout \in BOOLEAN
  /\ armed \in Nat
  /\ handler \in [Handlers -> HandlerState]
  /\ run \in [Runs -> RunState]
  /\ stored \in [Docs -> SUBSET Edits]
  /\ accepted \in [Docs -> SUBSET Edits]
  /\ faulted \in SUBSET Docs
  /\ aborted \in BOOLEAN
  /\ crashes \in 0 .. MaxCrashes

(* The counter behind the eviction rule never falls below the number of    *)
(* instances in memory, whatever loads, evictions and overlapping loads    *)
(* did to it: a cache over its limit is always noticed (instance.js        *)
(* 264-280, newInstance).                                                  *)
CountCoversCache == Cardinality(loaded) <= instanceCount

(* A document waiting to be saved is never dropped from memory, and every  *)
(* such document will be visited: by a timer that is armed or by a run     *)
(* whose loop still has to reach it - unless a run has thrown (instance.js *)
(* 387-447).                                                               *)
Scheduled(d) ==
  armed > 0 \/ \E r \in Runs : run[r].pc = Writing /\ d \in run[r].queue

PendingSaveIsKept ==
  \A d \in toSave : d \in loaded /\ (aborted \/ Scheduled(d))

(* instance.js:397, "Saves all in-memory document instances to the         *)
(* database": a run reaches the end of its loop.  It holds as long as runs *)
(* do not overlap; a run overlapped by another one can throw.              *)
NeverAborts == ~aborted

(* What a document consists of: the instance in memory, else the update    *)
(* in flight, else the stored document.                                    *)
Visible(d) ==
  IF d \in loaded THEN content[d]
  ELSE IF Writers(d) # {} THEN run[CHOOSE r \in Writers(d) : TRUE].elem
  ELSE stored[d]

(* An acknowledged edit is lost only through one of the named faults: a    *)
(* crash before it was saved, a failed update, two overlapping loads of a  *)
(* document, a load overlapping a save, or two overlapping saves of it.    *)
NoSilentLoss == \A d \in Docs \ faulted : Visible(d) = accepted[d]

Log == INSTANCE EditLog
         WITH content <- [d \in Docs |-> Visible(d)], mayLose <- faulted

(* The store implements the edit log.                                      *)
ImplementsEditLog == Log!LogSpec

(* A document scheduled to be saved is eventually taken up by a save run,  *)
(* unless a run has thrown.                                                *)
PendingEventuallySaved == \A d \in Docs : (d \in toSave) ~> (d \notin toSave \/ aborted)
==============================================================================
