------------------------ MODULE DocumentStoreProofs ------------------------
(***************************************************************************)
(* Proofs about DocumentStore, for any sets of documents, edits, requests  *)
(* and save runs and any cache limit, and about DocumentHistory, for any   *)
(* sets of clients and comments and any length of the history.             *)
(***************************************************************************)
EXTENDS DocumentStore, DocumentHistory, FiniteSetTheorems, SequenceTheorems,
        WellFoundedInduction, TLAPS

(* The save timer and the table of pending saves.                          *)
TimerInv ==
  /\ saveTimeout => armed > 0
  /\ toSave \subseteq loaded
  /\ ~aborted => \A d \in toSave : Scheduled(d)

(* A document no fault has hit: it has one writer and one loader at most,  *)
(* and what is in memory, in flight, read or stored is what was accepted.  *)
Intact(d) ==
  /\ \A r, s \in Writers(d) : r = s
  /\ \A g, h \in Loaders(d) : g = h
  /\ d \in loaded => content[d] = accepted[d] /\ Loaders(d) = {}
  /\ d \notin toSave => /\ \A r \in Writers(d) : run[r].elem = accepted[d]
                        /\ Writers(d) = {} => stored[d] = accepted[d]
  /\ \A h \in Loaders(d) : handler[h].pc = Found => handler[h].read = accepted[d]

LossInv == \A d \in Docs \ faulted : Intact(d)

IInv == TypeOK /\ CountCoversCache /\ TimerInv /\ LossInv
-----------------------------------------------------------------------------
(* Types *)

USE StoreAssumption

(* What an eviction removes is in memory, is not the document asked for    *)
(* and does not wait to be saved.                                          *)
LEMMA EvictedFacts ==
  ASSUME TypeOK, NEW d \in Docs
  PROVE  /\ Evicted(d) \subseteq loaded
         /\ d \notin Evicted(d)
         /\ Evicted(d) \cap toSave = {}
  BY DEF Evicted, Removable, TypeOK

(* Sizes of the cache around an eviction.                                  *)
LEMMA EvictedCount ==
  ASSUME TypeOK, CountCoversCache, NEW d \in Docs
  PROVE  /\ instanceCount - Cardinality(Evicted(d)) \in Nat
         /\ Cardinality(loaded \ Evicted(d))
              <= instanceCount - Cardinality(Evicted(d))
<1>1. IsFiniteSet(loaded)
  BY FS_Subset DEF TypeOK
<1>2. Evicted(d) \subseteq loaded
  BY EvictedFacts
<1>3. /\ Cardinality(loaded) \in Nat
      /\ Cardinality(Evicted(d)) \in Nat
      /\ Cardinality(Evicted(d)) <= Cardinality(loaded)
  BY <1>1, <1>2, FS_Subset, FS_CardinalityType
<1>4. loaded \cap Evicted(d) = Evicted(d)
  BY <1>2
<1>5. Cardinality(loaded \ Evicted(d)) = Cardinality(loaded) - Cardinality(Evicted(d))
  BY <1>1, <1>4, FS_Difference
<1>6. QED
  BY <1>3, <1>5 DEF CountCoversCache, TypeOK

LEMMA TouchedType ==
  ASSUME TypeOK, NEW d \in Docs
  PROVE  Touched(d) \in [Docs -> 1 .. Cardinality(Docs)]
<1>1. Cardinality(Docs) \in Nat
  BY FS_CardinalityType
<1>2. \A x \in Docs : lastActive[x] \in 1 .. Cardinality(Docs)
  BY DEF TypeOK
<1>3. QED
  BY <1>1, <1>2 DEF Touched

LEMMA AddEventsType ==
  ASSUME TypeOK, NEW d \in Docs, NEW base \in SUBSET Edits,
         addEvents(d, base) \/ NoEvents(d, base)
  PROVE  /\ content' \in [Docs -> SUBSET Edits]
         /\ accepted' \in [Docs -> SUBSET Edits]
         /\ toSave' \in SUBSET Docs
         /\ saveTimeout' \in BOOLEAN
         /\ armed' \in Nat
<1>1. CASE addEvents(d, base)
  BY <1>1 DEF addEvents, scheduleSaveToDatabase, Unused, TypeOK
<1>2. CASE NoEvents(d, base)
  BY <1>2 DEF NoEvents, timerVars, TypeOK
<1>3. QED
  BY <1>1, <1>2

LEMMA NoneTypes == NoRun \in RunState /\ NoRequest \in HandlerState
<1>1. AnyDoc \in Docs
  BY DEF AnyDoc
<1>2. QED
  BY <1>1 DEF NoRun, NoRequest, RunState, HandlerState, Idle

(* One turn of the save loop ends the run, starts the next update or       *)
(* throws.                                                                 *)
LEMMA NextKeyCases ==
  ASSUME NEW r \in Runs, NEW queue, NEW hit, NextKey(r, queue, hit)
  PROVE  \/ /\ queue = {}
            /\ run' = [run EXCEPT ![r] = NoRun]
            /\ faulted' = faulted \cup hit
            /\ toSave' = toSave /\ aborted' = aborted
         \/ \E d \in queue :
              /\ d \in loaded
              /\ toSave' = toSave \ {d}
              /\ run' = [run EXCEPT ![r] =
                           [pc |-> Writing, queue |-> queue \ {d},
                            doc |-> d, elem |-> content[d]]]
              /\ faulted' = faulted \cup hit \cup
                              (IF Writers(d) \ {r} # {} THEN {d} ELSE {})
              /\ aborted' = aborted
         \/ \E d \in queue :
              /\ d \notin loaded
              /\ toSave' = toSave \ {d}
              /\ run' = [run EXCEPT ![r] = NoRun]
              /\ faulted' = faulted \cup hit
              /\ aborted' = TRUE
  BY DEF NextKey

LEMMA NextKeyType ==
  ASSUME TypeOK, NEW r \in Runs, NEW queue \in SUBSET Docs,
         NEW hit \in SUBSET Docs, NextKey(r, queue, hit)
  PROVE  /\ run' \in [Runs -> RunState]
         /\ toSave' \in SUBSET Docs
         /\ faulted' \in SUBSET Docs
         /\ aborted' \in BOOLEAN
<1>1. \A d \in queue : [pc |-> Writing, queue |-> queue \ {d}, doc |-> d,
                        elem |-> content[d]] \in RunState
  BY DEF RunState, TypeOK
<1>2. run' = [run EXCEPT ![r] = NoRun]
      \/ \E d \in queue : run' = [run EXCEPT ![r] =
                           [pc |-> Writing, queue |-> queue \ {d},
                            doc |-> d, elem |-> content[d]]]
  BY DEF NextKey
<1>3. run' \in [Runs -> RunState]
  BY <1>1, <1>2, NoneTypes DEF TypeOK
<1>4. toSave' \subseteq toSave /\ faulted' \subseteq faulted \cup hit \cup queue
  BY DEF NextKey
<1>5. aborted' \in BOOLEAN
  BY DEF NextKey, TypeOK
<1>6. QED
  BY <1>3, <1>4, <1>5 DEF TypeOK

LEMMA TypeInit == Init => TypeOK
<1> SUFFICES ASSUME Init PROVE TypeOK
  OBVIOUS
<1>1. 0 \in 0 .. MaxCrashes
  BY StoreAssumption
<1>2. lastActive \in [Docs -> 1 .. Cardinality(Docs)]
  BY DEF Init
<1>3. handler \in [Handlers -> HandlerState] /\ run \in [Runs -> RunState]
  BY NoneTypes DEF Init
<1>4. QED
  BY <1>1, <1>2, <1>3 DEF Init, TypeOK

LEMMA SaveType ==
  ASSUME TypeOK, NEW r \in Runs, saveToDatabase(r)
  PROVE  /\ run' \in [Runs -> RunState]
         /\ toSave' \in SUBSET Docs
         /\ faulted' \in SUBSET Docs
         /\ aborted' \in BOOLEAN
         /\ saveTimeout' \in BOOLEAN
         /\ UNCHANGED <<cacheVars, handler, stored, accepted, crashes>>
<1>1. toSave \in SUBSET Docs
  BY DEF TypeOK
<1>2. NextKey(r, toSave, {}) /\ saveTimeout' = FALSE
      /\ UNCHANGED <<cacheVars, handler, stored, accepted, crashes>>
  BY DEF saveToDatabase
<1>3. QED
  BY <1>1, <1>2, NextKeyType

LEMMA TypeStep == TypeOK /\ CountCoversCache /\ [Next]_vars => TypeOK'
<1> SUFFICES ASSUME TypeOK, CountCoversCache, [Next]_vars PROVE TypeOK'
  OBVIOUS
<1>1. CASE \E d \in Docs : GetCached(d)
  <2>1. PICK d \in Docs : GetCached(d)
    BY <1>1
  <2>2. content[d] \in SUBSET Edits
    BY DEF TypeOK
  <2>3. addEvents(d, content[d]) \/ NoEvents(d, content[d])
    BY <2>1 DEF GetCached
  <2>4. instanceCount' \in Nat /\ loaded' \subseteq Docs
    BY <2>1, EvictedCount DEF GetCached, TypeOK
  <2>5. lastActive' \in [Docs -> 1 .. Cardinality(Docs)]
    BY <2>1, TouchedType DEF GetCached
  <2>6. UNCHANGED <<handler, run, stored, faulted, aborted, crashes>>
    BY <2>1 DEF GetCached
  <2>7. QED
    BY <2>2, <2>3, <2>4, <2>5, <2>6, AddEventsType DEF TypeOK
<1>2. CASE \E h \in Handlers, d \in Docs : GetMissing(h, d)
  <2>1. PICK h \in Handlers, d \in Docs : GetMissing(h, d)
    BY <1>2
  <2>2. instanceCount' \in Nat /\ loaded' \subseteq Docs
    BY <2>1, EvictedCount DEF GetMissing, TypeOK
  <2>3. [pc |-> Finding, doc |-> d, read |-> {}] \in HandlerState
    BY DEF HandlerState
  <2>4. handler' \in [Handlers -> HandlerState] /\ faulted' \subseteq Docs
    BY <2>1, <2>3 DEF GetMissing, TypeOK
  <2>5. UNCHANGED <<content, lastActive, timerVars, run, stored, accepted,
                    aborted, crashes>>
    BY <2>1 DEF GetMissing
  <2>6. QED
    BY <2>2, <2>4, <2>5 DEF TypeOK, timerVars
<1>3. CASE \E h \in Handlers : DbFind(h)
  <2>1. PICK h \in Handlers : DbFind(h)
    BY <1>3
  <2>2. handler[h] \in HandlerState /\ handler[h].doc \in Docs
    BY DEF TypeOK, HandlerState
  <2>3. [handler[h] EXCEPT !.pc = Found, !.read = stored[handler[h].doc]]
          \in HandlerState
    BY <2>2 DEF TypeOK, HandlerState
  <2>4. handler' = [handler EXCEPT
          ![h] = [handler[h] EXCEPT !.pc = Found, !.read = stored[handler[h].doc]]]
    BY <2>1 DEF DbFind, TypeOK
  <2>5. handler' \in [Handlers -> HandlerState]
    BY <2>3, <2>4 DEF TypeOK
  <2>6. faulted' \subseteq Docs
    BY <2>1, <2>2 DEF DbFind, TypeOK
  <2>7. UNCHANGED <<cacheVars, timerVars, run, stored, accepted, aborted, crashes>>
    BY <2>1 DEF DbFind
  <2>8. QED
    BY <2>5, <2>6, <2>7 DEF TypeOK, timerVars, cacheVars
<1>4. CASE \E h \in Handlers : FindFails(h)
  BY <1>4, NoneTypes DEF FindFails, TypeOK, timerVars, cacheVars, historyVars
<1>5. CASE \E h \in Handlers : GetLoaded(h)
  <2>1. PICK h \in Handlers : GetLoaded(h)
    BY <1>5
  <2>. DEFINE d == handler[h].doc  base == handler[h].read
  <2>2. d \in Docs /\ base \in SUBSET Edits
    BY DEF TypeOK, HandlerState
  <2>3. addEvents(d, base) \/ NoEvents(d, base)
    BY <2>1 DEF GetLoaded
  <2>4. instanceCount' \in Nat /\ loaded' \subseteq Docs
    BY <2>1, <2>2 DEF GetLoaded, TypeOK
  <2>5. lastActive' \in [Docs -> 1 .. Cardinality(Docs)]
    BY <2>1, <2>2, TouchedType DEF GetLoaded
  <2>6. handler' \in [Handlers -> HandlerState]
    BY <2>1, NoneTypes DEF GetLoaded, TypeOK
  <2>7. UNCHANGED <<run, stored, faulted, aborted, crashes>>
    BY <2>1 DEF GetLoaded
  <2> HIDE DEF d, base
  <2>8. QED
    BY <2>2, <2>3, <2>4, <2>5, <2>6, <2>7, AddEventsType DEF TypeOK
<1>6. CASE \E r \in Runs : TimerFires(r)
  <2>1. PICK r \in Runs : armed > 0 /\ armed' = armed - 1 /\ saveToDatabase(r)
    BY <1>6 DEF TimerFires
  <2>2. armed' \in Nat
    BY <2>1 DEF TypeOK
  <2>3. QED
    BY <2>1, <2>2, SaveType DEF TypeOK, cacheVars
<1>7. CASE \E r \in Runs : HttpSave(r)
  <2>1. PICK r \in Runs : saveToDatabase(r) /\ armed' = armed
    BY <1>7 DEF HttpSave
  <2>2. QED
    BY <2>1, SaveType DEF TypeOK, cacheVars
<1>8. CASE \E r \in Runs : UpdateDone(r)
  <2>1. PICK r \in Runs : UpdateDone(r)
    BY <1>8
  <2>2. /\ run[r].queue \in SUBSET Docs /\ run[r].elem \in SUBSET Edits
        /\ run[r].doc \in Docs
    BY DEF TypeOK, RunState
  <2>3. stored' \in [Docs -> SUBSET Edits]
    BY <2>1, <2>2 DEF UpdateDone, TypeOK
  <2>4. /\ NextKey(r, run[r].queue, {})
        /\ UNCHANGED <<cacheVars, saveTimeout, armed, handler, accepted, crashes>>
    BY <2>1 DEF UpdateDone
  <2>5. /\ run' \in [Runs -> RunState] /\ toSave' \in SUBSET Docs
        /\ faulted' \in SUBSET Docs /\ aborted' \in BOOLEAN
    <3>. DEFINE queue == run[r].queue
    <3>1. queue \in SUBSET Docs /\ NextKey(r, queue, {})
      BY <2>2, <2>4
    <3> HIDE DEF queue
    <3>2. QED
      BY <3>1, NextKeyType
  <2>6. QED
    BY <2>3, <2>4, <2>5 DEF TypeOK, cacheVars
<1>9. CASE \E r \in Runs : UpdateFails(r)
  <2>1. PICK r \in Runs : UpdateFails(r)
    BY <1>9
  <2>2. run[r].queue \in SUBSET Docs /\ {run[r].doc} \in SUBSET Docs
    BY DEF TypeOK, RunState
  <2>3. /\ NextKey(r, run[r].queue, {run[r].doc})
        /\ UNCHANGED <<cacheVars, saveTimeout, armed, handler, stored, accepted,
                       crashes>>
    BY <2>1 DEF UpdateFails
  <2>4. QED
    BY <2>2, <2>3, NextKeyType DEF TypeOK, cacheVars
<1>10. CASE Crash
  <2>1. \A d \in Docs : Writers(d) # {} =>
          run[CHOOSE r \in Writers(d) : TRUE].elem \in SUBSET Edits
    BY DEF Writers, TypeOK, RunState
  <2>2. stored' \in [Docs -> SUBSET Edits]
    BY <1>10, <2>1 DEF Crash, TypeOK
  <2>3. crashes' \in 0 .. MaxCrashes
    BY <1>10, StoreAssumption DEF Crash, TypeOK
  <2>4. handler' \in [Handlers -> HandlerState] /\ run' \in [Runs -> RunState]
    BY <1>10, NoneTypes DEF Crash
  <2>5. faulted' \subseteq Docs
    BY <1>10 DEF Crash, TypeOK
  <2>6. QED
    BY <1>10, <2>2, <2>3, <2>4, <2>5 DEF Crash, TypeOK
<1>11. CASE UNCHANGED vars
  BY <1>11 DEF vars, TypeOK, timerVars, cacheVars, historyVars
<1>12. QED
  BY <1>1, <1>2, <1>3, <1>4, <1>5, <1>6, <1>7, <1>8, <1>9, <1>10, <1>11 DEF Next
-----------------------------------------------------------------------------
(* The counter *)

LEMMA CountInit == Init => CountCoversCache
  BY FS_EmptySet DEF Init, CountCoversCache

(* Whether a step evicts, loads, does neither or restarts the process, the *)
(* counter keeps covering the cache.                                       *)
LEMMA CountStep ==
  TypeOK /\ CountCoversCache /\ [Next]_vars => CountCoversCache'
<1> SUFFICES ASSUME TypeOK, CountCoversCache, [Next]_vars PROVE CountCoversCache'
  OBVIOUS
<1>1. ASSUME NEW d \in Docs, loaded' = loaded \ Evicted(d),
             instanceCount' = instanceCount - Cardinality(Evicted(d))
      PROVE  CountCoversCache'
  BY <1>1, EvictedCount DEF CountCoversCache
<1>2. ASSUME NEW d, loaded' = loaded \cup {d}, instanceCount' = instanceCount + 1
      PROVE  CountCoversCache'
  <2>1. IsFiniteSet(loaded)
    BY FS_Subset DEF TypeOK
  <2>2. /\ Cardinality(loaded) \in Nat
        /\ Cardinality(loaded') = Cardinality(loaded)
             \/ Cardinality(loaded') = Cardinality(loaded) + 1
    BY <1>2, <2>1, FS_AddElement, FS_CardinalityType
  <2>3. QED
    BY <1>2, <2>2 DEF CountCoversCache, TypeOK
<1>3. ASSUME UNCHANGED <<loaded, instanceCount>>
      PROVE  CountCoversCache'
  BY <1>3 DEF CountCoversCache
<1>4. ASSUME Crash PROVE CountCoversCache'
  BY <1>4, FS_EmptySet DEF Crash, CountCoversCache
<1>5. QED
  BY <1>1, <1>2, <1>3, <1>4
     DEF Next, GetCached, GetMissing, DbFind, FindFails, GetLoaded, TimerFires,
         HttpSave, saveToDatabase, UpdateDone, UpdateFails, vars, cacheVars

(* Every variable ranges over its type (all of instance.js 255-447).       *)
THEOREM TypeCorrect == Spec => []TypeOK
<1>1. Init => TypeOK /\ CountCoversCache
  BY TypeInit, CountInit
<1>2. TypeOK /\ CountCoversCache /\ [Next]_vars => (TypeOK /\ CountCoversCache)'
  BY TypeStep, CountStep
<1>3. QED
  BY <1>1, <1>2, PTL DEF Spec

(* The counter never falls below the size of the cache, for any sets of    *)
(* documents and requests (instance.js 262-280, 357-361).                  *)
THEOREM CountCorrect == Spec => []CountCoversCache
<1>1. Init => TypeOK /\ CountCoversCache
  BY TypeInit, CountInit
<1>2. TypeOK /\ CountCoversCache /\ [Next]_vars => (TypeOK /\ CountCoversCache)'
  BY TypeStep, CountStep
<1>3. QED
  BY <1>1, <1>2, PTL DEF Spec
-----------------------------------------------------------------------------
(* The save timer *)

LEMMA TimerInit == Init => TimerInv
  BY DEF Init, TimerInv

(* A document that is due before a turn of the loop of r - it is in the    *)
(* queue of r or of another run, or a timer is armed - is due after it.    *)
LEMMA NextKeyDue ==
  ASSUME TypeOK, NEW r \in Runs, NEW queue \in SUBSET Docs,
         NEW hit, NextKey(r, queue, hit), ~aborted',
         NEW x \in toSave',
         \/ x \in queue
         \/ \E s \in Runs \ {r} : run[s].pc = Writing /\ x \in run[s].queue
  PROVE  x \in toSave /\ \E s \in Runs : run'[s].pc = Writing /\ x \in run'[s].queue
<1>1. CASE queue = {}
  <2>1. run' = [run EXCEPT ![r] = NoRun] /\ toSave' = toSave
    BY <1>1 DEF NextKey
  <2>2. QED
    BY <1>1, <2>1 DEF TypeOK
<1>2. ASSUME queue # {}
      PROVE \E d \in queue :
              /\ toSave' = toSave \ {d}
              /\ run' = [run EXCEPT ![r] = [pc |-> Writing, queue |-> queue \ {d},
                                            doc |-> d, elem |-> content[d]]]
  BY <1>2 DEF NextKey
<1>3. QED
  BY <1>1, <1>2 DEF TypeOK

LEMMA NextKeyTimer ==
  ASSUME NEW r \in Runs, NEW queue, NEW hit, NextKey(r, queue, hit)
  PROVE  toSave' \subseteq toSave /\ (aborted => aborted')
  BY DEF NextKey

LEMMA TimerStep == TypeOK /\ TimerInv /\ [Next]_vars => TimerInv'
<1> SUFFICES ASSUME TypeOK, TimerInv, [Next]_vars PROVE TimerInv'
  OBVIOUS
<1>1. ASSUME NEW d \in loaded', loaded \ Evicted(d) \subseteq loaded', d \in Docs,
             NEW base, addEvents(d, base) \/ NoEvents(d, base),
             UNCHANGED <<run, aborted>>
      PROVE  TimerInv'
  <2>1. toSave \subseteq loaded'
    BY <1>1, EvictedFacts DEF TimerInv
  <2>2. CASE addEvents(d, base)
    <3>1. /\ toSave' = toSave \cup {d} /\ saveTimeout' = TRUE
          /\ armed' = IF saveTimeout THEN armed ELSE armed + 1
      BY <2>2 DEF addEvents, scheduleSaveToDatabase
    <3>2. armed' > 0
      BY <3>1 DEF TypeOK, TimerInv
    <3>3. QED
      BY <1>1, <2>1, <3>1, <3>2 DEF TimerInv, Scheduled
  <2>3. CASE NoEvents(d, base)
    BY <1>1, <2>1, <2>3 DEF NoEvents, timerVars, TimerInv, Scheduled
  <2>4. QED
    BY <1>1, <2>2, <2>3
<1>2. ASSUME NEW r \in Runs, saveToDatabase(r)
      PROVE  TimerInv'
  <2>. DEFINE queue == toSave
  <2>1. saveTimeout' = FALSE /\ loaded' = loaded /\ NextKey(r, queue, {})
    BY <1>2 DEF saveToDatabase, cacheVars
  <2>2. toSave' \subseteq loaded'
    BY <2>1, NextKeyTimer DEF TimerInv
  <2>3. ASSUME ~aborted', NEW x \in toSave'
        PROVE  \E s \in Runs : run'[s].pc = Writing /\ x \in run'[s].queue
    <3>1. x \in queue /\ queue \in SUBSET Docs
      BY <2>1, NextKeyTimer DEF TypeOK
    <3> HIDE DEF queue
    <3>2. QED
      BY <2>1, <2>3, <3>1, NextKeyDue
  <2>4. QED
    BY <2>1, <2>2, <2>3 DEF TimerInv, Scheduled
<1>3. ASSUME NEW r \in Runs, NEW hit, NextKey(r, run[r].queue, hit),
             UNCHANGED <<loaded, saveTimeout, armed>>
      PROVE  TimerInv'
  <2>. DEFINE queue == run[r].queue
  <2>1. toSave' \subseteq toSave /\ (aborted => aborted')
    BY <1>3, NextKeyTimer
  <2>2. ASSUME ~aborted', NEW x \in toSave', ~(armed' > 0)
        PROVE  \E s \in Runs : run'[s].pc = Writing /\ x \in run'[s].queue
    <3>1. \/ x \in queue
          \/ \E s \in Runs \ {r} : run[s].pc = Writing /\ x \in run[s].queue
      BY <1>3, <2>1, <2>2 DEF TimerInv, Scheduled
    <3>2. queue \in SUBSET Docs /\ NextKey(r, queue, hit)
      BY <1>3 DEF TypeOK, RunState
    <3> HIDE DEF queue
    <3>3. QED
      BY <2>2, <3>1, <3>2, NextKeyDue
  <2>3. QED
    BY <1>3, <2>1, <2>2 DEF TimerInv, Scheduled
<1>4. CASE \E d \in Docs : GetCached(d)
  <2>1. PICK d \in Docs : GetCached(d)
    BY <1>4
  <2>2. d \in loaded' /\ loaded \ Evicted(d) \subseteq loaded'
    BY <2>1, EvictedFacts DEF GetCached
  <2>3. QED
    BY <2>1, <2>2, <1>1 DEF GetCached
<1>5. CASE \E h \in Handlers, d \in Docs : GetMissing(h, d)
  <2>1. PICK h \in Handlers, d \in Docs : GetMissing(h, d)
    BY <1>5
  <2>2. toSave \subseteq loaded'
    BY <2>1, EvictedFacts DEF GetMissing, TimerInv
  <2>3. QED
    BY <2>1, <2>2 DEF GetMissing, timerVars, TimerInv, Scheduled
<1>6. CASE \E h \in Handlers : DbFind(h) \/ FindFails(h)
  BY <1>6 DEF DbFind, FindFails, cacheVars, timerVars, historyVars, TimerInv, Scheduled
<1>7. CASE \E h \in Handlers : GetLoaded(h)
  <2>1. PICK h \in Handlers : GetLoaded(h)
    BY <1>7
  <2>. DEFINE d == handler[h].doc
  <2>2. d \in Docs
    BY DEF TypeOK, HandlerState
  <2>3. d \in loaded' /\ loaded \ Evicted(d) \subseteq loaded'
    BY <2>1 DEF GetLoaded
  <2>4. addEvents(d, handler[h].read) \/ NoEvents(d, handler[h].read)
    BY <2>1 DEF GetLoaded
  <2>5. UNCHANGED <<run, aborted>>
    BY <2>1 DEF GetLoaded
  <2> HIDE DEF d
  <2>6. QED
    BY <2>2, <2>3, <2>4, <2>5, <1>1
<1>8. CASE \E r \in Runs : TimerFires(r) \/ HttpSave(r)
  BY <1>8, <1>2 DEF TimerFires, HttpSave
<1>9. CASE \E r \in Runs : UpdateDone(r) \/ UpdateFails(r)
  BY <1>9, <1>3 DEF UpdateDone, UpdateFails, cacheVars
<1>10. CASE Crash
  BY <1>10 DEF Crash, TimerInv
<1>11. CASE UNCHANGED vars
  BY <1>11 DEF vars, cacheVars, timerVars, historyVars, TimerInv, Scheduled
<1>12. QED
  BY <1>4, <1>5, <1>6, <1>7, <1>8, <1>9, <1>10, <1>11 DEF Next

(* A pending document stays in memory and is due for a visit by a timer or *)
(* a run (instance.js 264-280, 387-447).                                   *)
THEOREM PendingCorrect == Spec => []PendingSaveIsKept
<1>1. Init => TypeOK /\ CountCoversCache /\ TimerInv
  BY TypeInit, CountInit, TimerInit
<1>2. TypeOK /\ CountCoversCache /\ TimerInv /\ [Next]_vars
        => (TypeOK /\ CountCoversCache /\ TimerInv)'
  BY TypeStep, CountStep, TimerStep
<1>3. TimerInv => PendingSaveIsKept
  BY DEF TimerInv, PendingSaveIsKept
<1>4. QED
  BY <1>1, <1>2, <1>3, PTL DEF Spec
-----------------------------------------------------------------------------
(* Lost edits *)

LEMMA LossInit == Init => LossInv
  BY DEF Init, LossInv, Intact, Writers, Loaders, NoRun, NoRequest, Idle, Writing

(* After a turn of the loop of r only r can have become a writer of x, and *)
(* only with the present content of an x that was in memory.               *)
LEMMA NextKeyWriters ==
  ASSUME TypeOK, NEW r \in Runs, NEW queue \in SUBSET Docs, NEW hit,
         NextKey(r, queue, hit), NEW x \in Docs
  PROVE  \/ /\ Writers(x)' = Writers(x) \ {r}
            /\ x \in loaded => (x \in toSave' <=> x \in toSave)
         \/ /\ Writers(x)' = (Writers(x) \ {r}) \cup {r}
            /\ run'[r].elem = content[x] /\ x \in loaded
            /\ x \notin faulted' => Writers(x) \ {r} = {}
<1>1. CASE run' = [run EXCEPT ![r] = NoRun]
  <2>1. Writers(x)' = Writers(x) \ {r}
    BY <1>1 DEF Writers, TypeOK, NoRun, Idle, Writing
  <2>2. x \in loaded => (x \in toSave' <=> x \in toSave)
    BY <1>1 DEF NextKey, NoRun, TypeOK, Idle, Writing
  <2>3. QED
    BY <2>1, <2>2
<1>2. ASSUME NEW d \in queue, d \in loaded, toSave' = toSave \ {d},
             run' = [run EXCEPT ![r] = [pc |-> Writing, queue |-> queue \ {d},
                                        doc |-> d, elem |-> content[d]]],
             faulted' = faulted \cup hit \cup
                          (IF Writers(d) \ {r} # {} THEN {d} ELSE {})
      PROVE  \/ /\ Writers(x)' = Writers(x) \ {r}
                /\ x \in loaded => (x \in toSave' <=> x \in toSave)
             \/ /\ Writers(x)' = (Writers(x) \ {r}) \cup {r}
                /\ run'[r].elem = content[x] /\ x \in loaded
                /\ x \notin faulted' => Writers(x) \ {r} = {}
  <2>1. CASE d = x
    BY <1>2, <2>1 DEF Writers, TypeOK
  <2>2. CASE d # x
    BY <1>2, <2>2 DEF Writers, TypeOK
  <2>3. QED
    BY <2>1, <2>2
<1>3. QED
  BY <1>1, <1>2 DEF NextKey

(* A turn of the loop of r keeps an unfaulted document x intact, provided  *)
(* its other writers and what is stored now are in order.                  *)
LEMMA NextKeyIntact ==
  ASSUME TypeOK, TimerInv, NEW r \in Runs, NEW queue \in SUBSET Docs, NEW hit,
         NextKey(r, queue, hit), NEW x \in Docs \ faulted', Intact(x),
         UNCHANGED <<loaded, content, handler, accepted>>,
         x \notin toSave /\ Writers(x) \ {r} = {} => stored'[x] = accepted[x]
  PROVE  Intact(x)'
<1>1. \A s \in Runs \ {r} : run'[s] = run[s]
  BY DEF NextKey, TypeOK
<1>2. Loaders(x)' = Loaders(x)
  BY DEF Loaders
<1>3. toSave' \subseteq toSave /\ (x \notin loaded => x \notin toSave)
  BY NextKeyTimer DEF TimerInv
<1>4. CASE /\ Writers(x)' = Writers(x) \ {r}
           /\ x \in loaded => (x \in toSave' <=> x \in toSave)
  <2>1. \A s \in Writers(x)' : s \in Writers(x) /\ run'[s] = run[s]
    BY <1>1, <1>4 DEF Writers
  <2>2. x \notin toSave' => x \notin toSave
    BY <1>3, <1>4
  <2>3. QED
    BY <1>2, <1>4, <2>1, <2>2 DEF Intact
<1>5. CASE /\ Writers(x)' = (Writers(x) \ {r}) \cup {r}
           /\ run'[r].elem = content[x] /\ x \in loaded
           /\ x \notin faulted' => Writers(x) \ {r} = {}
  BY <1>2, <1>5 DEF Intact
<1>6. QED
  BY <1>4, <1>5, NextKeyWriters

(* A call that goes on to use d keeps an unfaulted document x intact: it   *)
(* adds at most one edit, to d, and puts d in the table of pending saves.  *)
LEMMA EventsIntact ==
  ASSUME TypeOK, NEW d \in Docs, NEW base,
         addEvents(d, base) \/ NoEvents(d, base),
         NEW x \in Docs, Intact(x), d = x => base = accepted[x] /\ x \in loaded',
         x \in loaded' => x \in loaded \/ x = d,
         x \in loaded' => Loaders(x)' = {},
         Loaders(x)' \subseteq Loaders(x),
         \A h \in Loaders(x)' : handler'[h] = handler[h],
         UNCHANGED <<run, stored>>
  PROVE  Intact(x)'
<1>1. Writers(x)' = Writers(x)
  BY DEF Writers
<1>2. x \in loaded' => content'[x] = accepted'[x]
  <2>1. CASE d = x
    <3>1. \/ content'[d] = base /\ accepted'[d] = accepted[d]
          \/ \E e : content'[d] = base \cup {e} /\ accepted'[d] = accepted[d] \cup {e}
      BY DEF addEvents, NoEvents, TypeOK
    <3>2. base = accepted[d]
      BY <2>1
    <3>3. QED
      BY <2>1, <3>1, <3>2
  <2>2. CASE d # x
    <3>1. content'[x] = content[x] /\ accepted'[x] = accepted[x]
      BY <2>2 DEF addEvents, NoEvents, TypeOK
    <3>2. QED
      BY <2>2, <3>1 DEF Intact
  <2>3. QED
    BY <2>1, <2>2
<1>3. \/ x \in toSave'
      \/ accepted'[x] = accepted[x] /\ x \notin toSave
  BY DEF addEvents, scheduleSaveToDatabase, NoEvents, timerVars, TypeOK
<1>4. x \notin loaded' => accepted'[x] = accepted[x]
  BY DEF addEvents, NoEvents, TypeOK
<1>5. QED
  BY <1>1, <1>2, <1>3, <1>4 DEF Intact

LEMMA LossStep == TypeOK /\ TimerInv /\ LossInv /\ [Next]_vars => LossInv'
<1> SUFFICES ASSUME TypeOK, TimerInv, LossInv, [Next]_vars,
                    NEW x \in Docs \ faulted'
             PROVE  Intact(x)'
  BY DEF LossInv
<1>0. ASSUME x \notin faulted PROVE Intact(x)
  BY <1>0 DEF LossInv
<1>1. CASE \E d \in Docs : GetCached(d)
  <2>1. PICK d \in Docs : GetCached(d)
    BY <1>1
  <2>2. Intact(x) /\ UNCHANGED <<run, stored, handler>>
    BY <2>1, <1>0 DEF GetCached
  <2>3. Loaders(x)' = Loaders(x)
    BY <2>2 DEF Loaders
  <2>4. loaded' \subseteq loaded /\ d \in loaded /\ d \in loaded'
    BY <2>1, EvictedFacts DEF GetCached
  <2>5. x \in loaded' => Loaders(x)' = {}
    BY <2>2, <2>3, <2>4 DEF Intact
  <2>. DEFINE base == content[d]
  <2>6. addEvents(d, base) \/ NoEvents(d, base)
    BY <2>1 DEF GetCached
  <2>7. d = x => base = accepted[x]
    BY <2>2, <2>4 DEF Intact
  <2> HIDE DEF base
  <2>8. QED
    BY <2>2, <2>3, <2>4, <2>5, <2>6, <2>7, EventsIntact
<1>2. CASE \E h \in Handlers, d \in Docs : GetMissing(h, d)
  <2>1. PICK h \in Handlers, d \in Docs : GetMissing(h, d)
    BY <1>2
  <2>2. Intact(x) /\ UNCHANGED <<content, toSave, run, stored, accepted>>
    BY <2>1, <1>0 DEF GetMissing, timerVars
  <2>3. Writers(x)' = Writers(x)
    BY <2>2 DEF Writers
  <2>4. handler' = [handler EXCEPT ![h] = [pc |-> Finding, doc |-> d, read |-> {}]]
    BY <2>1 DEF GetMissing
  <2>5. loaded' \subseteq loaded
    BY <2>1 DEF GetMissing
  <2>6. CASE d = x
    <3>1. Loaders(x) = {} /\ x \notin loaded
      BY <2>1, <2>6 DEF GetMissing
    <3>2. Loaders(x)' = {h}
      BY <3>1, <2>4, <2>6 DEF Loaders, TypeOK, Idle, Finding
    <3>3. handler'[h].pc # Found
      BY <2>4 DEF TypeOK, Finding, Found
    <3>4. QED
      BY <2>2, <2>3, <2>5, <3>1, <3>2, <3>3 DEF Intact
  <2>7. CASE d # x
    <3>1. /\ Loaders(x)' = Loaders(x)
          /\ \A g \in Loaders(x) : handler'[g] = handler[g]
      BY <2>1, <2>4, <2>7 DEF GetMissing, Loaders, TypeOK
    <3>2. QED
      BY <2>2, <2>3, <2>5, <3>1 DEF Intact
  <2>8. QED
    BY <2>6, <2>7
<1>3. CASE \E h \in Handlers : DbFind(h)
  <2>1. PICK h \in Handlers : DbFind(h)
    BY <1>3
  <2>2. Intact(x) /\ UNCHANGED <<loaded, content, toSave, run, stored, accepted>>
    BY <2>1, <1>0 DEF DbFind, timerVars, cacheVars
  <2>3. Writers(x)' = Writers(x)
    BY <2>2 DEF Writers
  <2>4. \A g \in Handlers : g # h => handler'[g] = handler[g]
    BY <2>1 DEF DbFind, TypeOK
  <2>5. /\ handler[h].pc = Finding
        /\ handler'[h].pc = Found /\ handler'[h].doc = handler[h].doc
        /\ handler'[h].read = stored[handler[h].doc]
    BY <2>1 DEF DbFind, TypeOK, HandlerState
  <2>6. Loaders(x)' = Loaders(x)
    BY <2>4, <2>5 DEF Loaders, Idle, Finding, Found
  <2>7. h \in Loaders(x) => handler'[h].read = accepted[x]
    <3>1. SUFFICES ASSUME h \in Loaders(x) PROVE stored[x] = accepted[x]
      BY <2>5 DEF Loaders
    <3>2. x \notin loaded
      BY <2>2, <3>1 DEF Intact
    <3>3. x \notin toSave
      BY <3>2 DEF TimerInv
    <3>4. handler[h].doc = x
      BY <3>1 DEF Loaders
    <3>5. Writers(x) = {}
      BY <2>1, <3>4 DEF DbFind
    <3>6. QED
      BY <2>2, <3>3, <3>5 DEF Intact
  <2>8. QED
    BY <2>2, <2>3, <2>4, <2>6, <2>7 DEF Intact, Loaders
<1>4. CASE \E h \in Handlers : FindFails(h)
  <2>1. PICK h \in Handlers : FindFails(h)
    BY <1>4
  <2>2. Intact(x) /\ UNCHANGED <<loaded, content, toSave, run, stored, accepted>>
    BY <2>1, <1>0 DEF FindFails, timerVars, cacheVars, historyVars
  <2>3. Writers(x)' = Writers(x)
    BY <2>2 DEF Writers
  <2>4. Loaders(x)' \subseteq Loaders(x) \ {h}
    BY <2>1 DEF FindFails, Loaders, TypeOK, NoRequest, Idle
  <2>5. \A g \in Handlers : g # h => handler'[g] = handler[g]
    BY <2>1 DEF FindFails, TypeOK
  <2>6. QED
    BY <2>2, <2>3, <2>4, <2>5 DEF Intact, Loaders
<1>5. CASE \E h \in Handlers : GetLoaded(h)
  <2>1. PICK h \in Handlers : GetLoaded(h)
    BY <1>5
  <2>. DEFINE d == handler[h].doc  base == handler[h].read
  <2>2. d \in Docs /\ handler[h].pc = Found /\ h \in Loaders(d)
    BY <2>1 DEF GetLoaded, TypeOK, HandlerState, Loaders, Found, Idle
  <2>3. /\ Intact(x) /\ UNCHANGED <<run, stored>> /\ loaded' = loaded \cup {d}
        /\ addEvents(d, base) \/ NoEvents(d, base)
    BY <2>1, <1>0 DEF GetLoaded
  <2>4. Loaders(x)' = Loaders(x) \ {h}
    BY <2>1 DEF GetLoaded, Loaders, TypeOK, NoRequest, Idle
  <2>5. \A g \in Loaders(x)' : handler'[g] = handler[g]
    BY <2>1, <2>4 DEF GetLoaded, TypeOK, Loaders
  <2>6. d = x => base = accepted[x] /\ Loaders(x)' = {}
    BY <2>2, <2>3, <2>4 DEF Intact
  <2>7. x \in loaded' => Loaders(x)' = {}
    BY <2>3, <2>4, <2>6 DEF Intact
  <2> HIDE DEF d, base
  <2>8. QED
    BY <2>2, <2>3, <2>4, <2>5, <2>6, <2>7, EventsIntact
<1>6. CASE \E r \in Runs : TimerFires(r) \/ HttpSave(r)
  <2>1. PICK r \in Runs : saveToDatabase(r)
    BY <1>6 DEF TimerFires, HttpSave
  <2>. DEFINE queue == toSave
  <2>2. /\ NextKey(r, queue, {}) /\ run[r].pc = Idle
        /\ UNCHANGED <<loaded, content, handler, stored, accepted>>
    BY <2>1 DEF saveToDatabase, cacheVars
  <2>3. Intact(x)
    BY <2>2, <1>0 DEF NextKey
  <2>4. Writers(x) \ {r} = Writers(x)
    BY <2>2 DEF Writers, Idle, Writing
  <2>5. x \notin toSave /\ Writers(x) \ {r} = {} => stored'[x] = accepted[x]
    BY <2>2, <2>3, <2>4 DEF Intact
  <2>6. queue \in SUBSET Docs
    BY DEF TypeOK
  <2> HIDE DEF queue
  <2>7. QED
    BY <2>2, <2>3, <2>5, <2>6, NextKeyIntact
<1>7. CASE \E r \in Runs : UpdateDone(r)
  <2>1. PICK r \in Runs : UpdateDone(r)
    BY <1>7
  <2>. DEFINE queue == run[r].queue
  <2>2. /\ NextKey(r, queue, {}) /\ run[r].pc = Writing
        /\ stored' = [stored EXCEPT ![run[r].doc] = run[r].elem]
        /\ UNCHANGED <<loaded, content, handler, accepted>>
    BY <2>1 DEF UpdateDone, cacheVars
  <2>3. Intact(x)
    BY <2>2, <1>0 DEF NextKey
  <2>4. x \notin toSave /\ Writers(x) \ {r} = {} => stored'[x] = accepted[x]
    <3>1. CASE run[r].doc = x
      BY <2>2, <2>3, <3>1 DEF Intact, Writers, TypeOK
    <3>2. CASE run[r].doc # x
      BY <2>2, <2>3, <3>2 DEF Intact, Writers, TypeOK
    <3>3. QED
      BY <3>1, <3>2
  <2>5. queue \in SUBSET Docs
    BY DEF TypeOK, RunState
  <2> HIDE DEF queue
  <2>6. QED
    BY <2>2, <2>3, <2>4, <2>5, NextKeyIntact
<1>8. CASE \E r \in Runs : UpdateFails(r)
  <2>1. PICK r \in Runs : UpdateFails(r)
    BY <1>8
  <2>. DEFINE queue == run[r].queue  hit == {run[r].doc}
  <2>2. /\ NextKey(r, queue, hit) /\ run[r].pc = Writing
        /\ UNCHANGED <<loaded, content, handler, stored, accepted>>
    BY <2>1 DEF UpdateFails, cacheVars
  <2>3. Intact(x) /\ x # run[r].doc
    BY <2>2, <1>0 DEF NextKey
  <2>4. x \notin toSave /\ Writers(x) \ {r} = {} => stored'[x] = accepted[x]
    BY <2>2, <2>3 DEF Intact, Writers
  <2>5. queue \in SUBSET Docs
    BY DEF TypeOK, RunState
  <2> HIDE DEF queue, hit
  <2>6. QED
    BY <2>2, <2>3, <2>4, <2>5, NextKeyIntact
<1>9. CASE Crash
  <2>1. x \notin faulted /\ x \notin toSave /\ Writers(x) = {}
    BY <1>9 DEF Crash
  <2>2. stored'[x] = stored[x]
    BY <1>9, <2>1 DEF Crash
  <2>3. Writers(x)' = {} /\ Loaders(x)' = {} /\ x \notin loaded'
    BY <1>9 DEF Crash, Writers, Loaders, NoRun, NoRequest, Idle, Writing
  <2>4. accepted' = accepted
    BY <1>9 DEF Crash
  <2>5. QED
    BY <1>0, <2>1, <2>2, <2>3, <2>4 DEF Intact
<1>10. CASE UNCHANGED vars
  <2>1. UNCHANGED <<loaded, content, handler, stored, accepted, run, toSave, faulted>>
    BY <1>10 DEF vars, cacheVars, timerVars, historyVars
  <2>2. Writers(x)' = Writers(x) /\ Loaders(x)' = Loaders(x)
    BY <2>1 DEF Writers, Loaders
  <2>3. QED
    BY <1>0, <2>1, <2>2 DEF Intact
<1>11. QED
  BY <1>1, <1>2, <1>3, <1>4, <1>5, <1>6, <1>7, <1>8, <1>9, <1>10 DEF Next
-----------------------------------------------------------------------------
LEMMA Invariance == Spec => []IInv
<1>1. Init => IInv
  BY TypeInit, CountInit, TimerInit, LossInit DEF IInv
<1>2. IInv /\ [Next]_vars => IInv'
  BY TypeStep, CountStep, TimerStep, LossStep DEF IInv
<1>3. QED
  BY <1>1, <1>2, PTL DEF Spec

LEMMA LossConsequence == IInv => NoSilentLoss
<1> SUFFICES ASSUME IInv, NEW x \in Docs \ faulted
             PROVE  Visible(x) = accepted[x]
  BY DEF NoSilentLoss
<1>1. Intact(x)
  BY DEF IInv, LossInv
<1>2. x \notin loaded => x \notin toSave
  BY DEF IInv, TimerInv
<1>3. QED
  BY <1>1, <1>2 DEF Intact, Visible

(* An acknowledged edit is part of the document as long as no named fault  *)
(* has hit the document (instance.js 255-447).                             *)
THEOREM LossCorrect == Spec => []NoSilentLoss
  BY Invariance, LossConsequence, PTL

(* The store implements the edit log: each step acknowledges one edit or   *)
(* is a fault (possibly of no document).                                   *)
THEOREM Refinement == Spec => ImplementsEditLog
<1>1. Init => Log!LogInit
  BY DEF Init, Log!LogInit, Visible, Writers, NoRun, Idle, Writing
<1>2. ASSUME IInv, IInv', [Next]_vars
      PROVE  [Log!LogNext]_(Log!logVars)
  <2>. DEFINE shown == [d \in Docs |-> Visible(d)]
  <2>1. /\ \A x \in Docs \ faulted : shown[x] = accepted[x]
        /\ \A x \in Docs \ faulted' : shown'[x] = accepted'[x]
    <3>1. NoSilentLoss /\ NoSilentLoss'
      BY <1>2, LossConsequence, PTL
    <3>2. QED
      BY <3>1 DEF NoSilentLoss
  <2>2. ASSUME NEW d \in Docs, NEW e \in Unused, faulted' = faulted,
               accepted' = [accepted EXCEPT ![d] = @ \cup {e}]
        PROVE  Log!Accept(d, e)
    <3>1. \A x \in Docs : accepted'[x] = IF x = d THEN accepted[x] \cup {e}
                                         ELSE accepted[x]
      BY <1>2, <2>2 DEF IInv, TypeOK
    <3> HIDE DEF shown
    <3>2. \A x \in Docs \ faulted :
             shown'[x] = IF x = d THEN shown[x] \cup {e} ELSE shown[x]
      BY <2>1, <2>2, <3>1
    <3>3. QED
      BY <2>2, <3>2 DEF Log!Accept, Unused, shown
  <2>3. ASSUME faulted \subseteq faulted', accepted' = accepted
        PROVE  Log!Fault(faulted')
    BY <2>1, <2>3 DEF Log!Fault
  <2>4. faulted' \in SUBSET Docs
    BY <1>2 DEF IInv, TypeOK
  <2>5. ASSUME NEW d \in Docs, NEW base,
               addEvents(d, base) \/ NoEvents(d, base), faulted' = faulted
        PROVE  Log!LogNext
    <3>1. CASE addEvents(d, base)
      <4>1. PICK e \in Unused : accepted' = [accepted EXCEPT ![d] = @ \cup {e}]
        BY <3>1 DEF addEvents
      <4>2. e \in Edits
        BY DEF Unused
      <4>3. QED
        BY <2>2, <2>5, <4>1, <4>2 DEF Log!LogNext
    <3>2. CASE NoEvents(d, base)
      BY <2>3, <2>4, <2>5, <3>2 DEF NoEvents, Log!LogNext
    <3>3. QED
      BY <2>5, <3>1, <3>2
  <2>6. \/ \E d \in Docs : \E base : /\ addEvents(d, base) \/ NoEvents(d, base)
                                     /\ faulted' = faulted
        \/ faulted \subseteq faulted' /\ accepted' = accepted
    <3>1. CASE \E d \in Docs : GetCached(d)
      BY <3>1 DEF GetCached
    <3>2. CASE \E h \in Handlers : GetLoaded(h)
      <4>1. \A h \in Handlers : handler[h].doc \in Docs
        BY <1>2 DEF IInv, TypeOK, HandlerState
      <4>2. QED
        BY <3>2, <4>1 DEF GetLoaded
    <3>3. CASE \E h \in Handlers, d \in Docs : GetMissing(h, d)
      BY <3>3 DEF GetMissing
    <3>4. CASE \E h \in Handlers : DbFind(h) \/ FindFails(h)
      BY <3>4 DEF DbFind, FindFails, historyVars
    <3>5. CASE \E r \in Runs : TimerFires(r) \/ HttpSave(r) \/ UpdateDone(r)
                                 \/ UpdateFails(r)
      BY <3>5 DEF TimerFires, HttpSave, saveToDatabase, UpdateDone, UpdateFails,
                  NextKey
    <3>6. CASE Crash
      BY <3>6 DEF Crash
    <3>7. CASE UNCHANGED vars
      BY <3>7 DEF vars, historyVars
    <3>8. QED
      BY <1>2, <3>1, <3>2, <3>3, <3>4, <3>5, <3>6, <3>7 DEF Next
  <2>7. QED
    BY <2>3, <2>4, <2>5, <2>6 DEF Log!LogNext
<1>3. QED
  BY <1>1, <1>2, Invariance, PTL DEF Spec, ImplementsEditLog, Log!LogSpec
-----------------------------------------------------------------------------
(* Save runs that do not overlap *)

OneRun == \A r, s \in Runs : r = s

(* What a run still has to visit is pending, and so in memory.             *)
QueueInv ==
  /\ ~aborted
  /\ \A r \in Runs : run[r].pc = Writing => run[r].queue \subseteq toSave

LEMMA QueueInit == Init => QueueInv
  BY DEF Init, QueueInv, NoRun, Idle, Writing

LEMMA NextKeyQueue ==
  ASSUME OneRun, TypeOK, TimerInv, QueueInv, NEW r \in Runs, NEW queue \in SUBSET toSave,
         NEW hit, NextKey(r, queue, hit)
  PROVE  QueueInv'
<1>1. \A s \in Runs : s = r
  BY DEF OneRun
<1>2. run \in [Runs -> RunState] /\ NoRun.pc # Writing
  BY DEF TypeOK, NoRun, Idle, Writing
<1>3. queue \subseteq loaded
  BY DEF TimerInv
<1>4. CASE run' = [run EXCEPT ![r] = NoRun] /\ ~aborted'
  BY <1>1, <1>2, <1>4 DEF QueueInv
<1>5. ASSUME NEW d \in queue, toSave' = toSave \ {d}, ~aborted',
             run' = [run EXCEPT ![r] = [pc |-> Writing, queue |-> queue \ {d},
                                        doc |-> d, elem |-> content[d]]]
      PROVE  QueueInv'
  <2>1. run'[r].queue = queue \ {d}
    BY <1>2, <1>5
  <2> QED
    BY <1>1, <1>5, <2>1 DEF QueueInv
<1>6. ~aborted
  BY DEF QueueInv
<1>7. CASE queue = {}
  BY <1>4, <1>6, <1>7 DEF NextKey
<1>8. ASSUME NEW d \in queue, d \in loaded,
             toSave' = toSave \ {d}, aborted' = aborted,
             run' = [run EXCEPT ![r] = [pc |-> Writing, queue |-> queue \ {d},
                                        doc |-> d, elem |-> content[d]]]
      PROVE  QueueInv'
  BY <1>5, <1>6, <1>8
<1> QED
  BY <1>3, <1>7, <1>8 DEF NextKey

LEMMA QueueStep ==
  ASSUME OneRun
  PROVE  TypeOK /\ TimerInv /\ QueueInv /\ [Next]_vars => QueueInv'
<1> SUFFICES ASSUME TypeOK, TimerInv, QueueInv, [Next]_vars
             PROVE  QueueInv'
  OBVIOUS
<1>1. ASSUME UNCHANGED <<run, aborted>>, toSave \subseteq toSave'
      PROVE  QueueInv'
  BY <1>1 DEF QueueInv
<1>2. \A d, base : addEvents(d, base) \/ NoEvents(d, base) => toSave \subseteq toSave'
  BY DEF addEvents, NoEvents, scheduleSaveToDatabase, timerVars
<1>3. CASE \E d \in Docs : GetCached(d)
  BY <1>1, <1>2, <1>3 DEF GetCached
<1>4. CASE \E h \in Handlers, d \in Docs : GetMissing(h, d)
  BY <1>1, <1>4 DEF GetMissing, timerVars
<1>5. CASE \E h \in Handlers : DbFind(h) \/ FindFails(h)
  BY <1>1, <1>5 DEF DbFind, FindFails, timerVars, historyVars
<1>6. CASE \E h \in Handlers : GetLoaded(h)
  BY <1>1, <1>2, <1>6 DEF GetLoaded
<1>7. CASE \E r \in Runs : TimerFires(r) \/ HttpSave(r)
  BY <1>7, NextKeyQueue DEF TimerFires, HttpSave, saveToDatabase
<1>8. CASE \E r \in Runs : UpdateDone(r) \/ UpdateFails(r)
  <2>1. PICK r \in Runs : UpdateDone(r) \/ UpdateFails(r)
    BY <1>8
  <2>2. run[r].queue \subseteq toSave
    BY <2>1 DEF UpdateDone, UpdateFails, QueueInv
  <2> QED
    BY <2>1, <2>2, NextKeyQueue DEF UpdateDone, UpdateFails
<1>9. CASE Crash
  <2>1. run' = [r \in Runs |-> NoRun] /\ aborted' = aborted
    BY <1>9 DEF Crash
  <2> QED
    BY <2>1 DEF QueueInv, NoRun, Idle, Writing
<1>10. CASE UNCHANGED vars
  BY <1>1, <1>10 DEF vars, timerVars, historyVars
<1> QED
  BY <1>3, <1>4, <1>5, <1>6, <1>7, <1>8, <1>9, <1>10 DEF Next

(* As long as no run of saveToDatabase begins before the one before it has *)
(* come to its end, none throws: it finds each instance it has to visit    *)
(* in memory (instance.js 402-447).                                        *)
THEOREM OneRunNeverAborts ==
  ASSUME OneRun
  PROVE  Spec => []NeverAborts
<1>1. Init => TypeOK /\ CountCoversCache /\ TimerInv /\ QueueInv
  BY TypeInit, CountInit, TimerInit, QueueInit
<1>2. TypeOK /\ CountCoversCache /\ TimerInv /\ QueueInv /\ [Next]_vars
        => (TypeOK /\ CountCoversCache /\ TimerInv /\ QueueInv)'
  BY TypeStep, CountStep, TimerStep, QueueStep
<1>3. QueueInv => NeverAborts
  BY DEF QueueInv, NeverAborts
<1> QED
  BY <1>1, <1>2, <1>3, PTL DEF Spec
-----------------------------------------------------------------------------
(* The history of a document *)

HIDE StoreAssumption
USE HistoryAssumption

(* A set of naturals with 0 and every successor has them all.              *)
LEMMA SetInduction ==
  ASSUME NEW S \in SUBSET Nat, 0 \in S, \A n \in S : n + 1 \in S
  PROVE  S = Nat
<1> DEFINE T == Nat \ S
<1> DEFINE R == OpToRel(<, Nat)
<1>1. SUFFICES ASSUME T # {}
               PROVE  FALSE
  OBVIOUS
<1>2. IsWellFoundedOn(R, Nat)
  BY NatLessThanWellFounded
<1>3. T \subseteq Nat
  OBVIOUS
<1>4. \E x \in T : \A y \in T : <<y, x>> \notin R
  <2> HIDE DEF R, T
  <2> QED
    BY <1>1, <1>2, <1>3, WFMin
<1>5. PICK x \in Nat \ S : \A y \in Nat \ S : <<y, x>> \notin R
  BY <1>4
<1>6. \A y \in Nat \ S : ~(y < x)
  BY <1>5 DEF OpToRel
<1>7. x \in Nat /\ x \notin S /\ x # 0
  BY <1>5
<1>8. x - 1 \in S
  BY <1>6, <1>7
<1>9. (x - 1) + 1 \in S
  BY <1>8
<1> QED
  BY <1>7, <1>9

StepsOf(V) == [client : Clients, first : Nat \ {0}, last : 0 .. V]

Contiguous(s) == \A i \in 1 .. Len(s) - 1 : s[i].last + 1 = s[i + 1].first
MadeBy(s, a) ==
  \A i \in DOMAIN s : \A k \in s[i].first .. s[i].last : a[k] = s[i].client

(* Whether the steps are kept that were made since the document was loaded *)
(* (or as many as fit), and one by one.                                    *)
Fresh ==
  /\ Len(steps) = MaxSteps \/ Len(steps) >= version - loadedAt
  /\ \A i \in DOMAIN steps :
       version - (Len(steps) - i) > loadedAt =>
         /\ steps[i].first = version - (Len(steps) - i)
         /\ steps[i].last = version - (Len(steps) - i)

(* What was sent to the database has the last steps made, too.             *)
GoodCopy(x) ==
  /\ x.version \in Nat
  /\ x.steps \in Seq(StepsOf(x.version)) /\ Len(x.steps) <= MaxSteps
  /\ x.steps # <<>> => x.steps[Len(x.steps)].last = x.version
  /\ x.author \in Seq(Clients) /\ Len(x.author) = x.version
  /\ Contiguous(x.steps) /\ MadeBy(x.steps, x.author)

CommentEvents == [type : {"create", "delete"}, id : CommentIds]

(* A comment that was created since the document was loaded is there,      *)
(* unless it was deleted or lost.  It is new then, so that no event before *)
(* its creation deletes it.                                                *)
CommentsInv ==
  /\ known \in Seq(CommentIds) /\ events \in Seq(CommentEvents)
  /\ Len(events) = commentVersion
  /\ comments \subseteq ToSet(known) /\ lost \subseteq ToSet(known)
  /\ \A x \in saves : x.comments \subseteq ToSet(known)
  /\ \A e \in ToSet(events) : e.id \in ToSet(known)
  /\ \A e \in ToSet(events) : e.type = "create" =>
       (e.id \in comments <=> e.id \notin lost /\ Event("delete", e.id) \notin ToSet(events))

HistoryInv ==
  /\ version \in Nat /\ loadedAt \in 0 .. version
  /\ steps \in Seq(StepsOf(version))
  /\ author \in Seq(Clients)
  /\ CommentsInv
  /\ \A x \in saves : GoodCopy(x)
  /\ HistoryIsTail
  /\ Fresh

(* Neighbouring steps of one client stand for the numbers between them.    *)
RunsTo(s, d) ==
  \A p \in DOMAIN s :
    /\ p + d \in DOMAIN s
    /\ \A j \in p .. p + d - 1 : s[j].client = s[j + 1].client
    => /\ s[p + d].client = s[p].client
       /\ \A k \in s[p].first .. s[p + d].last :
            \E j \in p .. p + d : k \in s[j].first .. s[j].last /\ s[j].client = s[p].client

LEMMA RunsOfOneClient ==
  ASSUME NEW V \in Nat, NEW s \in Seq(StepsOf(V)), Contiguous(s)
  PROVE  \A d \in Nat : RunsTo(s, d)
<1> DEFINE S == {d \in Nat : RunsTo(s, d)}
<1>1. /\ Len(s) \in Nat /\ DOMAIN s = 1 .. Len(s)
      /\ \A i \in 1 .. Len(s) : s[i].client \in Clients /\ s[i].first \in Nat /\ s[i].last \in Nat
  <2>1. Len(s) \in Nat /\ DOMAIN s = 1 .. Len(s) /\ \A i \in 1 .. Len(s) : s[i] \in StepsOf(V)
    BY LenProperties, ElementOfSeq
  <2>2. \A x \in StepsOf(V) : x.client \in Clients /\ x.first \in Nat /\ x.last \in Nat
    BY DEF StepsOf
  <2> QED
    BY <2>1, <2>2
<1>2. RunsTo(s, 0)
  BY <1>1 DEF RunsTo
<1>3. ASSUME NEW d \in Nat, RunsTo(s, d)
      PROVE  RunsTo(s, d + 1)
  <2> SUFFICES ASSUME NEW p \in DOMAIN s, p + (d + 1) \in DOMAIN s,
                      \A j \in p .. p + (d + 1) - 1 : s[j].client = s[j + 1].client
               PROVE  /\ s[p + (d + 1)].client = s[p].client
                      /\ \A k \in s[p].first .. s[p + (d + 1)].last :
                           \E j \in p .. p + (d + 1) :
                             k \in s[j].first .. s[j].last /\ s[j].client = s[p].client
    BY DEF RunsTo
  <2>1. p + d \in DOMAIN s /\ p + d \in 1 .. Len(s) - 1 /\ p + (d + 1) = (p + d) + 1
    BY <1>1
  <2>2. \A j \in p .. p + d - 1 : s[j].client = s[j + 1].client
    <3>1. p \in Nat /\ d \in Nat
      BY <1>1
    <3>2. \A j \in p .. p + d - 1 : j \in p .. p + (d + 1) - 1
      BY <3>1
    <3> QED
      BY <3>2
  <2>3. /\ s[p + d].client = s[p].client
        /\ \A k \in s[p].first .. s[p + d].last :
             \E j \in p .. p + d : k \in s[j].first .. s[j].last /\ s[j].client = s[p].client
    BY <1>3, <2>1, <2>2 DEF RunsTo
  <2>4. s[p + d].last + 1 = s[p + (d + 1)].first
    BY <2>1 DEF Contiguous
  <2>5. s[p + (d + 1)].client = s[p].client
    <3>1. p \in Nat /\ d \in Nat
      BY <1>1
    <3>2. p + d \in p .. p + (d + 1) - 1
      BY <3>1
    <3>3. s[p + d].client = s[(p + d) + 1].client
      BY <3>2
    <3> QED
      BY <2>1, <2>3, <3>3
  <2>6. ASSUME NEW k \in s[p].first .. s[p + (d + 1)].last
        PROVE  \E j \in p .. p + (d + 1) :
                 k \in s[j].first .. s[j].last /\ s[j].client = s[p].client
    <3>1. PICK m, e : m = p + d /\ e = p + (d + 1)
      OBVIOUS
    <3>2. p \in 1 .. Len(s) /\ m \in 1 .. Len(s) /\ e \in 1 .. Len(s) /\ e = m + 1 /\ p <= m
      BY <1>1, <2>1, <3>1
    <3>3. PICK fp, lm, fe, le :
            fp = s[p].first /\ lm = s[m].last /\ fe = s[e].first /\ le = s[e].last
      OBVIOUS
    <3>4. fp \in Nat /\ lm \in Nat /\ fe \in Nat /\ le \in Nat
      BY <1>1, <3>2, <3>3
    <3>5. lm + 1 = fe /\ k \in fp .. le
      BY <2>4, <2>6, <3>1, <3>3
    <3>6. CASE k <= lm
      <4>1. k \in fp .. lm
        BY <3>4, <3>5, <3>6
      <4>2. PICK j \in p .. m : k \in s[j].first .. s[j].last /\ s[j].client = s[p].client
        BY <4>1, <2>3, <3>1, <3>3
      <4>3. j \in p .. e
        BY <3>2
      <4> QED
        BY <4>2, <4>3, <3>1
    <3>7. CASE ~(k <= lm)
      <4>1. k \in fe .. le
        BY <3>4, <3>5, <3>7
      <4>2. e \in p .. e
        BY <3>2
      <4> QED
        BY <4>1, <4>2, <2>5, <3>1, <3>3
    <3> QED
      BY <3>6, <3>7
  <2> QED
    BY <2>5, <2>6
<1>4. S = Nat
  <2>1. 0 \in S /\ \A d \in S : d + 1 \in S
    BY <1>2, <1>3
  <2>2. S \in SUBSET Nat
    OBVIOUS
  <2> HIDE DEF S
  <2> QED
    BY <2>1, <2>2, SetInduction
<1> QED
  BY <1>4

(* Merging keeps what there is to say of the steps.                        *)
LEMMA MergedSteps ==
  ASSUME NEW V \in Nat, NEW s \in Seq(StepsOf(V)), NEW a, Contiguous(s), MadeBy(s, a),
         Len(s) > 1, s[Len(s)].last = V, NEW ends \in Cuts(s), NEW m, m = MergedAt(s, ends)
  PROVE  /\ m \in Seq(StepsOf(V)) /\ Len(m) <= Len(s) /\ m # <<>> /\ m[Len(m)].last = V
         /\ Contiguous(m) /\ MadeBy(m, a)
<1>1. /\ Len(s) \in Nat /\ DOMAIN s = 1 .. Len(s)
      /\ \A i \in 1 .. Len(s) :
           s[i].client \in Clients /\ s[i].first \in Nat \ {0} /\ s[i].last \in 0 .. V
  <2>1. Len(s) \in Nat /\ DOMAIN s = 1 .. Len(s) /\ \A i \in 1 .. Len(s) : s[i] \in StepsOf(V)
    BY LenProperties, ElementOfSeq
  <2>2. \A x \in StepsOf(V) : x.client \in Clients /\ x.first \in Nat \ {0} /\ x.last \in 0 .. V
    BY DEF StepsOf
  <2> QED
    BY <2>1, <2>2
<1>2. PICK n \in 1 .. Len(s) : ends \in [1 .. n -> 1 .. Len(s)]
  BY DEF Cuts, Ends
<1>3. ends \in Seq(1 .. Len(s)) /\ Len(ends) = n /\ DOMAIN ends = 1 .. n
  BY <1>1, <1>2
<1>4. /\ ends[n] = Len(s)
      /\ \A i, j \in 1 .. n : i < j => ends[i] < ends[j]
      /\ \A i \in 1 .. Len(s) - 1 :
           s[i].client # s[i + 1].client => \E x \in 1 .. n : i = ends[x]
  <2>1. \A i : i \in Range(ends) => \E x \in 1 .. n : i = ends[x]
    BY <1>3 DEF Range
  <2> QED
    BY <1>3, <2>1 DEF Cuts, Ends
<1>5. PICK st : st = [i \in 1 .. n |-> IF i = 1 THEN 1 ELSE ends[i - 1] + 1]
  OBVIOUS
<1>6. ASSUME NEW i \in 1 .. n
      PROVE  /\ st[i] \in 1 .. Len(s) /\ ends[i] \in 1 .. Len(s) /\ st[i] <= ends[i]
             /\ \A x \in 1 .. n : x < i => ends[x] < st[i]
  <2>1. ends[i] \in 1 .. Len(s)
    BY <1>2
  <2>2. CASE i = 1
    BY <1>1, <1>5, <2>1, <2>2
  <2>3. CASE i # 1
    <3>1. i - 1 \in 1 .. n /\ i - 1 < i
      BY <1>1, <2>3
    <3>2. ends[i - 1] \in 1 .. Len(s) /\ ends[i - 1] < ends[i] /\ st[i] = ends[i - 1] + 1
      BY <1>2, <1>4, <1>5, <2>3, <3>1
    <3>3. ASSUME NEW x \in 1 .. n, x < i
          PROVE  ends[x] < st[i]
      <4>1. x = i - 1 \/ x < i - 1
        BY <1>1, <3>3
      <4>2. ends[x] \in 1 .. Len(s)
        BY <1>2
      <4>3. ends[x] = ends[i - 1] \/ ends[x] < ends[i - 1]
        BY <1>4, <3>1, <4>1
      <4> QED
        BY <4>2, <4>3, <3>2
    <3> QED
      BY <1>1, <2>1, <3>2, <3>3
  <2> QED
    BY <2>2, <2>3
<1>7. m = [i \in 1 .. n |-> Step(s[st[i]].client, s[st[i]].first, s[ends[i]].last)]
  BY <1>3, <1>5 DEF MergedAt
<1>8. \A i \in 1 .. n : /\ m[i] \in StepsOf(V) /\ m[i].client = s[st[i]].client
                        /\ m[i].first = s[st[i]].first /\ m[i].last = s[ends[i]].last
  <2> SUFFICES ASSUME NEW i \in 1 .. n
               PROVE  /\ m[i] \in StepsOf(V) /\ m[i].client = s[st[i]].client
                      /\ m[i].first = s[st[i]].first /\ m[i].last = s[ends[i]].last
    OBVIOUS
  <2>1. PICK c, f, l : c = s[st[i]].client /\ f = s[st[i]].first /\ l = s[ends[i]].last
    OBVIOUS
  <2>2. c \in Clients /\ f \in Nat \ {0} /\ l \in 0 .. V
    BY <1>1, <1>6, <2>1
  <2>3. m[i] = [client |-> c, first |-> f, last |-> l]
    BY <1>7, <2>1 DEF Step
  <2>4. [client |-> c, first |-> f, last |-> l] \in StepsOf(V)
    BY <2>2 DEF StepsOf
  <2>5. m[i].client = c /\ m[i].first = f /\ m[i].last = l
    BY <2>3
  <2> QED
    BY <2>1, <2>3, <2>4, <2>5
<1>9. m \in Seq(StepsOf(V)) /\ Len(m) = n /\ DOMAIN m = 1 .. n
  <2>1. n \in Nat
    BY <1>1
  <2>2. m \in [1 .. n -> StepsOf(V)]
    <3> HIDE DEF StepsOf
    <3>1. DOMAIN m = 1 .. n /\ m = [i \in 1 .. n |-> m[i]]
      BY <1>7
    <3> QED
      BY <3>1, <1>8
  <2>3. m \in Seq(StepsOf(V))
    BY <2>1, <2>2, IsASeq
  <2> QED
    BY <2>1, <2>2, <2>3, LenProperties
<1>10. Contiguous(m)
  <2> SUFFICES ASSUME NEW i \in 1 .. n - 1
               PROVE  m[i].last + 1 = m[i + 1].first
    BY <1>9 DEF Contiguous
  <2>1. i \in 1 .. n /\ i + 1 \in 1 .. n /\ i + 1 # 1 /\ (i + 1) - 1 = i /\ i < i + 1
    BY <1>1
  <2>2. st[i + 1] = ends[i] + 1
    BY <1>5, <2>1
  <2>3. ends[i] \in 1 .. Len(s) - 1
    <3>1. ends[i] < ends[i + 1]
      BY <1>4, <2>1
    <3> QED
      BY <3>1, <1>1, <1>6, <2>1
  <2>4. s[ends[i]].last + 1 = s[ends[i] + 1].first
    BY <2>3 DEF Contiguous
  <2> QED
    BY <1>8, <2>1, <2>2, <2>4
<1>11. MadeBy(m, a)
  <2> SUFFICES ASSUME NEW i \in 1 .. n, NEW k \in m[i].first .. m[i].last
               PROVE  a[k] = m[i].client
    BY <1>9 DEF MadeBy
  <2>1. PICK p, e, d : p = st[i] /\ e = ends[i] /\ d = e - p
    OBVIOUS
  <2>2. /\ p \in 1 .. Len(s) /\ e \in 1 .. Len(s) /\ p <= e /\ d \in Nat /\ p + d = e
    BY <1>1, <1>6, <2>1
  <2>3. \A j \in p .. p + d - 1 : s[j].client = s[j + 1].client
    <3> SUFFICES ASSUME NEW j \in p .. e - 1, s[j].client # s[j + 1].client
                 PROVE  FALSE
      BY <2>2
    <3>1. j \in 1 .. Len(s) - 1
      BY <1>1, <2>2
    <3>2. PICK x \in 1 .. n : j = ends[x]
      BY <1>4, <3>1
    <3>3. x < i \/ x = i \/ i < x
      BY <1>1
    <3>4. x < i => j < p
      BY <1>6, <2>1, <3>2
    <3>5. i < x => e < j
      BY <1>4, <2>1, <3>2
    <3>6. x = i => j = e
      BY <2>1, <3>2
    <3> QED
      BY <2>2, <3>1, <3>3, <3>4, <3>5, <3>6, <1>1
  <2>4. RunsTo(s, d)
    BY <2>2, RunsOfOneClient
  <2>5. \A l \in s[p].first .. s[p + d].last :
          \E j \in p .. p + d : l \in s[j].first .. s[j].last /\ s[j].client = s[p].client
    BY <1>1, <2>2, <2>3, <2>4 DEF RunsTo
  <2>6. k \in s[p].first .. s[p + d].last /\ m[i].client = s[p].client
    BY <1>8, <2>1, <2>2
  <2>7. PICK j \in p .. p + d : k \in s[j].first .. s[j].last /\ s[j].client = s[p].client
    BY <2>5, <2>6
  <2>8. j \in DOMAIN s
    BY <1>1, <2>2
  <2> QED
    BY <2>6, <2>7, <2>8 DEF MadeBy
<1> QED
  <2>1. m # <<>> /\ n \in 1 .. n /\ n <= Len(s)
    BY <1>1, <1>9, EmptySeq
  <2>2. m[n].last = V
    BY <1>4, <1>8, <2>1
  <2> QED
    BY <1>9, <1>10, <1>11, <2>1, <2>2

(* What is left of the steps when some more are appended.                  *)
Kept(t) == IF Len(t) > MaxSteps THEN Len(t) - MaxSteps ELSE 0

LEMMA TrimmedSteps ==
  ASSUME NEW T, NEW t \in Seq(T)
  PROVE  /\ Trimmed(t) \in Seq(T) /\ Kept(t) \in 0 .. Len(t)
         /\ Len(Trimmed(t)) = Len(t) - Kept(t)
         /\ \A i \in 1 .. Len(t) - Kept(t) : Trimmed(t)[i] = t[i + Kept(t)]
<1>1. Len(t) \in Nat
  BY LenProperties
<1>2. CASE Len(t) > MaxSteps
  <2>1. PICK k : k = Len(t) - MaxSteps
    OBVIOUS
  <2>2. k \in 1 .. Len(t) /\ Kept(t) = k
    BY <1>1, <1>2, <2>1 DEF Kept
  <2>3. Trimmed(t) = SubSeq(t, k + 1, Len(t))
    <3>1. Trimmed(t) = Slice(t, k)
      BY <1>2, <2>1 DEF Trimmed
    <3>2. k >= 0
      BY <1>1, <2>2
    <3> QED
      BY <3>1, <3>2 DEF Slice
  <2>4. SubSeq(t, k + 1, Len(t)) = [i \in 1 .. Len(t) - k |-> t[i + k]]
    BY <1>1, <2>2
  <2> QED
    BY <1>1, <2>2, <2>3, <2>4, SubSeqProperties, LenProperties
<1>3. CASE ~(Len(t) > MaxSteps)
  BY <1>1, <1>3 DEF Trimmed, Kept
<1> QED
  BY <1>2, <1>3

(* The elements of a sequence, of one with an element more, and of a part. *)
LEMMA ToSetEmpty == ToSet(<<>>) = {}
BY DEF ToSet

LEMMA ToSetAppend ==
  ASSUME NEW S, NEW s \in Seq(S), NEW x \in S
  PROVE  ToSet(Append(s, x)) = ToSet(s) \cup {x}
<1>1. /\ Len(s) \in Nat /\ DOMAIN s = 1 .. Len(s)
      /\ DOMAIN Append(s, x) = 1 .. Len(s) + 1
      /\ \A i \in 1 .. Len(s) : Append(s, x)[i] = s[i]
      /\ Append(s, x)[Len(s) + 1] = x
  BY LenProperties, AppendProperties
<1>2. PICK a, n : a = Append(s, x) /\ n = Len(s)
  OBVIOUS
<1>3. \A y : y \in ToSet(a) <=> \E i \in 1 .. n + 1 : a[i] = y
  BY <1>1, <1>2 DEF ToSet
<1>4. \A y : y \in ToSet(s) <=> \E i \in 1 .. n : s[i] = y
  BY <1>1, <1>2 DEF ToSet
<1>5. n \in Nat /\ n + 1 \in 1 .. n + 1 /\ \A i \in 1 .. n : i \in 1 .. n + 1
  BY <1>1, <1>2
<1>6. \A i \in 1 .. n + 1 : i \in 1 .. n \/ i = n + 1
  BY <1>1, <1>2
<1>7. /\ \A i \in 1 .. n : a[i] = s[i]
      /\ a[n + 1] = x
  BY <1>1, <1>2
<1> QED
  BY <1>2, <1>3, <1>4, <1>5, <1>6, <1>7

LEMMA InitHistory ==
  HistoryInit => HistoryInv
<1> SUFFICES ASSUME HistoryInit
             PROVE  HistoryInv
  OBVIOUS
<1>1. \A T : <<>> \in Seq(T) /\ Len(<<>>) = 0
  BY EmptySeq, LenProperties
<1> QED
  BY <1>1, ToSetEmpty DEF HistoryInit, HistoryInv, CommentsInv, HistoryIsTail, Fresh

(* Each step a client adds is kept apart, and takes the place of older ones*)
(* once there are too many.                                                *)
LEMMA StepsAreAdded ==
  ASSUME HistoryInv, NEW c \in Clients, NEW n \in 0 .. MaxBatch, addSteps(c, n)
  PROVE  /\ steps' \in Seq(StepsOf(version'))
         /\ author' \in Seq(Clients)
         /\ HistoryIsTail'
         /\ Fresh'
<1>1. PICK V, L, s, au, K :
        V = version /\ L = loadedAt /\ s = steps /\ au = author /\ K = Len(steps)
  OBVIOUS
<1>2. /\ V \in Nat /\ L \in 0 .. V /\ s \in Seq(StepsOf(V)) /\ au \in Seq(Clients) /\ K = Len(s)
      /\ Len(au) = V /\ K <= MaxSteps
  BY <1>1 DEF HistoryInv, HistoryIsTail
<1>3. /\ (K = MaxSteps) \/ (K >= V - L)
      /\ \A i \in DOMAIN s : V - (K - i) > L =>
           s[i].first = V - (K - i) /\ s[i].last = V - (K - i)
      /\ s # <<>> => s[K].last = V
      /\ \A i \in 1 .. K - 1 : s[i].last + 1 = s[i + 1].first
      /\ \A i \in DOMAIN s : \A k \in s[i].first .. s[i].last : au[k] = s[i].client
  BY <1>1 DEF HistoryInv, HistoryIsTail, Fresh
<1>4. /\ K \in Nat /\ DOMAIN s = 1 .. K /\ n \in Nat
      /\ \A i \in 1 .. K : /\ s[i] \in StepsOf(V) /\ s[i].client \in Clients
                           /\ s[i].first \in Nat \ {0} /\ s[i].last \in 0 .. V
  <2>1. K \in Nat /\ DOMAIN s = 1 .. K /\ \A i \in 1 .. K : s[i] \in StepsOf(V)
    BY <1>2, LenProperties, ElementOfSeq
  <2>2. \A x \in StepsOf(V) : x.client \in Clients /\ x.first \in Nat \ {0} /\ x.last \in 0 .. V
    BY DEF StepsOf
  <2> QED
    BY <2>1, <2>2
<1>5. PICK W, ext, ea :
        W = V + n /\ ext = [i \in 1 .. n |-> Step(c, V + i, V + i)] /\ ea = [i \in 1 .. n |-> c]
  OBVIOUS
<1>6. W \in Nat /\ version' = W /\ loadedAt' = L
  BY <1>1, <1>2, <1>4, <1>5 DEF addSteps
<1>7. \A i \in 1 .. n : /\ ext[i] \in StepsOf(W) /\ ext[i].client = c
                        /\ ext[i].first = V + i /\ ext[i].last = V + i
  <2> SUFFICES ASSUME NEW i \in 1 .. n
               PROVE  /\ ext[i] \in StepsOf(W) /\ ext[i].client = c
                      /\ ext[i].first = V + i /\ ext[i].last = V + i
    OBVIOUS
  <2>1. PICK x : x = V + i
    OBVIOUS
  <2>2. x \in Nat \ {0} /\ x \in 0 .. W
    BY <1>2, <1>4, <1>5, <2>1
  <2>3. ext[i] = [client |-> c, first |-> x, last |-> x]
    BY <1>5, <2>1 DEF Step
  <2>4. [client |-> c, first |-> x, last |-> x] \in StepsOf(W)
    BY <2>2 DEF StepsOf
  <2>5. ext[i].client = c /\ ext[i].first = x /\ ext[i].last = x
    BY <2>3
  <2> QED
    BY <2>1, <2>3, <2>4, <2>5
<1>8. ext \in Seq(StepsOf(W)) /\ Len(ext) = n /\ DOMAIN ext = 1 .. n
  <2>1. ext \in [1 .. n -> StepsOf(W)]
    <3> HIDE DEF StepsOf
    <3>1. DOMAIN ext = 1 .. n /\ ext = [i \in 1 .. n |-> ext[i]]
      BY <1>5
    <3> QED
      BY <3>1, <1>7
  <2>2. ext \in Seq(StepsOf(W))
    BY <1>4, <2>1, IsASeq
  <2> QED
    BY <1>4, <2>1, <2>2, LenProperties
<1>9. s \in Seq(StepsOf(W))
  <2>1. \A i \in 1 .. K : s[i] \in StepsOf(W)
    <3> SUFFICES ASSUME NEW x \in StepsOf(V)
                 PROVE  x \in StepsOf(W)
      BY <1>4
    <3>1. 0 .. V \subseteq 0 .. W
      BY <1>2, <1>4, <1>5
    <3> QED
      BY <3>1 DEF StepsOf
  <2> HIDE DEF StepsOf
  <2>2. s \in [1 .. K -> StepsOf(W)]
    <3>1. s = [i \in 1 .. K |-> s[i]]
      BY <1>2, <1>4, SeqDef
    <3> QED
      BY <3>1, <2>1
  <2> QED
    BY <1>4, <2>2, IsASeq
<1>10. PICK t, T : t = s \o ext /\ T = K + n
  OBVIOUS
<1>11. /\ t \in Seq(StepsOf(W)) /\ Len(t) = T /\ T \in Nat
       /\ \A i \in 1 .. K : t[i] = s[i]
       /\ \A i \in 1 .. n : t[K + i] = ext[i]
  <2> HIDE DEF StepsOf
  <2>1. /\ t \in Seq(StepsOf(W)) /\ Len(t) = K + n
        /\ \A i \in 1 .. K + n : t[i] = IF i <= K THEN s[i] ELSE ext[i - K]
    BY <1>2, <1>8, <1>9, <1>10, ConcatProperties
  <2>2. \A i \in 1 .. K : i \in 1 .. K + n /\ i <= K
    BY <1>4
  <2>3. \A i \in 1 .. n : K + i \in 1 .. K + n /\ ~(K + i <= K) /\ (K + i) - K = i
    BY <1>4
  <2>4. Len(t) = T /\ T \in Nat
    BY <1>4, <1>10, <2>1
  <2>5. \A i \in 1 .. K : t[i] = s[i]
    BY <2>1, <2>2
  <2>6. ASSUME NEW i \in 1 .. n
        PROVE  t[K + i] = ext[i]
    <3>1. PICK j : j = K + i
      OBVIOUS
    <3>2. j \in 1 .. K + n /\ ~(j <= K) /\ j - K = i
      BY <2>3, <3>1
    <3>3. t[j] = ext[j - K]
      BY <2>1, <3>2
    <3> QED
      BY <3>1, <3>2, <3>3
  <2> QED
    BY <2>1, <2>4, <2>5, <2>6
<1>12. PICK q, k, Q : q = Trimmed(t) /\ k = Kept(t) /\ Q = T - Kept(t)
  OBVIOUS
<1>13. /\ q \in Seq(StepsOf(W)) /\ k \in 0 .. T /\ Q = T - k /\ Q \in Nat
       /\ Len(q) = Q /\ DOMAIN q = 1 .. Q
       /\ \A i \in 1 .. Q : q[i] = t[i + k]
       /\ k = (IF T > MaxSteps THEN T - MaxSteps ELSE 0)
  <2> HIDE DEF StepsOf
  <2>1. /\ q \in Seq(StepsOf(W)) /\ k \in 0 .. T /\ Len(q) = T - k
        /\ \A i \in 1 .. T - k : q[i] = t[i + k]
    BY <1>11, <1>12, TrimmedSteps
  <2>2. DOMAIN q = 1 .. Len(q)
    BY <2>1, LenProperties
  <2> QED
    BY <1>11, <1>12, <2>1, <2>2 DEF Kept
<1>14. steps' = q
  BY <1>1, <1>5, <1>10, <1>12 DEF addSteps
<1>15. author' = au \o ea /\ ea \in Seq(Clients) /\ Len(ea) = n
  <2>1. ea \in [1 .. n -> Clients]
    BY <1>5
  <2>2. ea \in Seq(Clients)
    BY <1>4, <2>1, IsASeq
  <2> QED
    BY <1>1, <1>4, <1>5, <2>1, <2>2, LenProperties DEF addSteps
<1>16. /\ author' \in Seq(Clients) /\ Len(author') = W
       /\ \A i \in 1 .. V : author'[i] = au[i]
       /\ \A i \in 1 .. n : author'[V + i] = c
  <2>1. /\ author' \in Seq(Clients) /\ Len(author') = V + n
        /\ \A i \in 1 .. V + n : author'[i] = IF i <= V THEN au[i] ELSE ea[i - V]
    BY <1>2, <1>15, ConcatProperties
  <2>2. \A i \in 1 .. V : i \in 1 .. V + n /\ i <= V
    BY <1>2, <1>4
  <2>3. \A i \in 1 .. n : V + i \in 1 .. V + n /\ ~(V + i <= V) /\ (V + i) - V = i
    BY <1>2, <1>4
  <2> QED
    BY <1>5, <2>1, <2>2, <2>3
<1>17a. /\ V \in Nat /\ L \in Nat /\ K \in Nat /\ n \in Nat /\ T \in Nat /\ W \in Nat
        /\ Q \in Nat /\ k \in Nat /\ T = K + n /\ W = V + n /\ Q = T - k /\ k <= T
  BY <1>2, <1>4, <1>5, <1>6, <1>10, <1>11, <1>13
\* what each kept step is
<1>17. ASSUME NEW i \in 1 .. Q
       PROVE  \/ i + k \in 1 .. K /\ q[i] = s[i + k]
              \/ \E e \in 1 .. n : i + k = K + e /\ q[i] = ext[e]
  <2>1. PICK j : j = i + k
    OBVIOUS
  <2>2. j \in 1 .. T /\ q[i] = t[j]
    <3>1. j \in 1 .. T
      BY <1>17a, <2>1
    <3> QED
      BY <1>13, <2>1, <3>1
  <2>3. CASE j <= K
    BY <1>11, <2>1, <2>2, <2>3, <1>4
  <2>4. CASE ~(j <= K)
    <3>1. PICK e : e = j - K
      OBVIOUS
    <3>2. e \in 1 .. n /\ j = K + e
      BY <1>4, <1>10, <2>2, <2>4, <3>1
    <3> QED
      BY <1>11, <2>1, <2>2, <3>2
  <2> QED
    BY <2>3, <2>4
<1>18. Len(q) <= MaxSteps
  BY <1>11, <1>13
<1>19. q # <<>> => q[Q].last = W
  <2> SUFFICES ASSUME q # <<>>
               PROVE  q[Q].last = W
    OBVIOUS
  <2>1. Q \in 1 .. Q /\ Q + k = K + n
    <3>1. Q # 0
      BY <1>13, EmptySeq
    <3> QED
      BY <1>17a, <3>1
  <2>2. CASE Q + k \in 1 .. K /\ q[Q] = s[Q + k]
    <3>1. n = 0 /\ Q + k = K /\ K \in 1 .. K /\ V = W
      BY <1>2, <1>4, <1>5, <2>1, <2>2
    <3>2. s # <<>>
      BY <1>2, <3>1, EmptySeq, LenProperties
    <3> QED
      BY <1>3, <2>2, <3>1, <3>2
  <2>3. ASSUME NEW e \in 1 .. n, Q + k = K + e, q[Q] = ext[e]
        PROVE  q[Q].last = W
    <3>1. e = n
      BY <1>4, <2>1, <2>3
    <3> QED
      BY <1>5, <1>7, <2>3, <3>1
  <2> QED
    BY <1>17, <2>1, <2>2, <2>3
<1>20. \A i \in 1 .. Q - 1 : q[i].last + 1 = q[i + 1].first
  <2> SUFFICES ASSUME NEW i \in 1 .. Q - 1
               PROVE  q[i].last + 1 = q[i + 1].first
    OBVIOUS
  <2>1. i \in 1 .. Q /\ i + 1 \in 1 .. Q /\ (i + 1) + k = (i + k) + 1
    BY <1>13
  <2>2. CASE (i + 1) + k \in 1 .. K /\ q[i + 1] = s[(i + 1) + k]
    <3>1. i + k \in 1 .. K - 1
      BY <1>17a, <2>2
    <3>2. q[i] = s[i + k]
      BY <1>4, <1>17, <2>1, <3>1
    <3> QED
      BY <1>3, <2>1, <2>2, <3>1, <3>2
  <2>3. ASSUME NEW e \in 1 .. n, (i + 1) + k = K + e, q[i + 1] = ext[e]
        PROVE  q[i].last + 1 = q[i + 1].first
    <3>1. q[i + 1].first = V + e
      BY <1>7, <2>3
    <3>2. CASE i + k \in 1 .. K /\ q[i] = s[i + k]
      <4>1. e = 1 /\ i + k = K
        <5>1. i + k \in 1 .. K /\ (i + 1) + k = K + e /\ i \in Nat /\ e \in Nat \ {0}
          BY <1>17a, <2>3, <3>2
        <5>2. e <= 1
          BY <1>17a, <5>1
        <5> QED
          BY <1>17a, <5>1, <5>2
      <4>2. s # <<>>
        BY <1>2, <3>2, EmptySeq, LenProperties
      <4> QED
        BY <1>3, <3>1, <3>2, <4>1, <4>2
    <3>3. ASSUME NEW d \in 1 .. n, i + k = K + d, q[i] = ext[d]
          PROVE  q[i].last + 1 = q[i + 1].first
      <4>1. q[i].last = V + d
        BY <1>7, <3>3
      <4>2. e = d + 1
        BY <1>17a, <2>3, <3>3
      <4> QED
        BY <1>2, <3>1, <4>1, <4>2
    <3> QED
      BY <1>17, <2>1, <3>2, <3>3
  <2> QED
    BY <1>17, <2>1, <2>2, <2>3
<1>21. \A i \in 1 .. Q : \A x \in q[i].first .. q[i].last : author'[x] = q[i].client
  <2> SUFFICES ASSUME NEW i \in 1 .. Q, NEW x \in q[i].first .. q[i].last
               PROVE  author'[x] = q[i].client
    OBVIOUS
  <2>1. CASE i + k \in 1 .. K /\ q[i] = s[i + k]
    <3>1. x \in 1 .. V
      <4>1. PICK f, l : f = q[i].first /\ l = q[i].last
        OBVIOUS
      <4>2. f \in Nat \ {0} /\ l \in 0 .. V
        BY <1>4, <2>1, <4>1
      <4>3. x \in f .. l
        BY <4>1
      <4> QED
        BY <1>2, <4>2, <4>3
    <3>2. au[x] = q[i].client
      BY <1>3, <1>4, <2>1
    <3> QED
      BY <1>16, <3>1, <3>2
  <2>2. ASSUME NEW e \in 1 .. n, q[i] = ext[e]
        PROVE  author'[x] = q[i].client
    <3>1. q[i].first = V + e /\ q[i].last = V + e /\ q[i].client = c
      BY <1>7, <2>2
    <3>2. x = V + e
      BY <1>17a, <3>1
    <3> QED
      BY <1>16, <3>1, <3>2
  <2> QED
    BY <1>17, <2>1, <2>2
<1>22. (Q = MaxSteps) \/ (Q >= W - L)
  <2>1. CASE T > MaxSteps
    BY <1>13, <1>11, <2>1
  <2>2. CASE ~(T > MaxSteps)
    <3>1. k = 0 /\ Q = T
      BY <1>13, <1>11, <2>2
    <3>2. L \in Nat
      BY <1>2
    <3> QED
      BY <1>2, <1>3, <1>4, <1>5, <1>10, <2>2, <3>1, <3>2
  <2> QED
    BY <2>1, <2>2
<1>23. \A i \in 1 .. Q : W - (Q - i) > L =>
         q[i].first = W - (Q - i) /\ q[i].last = W - (Q - i)
  <2> SUFFICES ASSUME NEW i \in 1 .. Q, W - (Q - i) > L
               PROVE  q[i].first = W - (Q - i) /\ q[i].last = W - (Q - i)
    OBVIOUS
  <2>1. PICK j : j = i + k
    OBVIOUS
  <2>2. W - (Q - i) = V - (K - j)
    BY <1>17a, <2>1
  <2>3. CASE j \in 1 .. K /\ q[i] = s[j]
    BY <1>3, <1>4, <2>2, <2>3
  <2>4. ASSUME NEW e \in 1 .. n, j = K + e, q[i] = ext[e]
        PROVE  q[i].first = W - (Q - i) /\ q[i].last = W - (Q - i)
    <3>1. V - (K - j) = V + e
      BY <1>2, <1>4, <2>4
    <3> QED
      BY <1>7, <2>2, <2>4, <3>1
  <2> QED
    BY <1>17, <2>1, <2>3, <2>4
<1>24. steps' \in Seq(StepsOf(version'))
  BY <1>6, <1>13, <1>14
<1>25. HistoryIsTail'
  BY <1>6, <1>13, <1>14, <1>16, <1>18, <1>19, <1>20, <1>21 DEF HistoryIsTail
<1>26. Fresh'
  BY <1>6, <1>13, <1>14, <1>22, <1>23 DEF Fresh
<1> QED
  BY <1>16, <1>24, <1>25, <1>26

LEMMA CommentsAreTracked ==
  ASSUME CommentsInv, NEW cs \in SUBSET comments, CommentEvent(cs), UNCHANGED saves
  PROVE  CommentsInv'
<1>1. /\ known \in Seq(CommentIds) /\ events \in Seq(CommentEvents)
      /\ Len(events) = commentVersion /\ Len(events) \in Nat
      /\ comments \subseteq ToSet(known) /\ lost \subseteq ToSet(known)
      /\ \A e \in ToSet(events) : e.id \in ToSet(known)
  BY LenProperties DEF CommentsInv
<1>2. \A e \in ToSet(events) : e.type = "create" =>
        (e.id \in comments <=> e.id \notin lost /\ Event("delete", e.id) \notin ToSet(events))
  BY DEF CommentsInv
<1>3. \A x \in saves : x.comments \subseteq ToSet(known)
  BY DEF CommentsInv
<1>4. \A ty \in {"create", "delete"} : \A id \in CommentIds :
        /\ Event(ty, id) \in CommentEvents
        /\ Event(ty, id).type = ty /\ Event(ty, id).id = id
  BY DEF Event, CommentEvents
<1> HIDE DEF CommentEvents
<1>5. CASE /\ comments' = cs /\ lost' = lost \cup (comments \ cs)
           /\ UNCHANGED <<events, commentVersion, known>>
  BY <1>1, <1>2, <1>3, <1>5 DEF CommentsInv
<1>6. ASSUME NEW id \in CommentIds, commentVersion' = commentVersion + 1,
             id \notin ToSet(known), comments' = cs \cup {id},
             events' = Append(events, Event("create", id)), known' = Append(known, id),
             lost' = lost \cup (comments \ cs)
      PROVE  CommentsInv'
  <2>1. PICK c : c = Event("create", id)
    OBVIOUS
  <2>2. c \in CommentEvents /\ c.type = "create" /\ c.id = id
    BY <1>4, <2>1
  <2>3. /\ events' \in Seq(CommentEvents) /\ Len(events') = commentVersion'
        /\ ToSet(events') = ToSet(events) \cup {c}
    BY <1>1, <1>6, <2>1, <2>2, AppendProperties, ToSetAppend
  <2>4. known' \in Seq(CommentIds) /\ ToSet(known') = ToSet(known) \cup {id}
    BY <1>1, <1>6, AppendProperties, ToSetAppend
  <2>5. \A x : Event("delete", x) # c
    BY <2>2 DEF Event
  <2>6. Event("delete", id) \notin ToSet(events)
    <3>1. Event("delete", id).id = id
      BY DEF Event
    <3> QED
      BY <1>1, <1>6, <3>1
  <2>7. ASSUME NEW e \in ToSet(events'), e.type = "create"
        PROVE  e.id \in comments' <=> e.id \notin lost' /\ Event("delete", e.id) \notin ToSet(events')
    <3>1. CASE e = c
      BY <1>1, <1>6, <2>2, <2>3, <2>5, <2>6, <3>1
    <3>2. CASE e \in ToSet(events)
      <4>1. e.id # id
        BY <1>1, <1>6, <3>2
      <4> QED
        BY <1>2, <1>6, <2>3, <2>5, <2>7, <3>2, <4>1
    <3> QED
      BY <2>3, <3>1, <3>2
  <2>8. \A e \in ToSet(events') : e.id \in ToSet(known')
    BY <1>1, <2>2, <2>3, <2>4
  <2>9. /\ comments' \subseteq ToSet(known') /\ lost' \subseteq ToSet(known')
        /\ \A x \in saves' : x.comments \subseteq ToSet(known')
    BY <1>1, <1>3, <1>6, <2>4
  <2> QED
    BY <2>3, <2>4, <2>7, <2>8, <2>9 DEF CommentsInv
<1>7. ASSUME NEW id \in CommentIds, commentVersion' = commentVersion + 1,
             id \in ToSet(known), comments' = deleted(cs, id),
             events' = Append(events, Event("delete", id)),
             lost' = lost \cup (comments \ (comments' \cup {id})), UNCHANGED known
      PROVE  CommentsInv'
  <2>1. PICK c : c = Event("delete", id)
    OBVIOUS
  <2>2. c \in CommentEvents /\ c.type = "delete" /\ c.id = id
    BY <1>4, <2>1
  <2>3. /\ events' \in Seq(CommentEvents) /\ Len(events') = commentVersion'
        /\ ToSet(events') = ToSet(events) \cup {c}
    <3> HIDE DEF CommentEvents
    <3>1. events' = Append(events, c)
      BY <1>7, <2>1
    <3>2. events' \in Seq(CommentEvents) /\ Len(events') = Len(events) + 1
      BY <1>1, <2>2, <3>1, AppendProperties
    <3>3. ToSet(events') = ToSet(events) \cup {c}
      BY <1>1, <2>2, <3>1, ToSetAppend
    <3> QED
      BY <1>1, <1>7, <3>2, <3>3
  <2>4. comments' \subseteq comments /\ id \notin comments'
    BY <1>7 DEF deleted
  <2>5. \A x : Event("delete", x) = c => x = id
    <3>1. \A x : Event("delete", x).id = x
      BY DEF Event
    <3> QED
      BY <2>2, <3>1
  <2>6. ASSUME NEW e \in ToSet(events'), e.type = "create"
        PROVE  e.id \in comments' <=> e.id \notin lost' /\ Event("delete", e.id) \notin ToSet(events')
    <3>1. e \in ToSet(events)
      BY <2>2, <2>3, <2>6
    <3>2. CASE e.id = id
      BY <2>1, <2>3, <2>4, <3>2
    <3>3. CASE e.id # id
      <4>1. Event("delete", e.id) \in ToSet(events') <=> Event("delete", e.id) \in ToSet(events)
        BY <2>3, <2>5, <3>3
      <4>2. e.id \in lost' <=> e.id \in lost \/ (e.id \in comments /\ e.id \notin comments')
        BY <1>7, <3>3
      <4> QED
        BY <1>2, <2>4, <2>6, <3>1, <4>1, <4>2
    <3> QED
      BY <3>2, <3>3
  <2>7. \A e \in ToSet(events') : e.id \in ToSet(known')
    BY <1>1, <1>7, <2>2, <2>3
  <2>8. /\ comments' \subseteq ToSet(known') /\ lost' \subseteq ToSet(known')
        /\ \A x \in saves' : x.comments \subseteq ToSet(known')
        /\ known' \in Seq(CommentIds)
    BY <1>1, <1>3, <1>7, <2>4
  <2> QED
    BY <2>3, <2>6, <2>7, <2>8 DEF CommentsInv
<1> QED
  BY <1>5, <1>6, <1>7 DEF CommentEvent

(* A copy has the steps that mergeSteps left.                              *)
LEMMA StepsAreSaved ==
  ASSUME HistoryInv, Save
  PROVE  HistoryInv'
<1>1. PICK V, s, a : V = version /\ s = steps /\ a = author
  OBVIOUS
<1>2. /\ V \in Nat /\ s \in Seq(StepsOf(V)) /\ Contiguous(s) /\ MadeBy(s, a)
      /\ Len(s) <= MaxSteps /\ (s # <<>> => s[Len(s)].last = V) /\ Len(s) \in Nat
      /\ a \in Seq(Clients) /\ Len(a) = V
  BY <1>1, LenProperties DEF HistoryInv, HistoryIsTail, Contiguous, MadeBy
<1>3. PICK m \in mergeSteps(s) : saves' = saves \cup {Copy(V, m, comments, a)}
  BY <1>1 DEF Save
<1>4. /\ m \in Seq(StepsOf(V)) /\ Len(m) <= MaxSteps /\ (m # <<>> => m[Len(m)].last = V)
      /\ Contiguous(m) /\ MadeBy(m, a)
  <2>1. CASE Len(s) <= 1
    <3>1. m = <<>>
      BY <1>3, <2>1 DEF mergeSteps
    <3>2. <<>> \in Seq(StepsOf(V)) /\ Len(<<>>) = 0
      BY EmptySeq, LenProperties
    <3>3. DOMAIN <<>> = {}
      OBVIOUS
    <3> QED
      BY <3>1, <3>2, <3>3 DEF Contiguous, MadeBy
  <2>2. CASE ~(Len(s) <= 1)
    <3>1. PICK ends \in Cuts(s) : m = MergedAt(s, ends)
      BY <1>3, <2>2 DEF mergeSteps
    <3>2. Len(s) > 1 /\ s[Len(s)].last = V
      BY <1>2, <2>2, EmptySeq
    <3>3. /\ m \in Seq(StepsOf(V)) /\ Len(m) <= Len(s) /\ m # <<>> /\ m[Len(m)].last = V
          /\ Contiguous(m) /\ MadeBy(m, a)
      BY <1>2, <3>1, <3>2, MergedSteps
    <3>4. Len(m) \in Nat
      BY <3>3, LenProperties
    <3> QED
      BY <1>2, <3>3, <3>4
  <2> QED
    BY <2>1, <2>2
<1>5. PICK x : x = Copy(V, m, comments, a)
  OBVIOUS
<1>6. x.version = V /\ x.steps = m /\ x.comments = comments /\ x.author = a
  BY <1>5 DEF Copy
<1>7. GoodCopy(x)
  BY <1>2, <1>4, <1>6 DEF GoodCopy
<1>8. \A y \in saves' : y \in saves \/ y = x
  BY <1>3, <1>5
<1>9. UNCHANGED <<version, steps, author, comments, events, commentVersion, known, lost, loadedAt>>
  BY DEF Save, docVars, commentVars
<1>10. CommentsInv'
  BY <1>6, <1>8, <1>9 DEF HistoryInv, CommentsInv
<1>11. \A y \in saves' : GoodCopy(y)
  BY <1>7, <1>8 DEF HistoryInv
<1>12. HistoryIsTail' /\ Fresh'
  BY <1>9 DEF HistoryInv, HistoryIsTail, Fresh
<1> QED
  BY <1>9, <1>10, <1>11, <1>12 DEF HistoryInv

(* A document that is loaded again starts a new count of comment events.   *)
LEMMA StepsAreReloaded ==
  ASSUME HistoryInv, Reload
  PROVE  HistoryInv'
<1>1. PICK x \in saves \cup {Unsaved} :
        /\ version' = x.version /\ steps' = x.steps /\ author' = x.author
        /\ comments' = x.comments /\ loadedAt' = x.version
  BY DEF Reload
<1>2. /\ events' = <<>> /\ commentVersion' = 0 /\ lost' = {}
      /\ UNCHANGED <<known, saves>>
  BY DEF Reload
<1>3. GoodCopy(x) /\ x.comments \subseteq ToSet(known)
  <2>1. CASE x \in saves
    BY <2>1 DEF HistoryInv, CommentsInv
  <2>2. CASE x = Unsaved
    <3>1. x.version = 0 /\ x.steps = <<>> /\ x.author = <<>> /\ x.comments = {}
      BY <2>2 DEF Unsaved, Copy
    <3>2. \A T : <<>> \in Seq(T) /\ Len(<<>>) = 0
      BY EmptySeq, LenProperties
    <3>3. DOMAIN <<>> = {}
      OBVIOUS
    <3> QED
      BY <3>1, <3>2, <3>3 DEF GoodCopy, Contiguous, MadeBy
  <2> QED
    BY <1>1, <2>1, <2>2
<1>4. PICK V, m, a : V = x.version /\ m = x.steps /\ a = x.author
  OBVIOUS
<1>5. /\ V \in Nat /\ m \in Seq(StepsOf(V)) /\ Len(m) <= MaxSteps
      /\ m # <<>> => m[Len(m)].last = V
      /\ a \in Seq(Clients) /\ Len(a) = V
      /\ Contiguous(m) /\ MadeBy(m, a)
  BY <1>3, <1>4 DEF GoodCopy
<1>6. Len(m) \in Nat /\ DOMAIN m = 1 .. Len(m)
  BY <1>5, LenProperties
<1>7. HistoryIsTail'
  <2>1. \A i \in 1 .. Len(m) - 1 : m[i].last + 1 = m[i + 1].first
    BY <1>5 DEF Contiguous
  <2>2. \A i \in DOMAIN m : \A k \in m[i].first .. m[i].last : a[k] = m[i].client
    BY <1>5 DEF MadeBy
  <2>3. Len(m) <= MaxSteps /\ (m # <<>> => m[Len(m)].last = V)
    BY <1>5
  <2> QED
    BY <1>1, <1>4, <1>5, <2>1, <2>2, <2>3 DEF HistoryIsTail
<1>8. Fresh'
  <2>1. ASSUME NEW i \in 1 .. Len(m), V - (Len(m) - i) > V
        PROVE  FALSE
    BY <1>5, <1>6, <2>1
  <2>2. Len(m) >= V - V
    BY <1>5, <1>6
  <2> QED
    BY <1>1, <1>4, <1>6, <2>1, <2>2 DEF Fresh
<1>9. CommentsInv'
  <2>1. <<>> \in Seq(CommentEvents) /\ Len(<<>>) = 0
    BY EmptySeq, LenProperties
  <2> QED
    BY <1>1, <1>2, <1>3, <2>1, ToSetEmpty DEF HistoryInv, CommentsInv
<1>10. \A y \in saves' : GoodCopy(y)
  BY <1>2 DEF HistoryInv
<1> QED
  BY <1>1, <1>4, <1>5, <1>7, <1>8, <1>9, <1>10 DEF HistoryInv

LEMMA NextHistory ==
  HistoryInv /\ [HistoryNext]_instanceVars => HistoryInv'
<1> SUFFICES ASSUME HistoryInv, [HistoryNext]_instanceVars
             PROVE  HistoryInv'
  OBVIOUS
<1>1. ASSUME NEW c \in Clients, NEW n \in 0 .. MaxBatch, addSteps(c, n)
      PROVE  HistoryInv'
  <2>1. /\ steps' \in Seq(StepsOf(version')) /\ author' \in Seq(Clients)
        /\ HistoryIsTail' /\ Fresh'
    BY <1>1, StepsAreAdded
  <2>2. PICK cs \in SUBSET comments : CommentEvent(cs)
    BY <1>1 DEF addSteps
  <2>3. saves' = saves
    BY <1>1 DEF addSteps
  <2>4. CommentsInv'
    BY <2>2, <2>3, CommentsAreTracked DEF HistoryInv
  <2>5. \A x \in saves' : GoodCopy(x)
    BY <2>3 DEF HistoryInv
  <2>6. version' \in Nat /\ loadedAt' \in 0 .. version'
    BY <1>1 DEF addSteps, HistoryInv
  <2> QED
    BY <2>1, <2>4, <2>5, <2>6 DEF HistoryInv
<1>2. CASE Save
  BY <1>2, StepsAreSaved
<1>3. CASE Reload
  BY <1>3, StepsAreReloaded
<1>4. CASE UNCHANGED instanceVars
  <2>1. UNCHANGED <<version, steps, author, comments, events, commentVersion, known, lost>>
        /\ UNCHANGED <<saves, loadedAt>>
    BY <1>4 DEF instanceVars, docVars, commentVars
  <2>2. CommentsInv'
    BY <2>1 DEF HistoryInv, CommentsInv
  <2> QED
    BY <2>1, <2>2 DEF HistoryInv, HistoryIsTail, Fresh
<1> QED
  BY <1>1, <1>2, <1>3, <1>4 DEF HistoryNext

(* The invariant behind the three theorems that follow.                   *)
THEOREM HistoryInvariant ==
  HistorySpec => []HistoryInv
BY InitHistory, NextHistory, PTL DEF HistorySpec

(* However a document is trimmed, merged, saved and loaded again, its      *)
(* stored steps are the last ones made, without a gap, each credited to    *)
(* the client that made it (instance.js 65-88, 163-168, 293).              *)
THEOREM TailCorrect ==
  HistorySpec => []HistoryIsTail
<1>1. HistoryInv => HistoryIsTail
  BY DEF HistoryInv
<1> QED
  BY <1>1, HistoryInvariant, PTL

(* A comment version of this load leads to the events that follow it.      *)
LEMMA CommentStart ==
  ASSUME HistoryInv, NEW cv \in 0 .. commentVersion
  PROVE  commentStartIndex(cv) = cv /\ cv \in Nat /\ ~(cv < 0)
<1>1. Len(events) = commentVersion /\ commentVersion \in Nat
  BY LenProperties DEF HistoryInv, CommentsInv
<1> QED
  BY <1>1 DEF commentStartIndex

LEMMA EventsAligned ==
  HistoryInv => CommentEventsAligned
<1> SUFFICES ASSUME HistoryInv, NEW cv \in 0 .. commentVersion
             PROVE  LET lacking == SubSeq(events, cv + 1, commentVersion)
                        poll == getEvents(version, cv)
                    IN IF \E e \in ToSet(lacking) :
                            e.type = "create"
                              /\ (e.id \in lost \/ Event("delete", e.id) \in ToSet(events))
                       THEN poll.answer = "none"
                       ELSE poll.answer = "events" /\ poll.comment = lacking
  BY DEF CommentEventsAligned, HistoryInv, CommentsInv
<1>1. /\ events \in Seq(CommentEvents) /\ Len(events) = commentVersion /\ commentVersion \in Nat
      /\ version \in Nat /\ Len(steps) \in Nat
  BY LenProperties DEF HistoryInv, CommentsInv
<1>2. commentStartIndex(cv) = cv /\ cv \in Nat /\ ~(cv < 0)
  BY CommentStart
<1>3. PICK l : l = SubSeq(events, cv + 1, commentVersion)
  OBVIOUS
<1>4. EventsFrom(cv) = l
  BY <1>1, <1>3 DEF EventsFrom
<1>5. ToSet(l) \subseteq ToSet(events)
  <2> HIDE DEF CommentEvents
  <2>1. PICK b, c, ev : b = cv + 1 /\ c = commentVersion /\ ev = events
    OBVIOUS
  <2>2. /\ b \in Nat \ {0} /\ c \in Nat /\ ev \in Seq(CommentEvents) /\ Len(ev) = c
        /\ DOMAIN ev = 1 .. c
    BY <1>1, <1>2, <2>1, LenProperties
  <2>3. \A i \in b .. c : i \in 1 .. c /\ ev[i] \in CommentEvents
    <3>1. \A i \in b .. c : i \in 1 .. c
      BY <2>2
    <3> QED
      BY <2>2, <3>1, ElementOfSeq
  <2>4. /\ l \in Seq(CommentEvents) /\ Len(l) = (IF b <= c THEN c - b + 1 ELSE 0)
        /\ \A i \in 1 .. c - b + 1 : l[i] = ev[b + i - 1]
    BY <1>3, <2>1, <2>2, <2>3, SubSeqProperties
  <2>5. DOMAIN l = 1 .. Len(l)
    BY <2>4, LenProperties
  <2>6. ASSUME NEW i \in DOMAIN l
        PROVE  \E j \in DOMAIN ev : ev[j] = l[i]
    <3>1. i \in 1 .. c - b + 1
      BY <2>2, <2>4, <2>5
    <3>2. b + i - 1 \in 1 .. c
      BY <2>2, <3>1
    <3> QED
      BY <2>2, <2>4, <3>1, <3>2
  <2> QED
    BY <2>1, <2>6 DEF ToSet
<1>7. throws(cv) <=>
        \E e \in ToSet(l) :
          e.type = "create" /\ (e.id \in lost \/ Event("delete", e.id) \in ToSet(events))
  BY <1>2, <1>4, <1>5 DEF throws, HistoryInv, CommentsInv
<1>8. getEvents(version, cv) =
        IF throws(cv) THEN Answer("none", <<>>, <<>>)
        ELSE Answer("events", Slice(steps, startIndex(version)), l)
  <2>1. ~(version > version) /\ ~(startIndex(version) < 0)
    BY <1>1 DEF startIndex
  <2> QED
    BY <1>2, <1>4, <2>1 DEF getEvents
<1>9. PICK poll : poll = getEvents(version, cv)
  OBVIOUS
<1>10. /\ throws(cv) => poll.answer = "none"
       /\ ~throws(cv) => poll.answer = "events" /\ poll.comment = l
  BY <1>8, <1>9 DEF Answer
<1>11. CASE throws(cv)
  <2>1. \E e \in ToSet(l) :
          e.type = "create" /\ (e.id \in lost \/ Event("delete", e.id) \in ToSet(events))
    BY <1>7, <1>11
  <2>2. poll.answer = "none"
    BY <1>10, <1>11
  <2> QED
    BY <1>3, <1>9, <2>1, <2>2
<1>12. CASE ~throws(cv)
  <2>1. ~\E e \in ToSet(l) :
          e.type = "create" /\ (e.id \in lost \/ Event("delete", e.id) \in ToSet(events))
    BY <1>7, <1>12
  <2>2. poll.answer = "events" /\ poll.comment = l
    BY <1>10, <1>12
  <2> QED
    BY <1>3, <1>9, <2>1, <2>2
<1> QED
  BY <1>11, <1>12

(* Each client with a comment version of this load is sent just the events *)
(* it lacks, or has no answer if one of them is the creation of a comment  *)
(* that is gone (comments.js 90-118).                                      *)
THEOREM CommentEventsCorrect ==
  HistorySpec => []CommentEventsAligned
BY EventsAligned, HistoryInvariant, PTL

(* What a client is sent that holds a version of this load.                *)
LEMMA PollIsExact ==
  HistoryInv => RecentPollIsExact
<1> SUFFICES ASSUME HistoryInv, NEW v \in loadedAt .. version, version - v <= MaxSteps,
                    NEW cv \in 0 .. commentVersion
             PROVE  /\ getEvents(v, cv).answer # "unavailable"
                    /\ getEvents(v, cv).answer = "events" =>
                         Numbers(getEvents(v, cv).steps) = v + 1 .. version
  BY DEF RecentPollIsExact
<1>1. PICK V, L, s, K : V = version /\ L = loadedAt /\ s = steps /\ K = Len(steps)
  OBVIOUS
<1>2. /\ V \in Nat /\ L \in 0 .. V /\ s \in Seq(StepsOf(V)) /\ K \in Nat /\ v \in L .. V
      /\ V - v <= MaxSteps /\ DOMAIN s = 1 .. K /\ K = Len(s)
  BY <1>1, LenProperties DEF HistoryInv
<1>3. /\ (K = MaxSteps) \/ (K >= V - L)
      /\ \A i \in 1 .. K : V - (K - i) > L =>
           s[i].first = V - (K - i) /\ s[i].last = V - (K - i)
  BY <1>1, <1>2 DEF HistoryInv, Fresh
<1>4. PICK st, d : st = K - (V - v) /\ d = V - v
  OBVIOUS
<1>5. st \in 0 .. K /\ st = K - d /\ d \in 0 .. K /\ d = V - v
  <2>1. (K = MaxSteps) \/ (K >= V - L)
    BY <1>3
  <2>2. V - v <= MaxSteps /\ v \in L .. V /\ L \in 0 .. V /\ V \in Nat /\ K \in Nat
    BY <1>2
  <2>3. d <= K /\ d \in Nat
    BY <1>4, <2>1, <2>2
  <2> QED
    BY <1>4, <2>2, <2>3
<1>6. startIndex(v) = st /\ Slice(steps, st) = SubSeq(s, st + 1, K)
  <2>1. startIndex(v) = st
    BY <1>1, <1>4 DEF startIndex
  <2>2. st >= 0
    BY <1>5
  <2> QED
    BY <1>1, <2>1, <2>2 DEF Slice
<1>7. PICK q : q = SubSeq(s, st + 1, K)
  OBVIOUS
<1>8. DOMAIN q = 1 .. d /\ \A i \in 1 .. d : q[i] = s[st + i]
  <2> HIDE DEF StepsOf
  <2>1. /\ st + 1 \in Int /\ K \in Int /\ K - (st + 1) + 1 = d
        /\ d = (IF st + 1 <= K THEN K - (st + 1) + 1 ELSE 0)
    BY <1>2, <1>5
  <2>2. \A i \in st + 1 .. K : i \in 1 .. Len(s)
    BY <1>2, <1>5
  <2>3. \A i \in st + 1 .. K : s[i] \in StepsOf(V)
    BY <1>2, <2>2, ElementOfSeq
  <2>4. /\ q \in Seq(StepsOf(V)) /\ Len(q) = d
        /\ \A i \in 1 .. d : q[i] = s[(st + 1) + i - 1]
    <3>1. PICK b, S : b = st + 1 /\ S = StepsOf(V)
      OBVIOUS
    <3>2. b \in Int /\ (\A i \in b .. K : s[i] \in S) /\ q = SubSeq(s, b, K)
      BY <1>7, <2>1, <2>3, <3>1
    <3>3. /\ q \in Seq(S) /\ Len(q) = (IF b <= K THEN K - b + 1 ELSE 0)
          /\ \A i \in 1 .. K - b + 1 : q[i] = s[b + i - 1]
      BY <2>1, <3>2, SubSeqProperties
    <3> QED
      BY <2>1, <3>1, <3>3
  <2>5. \A i \in 1 .. d : (st + 1) + i - 1 = st + i
    BY <1>5
  <2>6. DOMAIN q = 1 .. d
    BY <2>4, LenProperties
  <2> QED
    BY <2>4, <2>5, <2>6
<1>9. \A i \in 1 .. d : q[i].first = v + i /\ q[i].last = v + i
  <2> SUFFICES ASSUME NEW i \in 1 .. d
               PROVE  q[i].first = v + i /\ q[i].last = v + i
    OBVIOUS
  <2>1. PICK j : j = st + i
    OBVIOUS
  <2>2. j \in 1 .. K /\ V - (K - j) = v + i /\ v + i > L
    BY <1>2, <1>5, <2>1
  <2> QED
    BY <1>3, <1>8, <2>1, <2>2
<1>10. Numbers(q) = v + 1 .. V
  <2>1. ASSUME NEW x \in v + 1 .. V
        PROVE  \E i \in DOMAIN q : x \in q[i].first .. q[i].last
    <3>1. PICK i : i = x - v
      OBVIOUS
    <3>2. i \in 1 .. d /\ v + i = x /\ x \in x .. x
      BY <1>2, <1>5, <3>1
    <3> QED
      BY <1>8, <1>9, <3>2
  <2>2. ASSUME NEW i \in 1 .. d, NEW x \in q[i].first .. q[i].last
        PROVE  x \in v + 1 .. V
    <3>1. x \in v + i .. v + i
      BY <1>9
    <3> QED
      BY <1>2, <1>5, <3>1
  <2> QED
    BY <1>8, <2>1, <2>2 DEF Numbers
<1>11. \A k, x, y : Answer(k, x, y).answer = k /\ Answer(k, x, y).steps = x
  BY DEF Answer
<1>12. \/ getEvents(v, cv) = Answer("none", <<>>, <<>>)
       \/ getEvents(v, cv) = Answer("events", q, EventsFrom(commentStartIndex(cv)))
  <2>1. ~(v > version) /\ ~(startIndex(v) < 0)
    BY <1>1, <1>2, <1>5, <1>6
  <2> QED
    BY <1>6, <1>7, <2>1 DEF getEvents
<1> QED
  BY <1>1, <1>10, <1>11, <1>12

(* A client with a version of this load and within the limit is sent the   *)
(* steps it lacks and no others, if it is answered, and is never told that *)
(* they are lost, whichever copy was loaded (instance.js 205-225).         *)
THEOREM PollCorrect ==
  HistorySpec => []RecentPollIsExact
BY PollIsExact, HistoryInvariant, PTL
=============================================================================
