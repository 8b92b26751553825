--------------------------- MODULE SchedulerProofs ---------------------------
(***************************************************************************)
(* Proofs about Scheduler and LessonLocks, for any sets of events, calls   *)
(* and requests: the chain of statistics events does not break, an event   *)
(* is triggered once unless it was taken up twice, and the open events of  *)
(* the locks are those that the lesson refers to.                          *)
(***************************************************************************)
EXTENDS LessonLocks, FiniteSetTheorems, SequenceTheorems, TLAPS

(* The types the argument needs.                                           *)
ChainTypes ==
  /\ event \in [Events -> EventDoc]
  /\ saving \subseteq Events
  /\ DOMAIN call = Calls
  /\ \A c \in Calls :
       /\ DOMAIN call[c] = {"queue", "event", "saved"}
       /\ call[c].queue \subseteq Events
       /\ call[c].event \in Events \cup {None}
       /\ call[c].saved \in BOOLEAN
       /\ call[c].saved => call[c].event # None

(* Only documents that exist are in hand or being saved, or were left.     *)
HeldExist ==
  /\ \A e \in saving : event[e].state # Absent
  /\ \A c \in Calls : \A e \in InHand(c) : e = None \/ event[e].state # Absent
  /\ \A e \in cut : e \in Events /\ event[e].state # Absent

NoStatisticsYet == \A e \in Events : event[e].type = Statistics => event[e].state = Absent
NextStatistics ==
  \E e \in Events \ (saving \cup CarriedOut(Calls)) :
    event[e].type = Statistics /\ event[e].state = Open

(* Before its first event there is no event of the chain, and from then on *)
(* it has an open one that is not about to be marked as done.              *)
Chain == removed \/ lapsed \/ (setup /\ NoStatisticsYet) \/ NextStatistics

ChainInv == ChainTypes /\ HeldExist /\ Chain

USE DEF Statistics, Mail, Lock, Unlock, Absent, Open, Done, Deleted

LEMMA CarriedIs ==
  ASSUME NEW C, NEW x
  PROVE  x \in CarriedOut(C) <=> \E c \in C : call[c].saved /\ call[c].event = x
BY DEF CarriedOut

LEMMA CarriedInHand ==
  ASSUME ChainTypes
  PROVE  \A x \in CarriedOut(Calls) : x \in Events /\ \E c \in Calls : x \in InHand(c)
BY CarriedIs DEF ChainTypes, InHand

(* A call whose event is not carried out adds none.                        *)
LEMMA CarriedKept ==
  ASSUME NEW c \in Calls, call'[c].saved = FALSE, \A d \in Calls \ {c} : call'[d] = call[d]
  PROVE  CarriedOut(Calls)' \subseteq CarriedOut(Calls)
BY DEF CarriedOut

LEMMA NewEventFacts ==
  ASSUME ChainTypes, NEW e \in Events, NEW t \in Types, NEW due \in BOOLEAN, NewEvent(e, t, due)
  PROVE  /\ event' \in [Events -> EventDoc]
         /\ event[e].state = Absent
         /\ event'[e].type = t /\ event'[e].state = Open
         /\ \A x \in Events \ {e} : event'[x] = event[x]
BY DEF ChainTypes, NewEvent, EventDoc, Types

(* What the end of a call's turn does to the types.                        *)
LEMMA FinishFacts ==
  ASSUME ChainTypes, NEW c \in Calls, NEW e \in Events, Finish(c, e)
  PROVE  /\ saving' = saving \cup {e}
         /\ DOMAIN call' = Calls
         /\ call'[c].queue = call[c].queue \ {e} /\ call'[c].event = None /\ call'[c].saved = FALSE
         /\ DOMAIN call'[c] = {"queue", "event", "saved"}
         /\ \A d \in Calls \ {c} : call'[d] = call[d]
         /\ CarriedOut(Calls)' \subseteq CarriedOut(Calls)
         /\ CarriedOut(Calls) \subseteq CarriedOut(Calls)' \cup {call[c].event}
<1>1. /\ saving' = saving \cup {e}
      /\ DOMAIN call' = Calls
      /\ call'[c].queue = call[c].queue \ {e} /\ call'[c].event = None /\ call'[c].saved = FALSE
      /\ DOMAIN call'[c] = {"queue", "event", "saved"}
      /\ \A d \in Calls \ {c} : call'[d] = call[d]
  BY DEF ChainTypes, Finish, Without
<1> QED
  BY <1>1, CarriedKept DEF CarriedOut

LEMMA TakeUpFacts ==
  ASSUME ChainTypes, NEW c \in Calls, NEW E \in SUBSET Events, TakeUp(c, E)
  PROVE  /\ UNCHANGED <<event, saving, setup, lapsed, removed, cut>>
         /\ DOMAIN call' = Calls
         /\ call'[c].queue = E /\ call'[c].event = None /\ call'[c].saved = FALSE
         /\ DOMAIN call'[c] = {"queue", "event", "saved"}
         /\ \A d \in Calls \ {c} : call'[d] = call[d]
         /\ CarriedOut(Calls)' = CarriedOut(Calls)
<1>1. /\ UNCHANGED <<event, saving, setup, lapsed, removed, cut>>
      /\ DOMAIN call' = Calls
      /\ call'[c].queue = E /\ call'[c].event = None /\ call'[c].saved = call[c].saved
      /\ \A d \in Calls \ {c} : call'[d] = call[d]
  BY DEF ChainTypes, TakeUp, Free, eventVars
<1>2. ~call[c].saved
  BY DEF ChainTypes, TakeUp, Free
<1>3. DOMAIN call'[c] = {"queue", "event", "saved"}
  BY <1>2 DEF ChainTypes, TakeUp, Free
<1>4. CarriedOut(Calls)' = CarriedOut(Calls)
  BY <1>1, <1>2 DEF CarriedOut
<1> QED
  BY <1>1, <1>2, <1>3, <1>4

(* An event turns into an open one and none is newly marked as done: the   *)
(* new event is not being saved, so the chain and what is held are kept.   *)
LEMMA NewEventKeepsChain ==
  ASSUME ChainInv, NEW e \in Events, NEW t \in Types, NEW due \in BOOLEAN, NewEvent(e, t, due),
         UNCHANGED <<saving, call, cut, lapsed, removed>>,
         UNCHANGED setup \/ t = Statistics
  PROVE  ChainInv' /\ (t = Statistics => NextStatistics')
<1>1. event' \in [Events -> EventDoc] /\ event[e].state = Absent
      /\ event'[e].type = t /\ event'[e].state = Open
      /\ \A x \in Events \ {e} : event'[x] = event[x]
  BY NewEventFacts DEF ChainInv
<1>2. ChainTypes'
  BY <1>1 DEF ChainInv, ChainTypes
<1>3. HeldExist'
  BY <1>1 DEF ChainInv, ChainTypes, HeldExist, InHand
<1>4. e \notin saving \cup CarriedOut(Calls) /\ CarriedOut(Calls)' = CarriedOut(Calls)
  BY <1>1, CarriedInHand, SchedulerAssumption DEF ChainInv, HeldExist, CarriedOut
<1>5. t = Statistics => NextStatistics'
  BY <1>1, <1>4 DEF NextStatistics
<1>6. NextStatistics => NextStatistics'
  BY <1>1, <1>4 DEF NextStatistics
<1>7. t # Statistics /\ NoStatisticsYet => NoStatisticsYet'
  BY <1>1 DEF NoStatisticsYet
<1>8. QED
  BY <1>2, <1>3, <1>5, <1>6, <1>7 DEF ChainInv, Chain

(* A turn ends with an event that is no link of the chain, or with one     *)
(* that was carried out and so has a successor.                            *)
LEMMA FinishKeepsChain ==
  ASSUME ChainInv, NEW c \in Calls, NEW e \in Events, Finish(c, e),
         event[e].state # Absent,
         UNCHANGED <<event, setup, removed, cut>>, lapsed => lapsed',
         event[e].type # Statistics \/ lapsed' \/ e \in CarriedOut(Calls)
  PROVE  ChainInv'
<1>1. saving' = saving \cup {e}
      /\ DOMAIN call' = Calls
      /\ call'[c].queue = call[c].queue \ {e} /\ call'[c].event = None
      /\ DOMAIN call'[c] = {"queue", "event", "saved"} /\ call'[c].saved = FALSE
      /\ CarriedOut(Calls)' \subseteq CarriedOut(Calls)
      /\ \A d \in Calls \ {c} : call'[d] = call[d]
  BY FinishFacts DEF ChainInv
<1>2. ChainTypes'
  BY <1>1 DEF ChainInv, ChainTypes
<1>3. HeldExist'
  BY <1>1 DEF ChainInv, HeldExist, InHand
<1>4. ASSUME NextStatistics, ~lapsed' PROVE NextStatistics'
  <2>1. PICK x \in Events \ (saving \cup CarriedOut(Calls)) :
          event[x].type = Statistics /\ event[x].state = Open
    BY <1>4 DEF NextStatistics
  <2>2. x # e
    BY <1>4, <2>1
  <2>3. x \notin saving' \cup CarriedOut(Calls)'
    <3>1. x \notin saving'
      BY <1>1, <2>1, <2>2
    <3>2. x \notin CarriedOut(Calls)'
      BY <1>1, <2>1
    <3>3. QED
      BY <3>1, <3>2
  <2>4. QED
    BY <2>1, <2>3 DEF NextStatistics
<1>5. QED
  BY <1>2, <1>3, <1>4 DEF ChainInv, Chain, NoStatisticsYet

(* Whatever else changes, calls that hold no more than before keep it.     *)
LEMMA CallKeepsChain ==
  ASSUME ChainInv, ChainTypes',
         \A c \in Calls : InHand(c)' \subseteq InHand(c) \cup {None},
         CarriedOut(Calls)' \subseteq CarriedOut(Calls),
         cut' \subseteq cut \cup CarriedOut(Calls),
         UNCHANGED <<event, saving, setup, removed>>, lapsed => lapsed'
  PROVE  ChainInv'
<1>1. HeldExist'
  BY CarriedInHand, SchedulerAssumption DEF ChainInv, HeldExist
<1> QED
  BY <1>1 DEF ChainInv, Chain, NoStatisticsYet, NextStatistics

LEMMA CallStepKeepsChain ==
  ASSUME ChainInv, NEW c \in Calls, CallStep(c)
  PROVE  ChainInv'
<1> USE DEF eventVars, historyVars
<1>1. \A e \in InHand(c) : e = None \/ (e \in Events /\ event[e].state # Absent)
  BY DEF ChainInv, ChainTypes, HeldExist, InHand
<1>2. ASSUME NEW e \in Events, TriggerMail(c, e) PROVE ChainInv'
  BY <1>1, <1>2, FinishKeepsChain, SchedulerAssumption DEF TriggerMail, InHand
<1>3. ASSUME NEW e \in Events, TriggerStatistics(c, e) PROVE ChainInv'
  <2>1. CASE users
    <3>1. ChainTypes'
      BY <1>3, <2>1 DEF TriggerStatistics, ChainInv, ChainTypes
    <3>2. \A d \in Calls : InHand(d)' \subseteq InHand(d) \cup {None}
      BY <1>3, <2>1 DEF TriggerStatistics, ChainInv, ChainTypes, InHand
    <3>3. ~call[c].saved /\ call'[c].saved = FALSE /\ \A d \in Calls \ {c} : call'[d] = call[d]
      BY <1>3, <2>1 DEF TriggerStatistics, ChainInv, ChainTypes
    <3>4. CarriedOut(Calls)' \subseteq CarriedOut(Calls)
      BY <3>3, CarriedKept
    <3>5. QED
      BY <1>3, <2>1, <3>1, <3>2, <3>4, CallKeepsChain DEF TriggerStatistics
  <2>2. CASE ~users
    BY <1>1, <1>3, <2>2, FinishKeepsChain, SchedulerAssumption DEF TriggerStatistics, InHand
  <2>3. QED
    BY <2>1, <2>2
<1>4. ASSUME SaveNextStatistics(c) PROVE ChainInv'
  <2> DEFINE e == call[c].event
  <2>1. e \in Events /\ event[e].type = Statistics /\ event[e].state # Absent
    BY <1>1, <1>4 DEF SaveNextStatistics, InHand, ChainInv, ChainTypes
  <2>2. PICK next \in Events : NewEvent(next, Statistics, FALSE)
    BY <1>4 DEF SaveNextStatistics
  <2>3. event' \in [Events -> EventDoc] /\ event[next].state = Absent
        /\ event'[next].type = Statistics /\ event'[next].state = Open
        /\ \A x \in Events \ {next} : event'[x] = event[x]
    BY <2>2, NewEventFacts DEF ChainInv, Types
  <2>4. UNCHANGED <<saving, cut, lapsed, removed, setup>>
        /\ DOMAIN call' = Calls
        /\ call'[c].queue = call[c].queue /\ call'[c].event = e /\ call'[c].saved = TRUE
        /\ DOMAIN call'[c] = {"queue", "event", "saved"}
        /\ \A d \in Calls \ {c} : call'[d] = call[d]
    BY <1>4, <2>1 DEF SaveNextStatistics, ChainInv, ChainTypes
  <2>5. ChainTypes'
    <3>1. call'[c].queue \subseteq Events /\ e # None
      BY <2>1, <2>4, SchedulerAssumption DEF ChainInv, ChainTypes
    <3>2. \A d \in Calls \ {c} :
            /\ DOMAIN call'[d] = {"queue", "event", "saved"}
            /\ call'[d].queue \subseteq Events /\ call'[d].event \in Events \cup {None}
            /\ call'[d].saved \in BOOLEAN /\ (call'[d].saved => call'[d].event # None)
      BY <2>4 DEF ChainInv, ChainTypes
    <3>3. saving' \subseteq Events
      BY <2>4 DEF ChainInv, ChainTypes
    <3> HIDE DEF e
    <3>4. QED
      BY <2>1, <2>3, <2>4, <3>1, <3>2, <3>3 DEF ChainTypes
  <2>6. \A d \in Calls : InHand(d)' = InHand(d)
    BY <2>4 DEF InHand
  <2>7. HeldExist'
    <3>1. \A x \in saving' \cup cut' : x \in Events /\ event'[x].state # Absent
      BY <2>1, <2>3, <2>4 DEF ChainInv, ChainTypes, HeldExist
    <3>2. \A d \in Calls : \A x \in InHand(d) : x = None \/ event'[x].state # Absent
      BY <2>3 DEF ChainInv, ChainTypes, HeldExist, InHand
    <3>3. QED
      BY <2>6, <3>1, <3>2 DEF HeldExist
  <2>8. next \notin saving' \cup CarriedOut(Calls)'
    <3>1. next \notin saving /\ \A d \in Calls : next \notin InHand(d)
      BY <2>3, SchedulerAssumption DEF ChainInv, HeldExist
    <3>2. \A x \in CarriedOut(Calls)' : \E d \in Calls : x \in InHand(d)'
      BY DEF CarriedOut, InHand
    <3>3. QED
      BY <2>4, <2>6, <3>1, <3>2
  <2>9. NextStatistics'
    BY <2>3, <2>8 DEF NextStatistics
  <2>10. QED
    BY <2>5, <2>7, <2>9 DEF ChainInv, Chain
<1>5. ASSUME FinishSaved(c) PROVE ChainInv'
  <2>1. call[c].event \in Events /\ call[c].event \in CarriedOut(Calls)
        /\ event[call[c].event].state # Absent
    BY <1>1, <1>5, CarriedIs, SchedulerAssumption DEF FinishSaved, ChainInv, ChainTypes, InHand
  <2>2. QED
    BY <1>5, <2>1, FinishKeepsChain DEF FinishSaved
<1>6. ASSUME CallFails(c) PROVE ChainInv'
  <2>1. ChainTypes'
    BY <1>6 DEF CallFails, ChainInv, ChainTypes, NoCall
  <2>2. \A d \in Calls : InHand(d)' \subseteq InHand(d) \cup {None}
    BY <1>6 DEF CallFails, ChainInv, ChainTypes, InHand, NoCall
  <2>3. call'[c].saved = FALSE /\ \A d \in Calls \ {c} : call'[d] = call[d]
    BY <1>6 DEF CallFails, ChainInv, ChainTypes, NoCall
  <2>4. CarriedOut(Calls)' \subseteq CarriedOut(Calls)
    BY <2>3, CarriedKept
  <2>5. cut' \subseteq cut \cup CarriedOut(Calls)
    BY <1>6 DEF CallFails, CarriedOut
  <2>6. QED
    BY <1>6, <2>1, <2>2, <2>4, <2>5, CallKeepsChain DEF CallFails
<1>7. QED
  BY <1>2, <1>3, <1>4, <1>5, <1>6 DEF CallStep

LEMMA ChainStep == ChainInv /\ [SchedulerNext]_schedulerVars => ChainInv'
<1> SUFFICES ASSUME ChainInv, [SchedulerNext]_schedulerVars PROVE ChainInv'
  OBVIOUS
<1> USE DEF eventVars, historyVars
<1>0. ASSUME UNCHANGED call PROVE CarriedOut(Calls)' = CarriedOut(Calls)
  BY <1>0 DEF CarriedOut
<1>1. CASE UNCHANGED schedulerVars
  BY <1>0, <1>1, CallKeepsChain DEF schedulerVars, ChainInv, ChainTypes, InHand
<1>2. ASSUME CreateEvents PROVE ChainInv'
  <2>1. CASE \E e \in Events : event[e].type = Statistics /\ event[e].state \in {Open, Done}
    <3>1. UNCHANGED <<event, saving, call, cut, lapsed, removed>>
      BY <1>2, <2>1 DEF CreateEvents
    <3>2. ~NoStatisticsYet
      BY <2>1 DEF NoStatisticsYet
    <3>3. ChainTypes' /\ HeldExist'
      BY <3>1 DEF ChainInv, ChainTypes, HeldExist, InHand
    <3>4. Chain'
      BY <1>0, <3>1, <3>2 DEF ChainInv, Chain, NextStatistics
    <3>5. QED
      BY <3>3, <3>4 DEF ChainInv
  <2>2. CASE \E e \in Events : NewEvent(e, Statistics, TRUE)
    BY <1>2, <2>2, NewEventKeepsChain DEF CreateEvents, Types
  <2>3. QED
    BY <1>2, <2>1, <2>2 DEF CreateEvents
<1>3. ASSUME FirstUser PROVE ChainInv'
  BY <1>0, <1>3, CallKeepsChain DEF FirstUser, ChainInv, ChainTypes, InHand
<1>4. ASSUME NEW e \in Events, ScheduleMail(e) PROVE ChainInv'
  BY <1>4, NewEventKeepsChain DEF ScheduleMail, Types
<1>5. ASSUME NEW e \in Events, TimePasses(e) PROVE ChainInv'
  <2>1. event' \in [Events -> EventDoc]
        /\ \A x \in Events : event'[x].type = event[x].type /\ event'[x].state = event[x].state
    BY <1>5 DEF TimePasses, ChainInv, ChainTypes, EventDoc
  <2>2. QED
    BY <1>0, <1>5, <2>1 DEF TimePasses, ChainInv, ChainTypes, HeldExist, InHand, Chain,
                      NoStatisticsYet, NextStatistics
<1>6. ASSUME NEW e \in Events, DeleteEvent(e) PROVE ChainInv'
  <2>1. event' \in [Events -> EventDoc] /\ event'[e].state = Deleted
        /\ event'[e].type = event[e].type
        /\ \A x \in Events \ {e} : event'[x] = event[x]
    BY <1>6 DEF DeleteEvent, ChainInv, ChainTypes, EventDoc
  <2>2. ChainTypes' /\ HeldExist'
    BY <1>6, <2>1 DEF DeleteEvent, ChainInv, ChainTypes, HeldExist, InHand
  <2>3. Chain'
    BY <1>0, <1>6, <2>1 DEF DeleteEvent, ChainInv, Chain, NoStatisticsYet, NextStatistics
  <2>4. QED
    BY <2>2, <2>3 DEF ChainInv
<1>7. ASSUME NEW e \in Events, SaveDone(e) PROVE ChainInv'
  <2>1. event' \in [Events -> EventDoc] /\ event'[e].state \in {Done, Deleted}
        /\ event'[e].type = event[e].type /\ event[e].state # Absent
        /\ \A x \in Events \ {e} : event'[x] = event[x]
    BY <1>7 DEF SaveDone, ChainInv, ChainTypes, HeldExist, EventDoc
  <2>2. ChainTypes' /\ HeldExist'
    BY <1>7, <2>1 DEF SaveDone, ChainInv, ChainTypes, HeldExist, InHand
  <2>3. Chain'
    BY <1>0, <1>7, <2>1 DEF SaveDone, ChainInv, Chain, NoStatisticsYet, NextStatistics
  <2>4. QED
    BY <2>2, <2>3 DEF ChainInv
<1>8. ASSUME NEW e \in Events, SaveDoneFails(e) PROVE ChainInv'
  BY <1>0, <1>8 DEF SaveDoneFails, ChainInv, ChainTypes, HeldExist, InHand, Chain,
              NoStatisticsYet, NextStatistics
<1>9. ASSUME NEW c \in Calls, NEW E \in SUBSET Events, TakeUp(c, E),
             \A e \in E : event[e].state # Absent
      PROVE  ChainInv'
  <2>1. UNCHANGED <<event, saving, setup, lapsed, removed, cut>>
        /\ DOMAIN call' = Calls
        /\ call'[c].queue = E /\ call'[c].event = None /\ call'[c].saved = FALSE
        /\ DOMAIN call'[c] = {"queue", "event", "saved"}
        /\ CarriedOut(Calls)' = CarriedOut(Calls)
        /\ \A d \in Calls \ {c} : call'[d] = call[d]
    BY <1>9, TakeUpFacts DEF ChainInv
  <2>2. ChainTypes'
    BY <2>1 DEF ChainInv, ChainTypes
  <2>3. HeldExist'
    BY <1>9, <2>1 DEF ChainInv, HeldExist, InHand
  <2>4. QED
    BY <2>1, <2>2, <2>3 DEF ChainInv, Chain, NoStatisticsYet, NextStatistics
<1>10. ASSUME NEW c \in Calls, CheckEvents(c) PROVE ChainInv'
  <2> DEFINE E == {e \in Events : event[e].state = Open /\ event[e].due}
  <2>1. E \in SUBSET Events /\ \A e \in E : event[e].state # Absent
    OBVIOUS
  <2>2. QED
    BY <1>9, <1>10, <2>1 DEF CheckEvents
<1>11. ASSUME NEW c \in Calls, NEW e \in Events, TriggerEvent(c, e) PROVE ChainInv'
  BY <1>9, <1>11 DEF TriggerEvent
<1>12. ASSUME Crash PROVE ChainInv'
  <2>1. /\ \A c \in Calls : call'[c] = NoCall
        /\ DOMAIN call' = Calls /\ saving' = {} /\ cut' = cut \cup CarriedOut(Calls)
        /\ setup' /\ UNCHANGED <<event, lapsed, removed>>
    BY <1>12 DEF Crash
  <2>2. ChainTypes'
    <3>1. DOMAIN NoCall = {"queue", "event", "saved"} /\ NoCall.queue = {}
          /\ NoCall.event = None /\ NoCall.saved = FALSE
      BY DEF NoCall
    <3>2. QED
      BY <2>1, <3>1 DEF ChainInv, ChainTypes
  <2>3. HeldExist'
    <3>1. \A e \in cut' : e \in Events /\ event[e].state # Absent
      BY <2>1, CarriedInHand, SchedulerAssumption DEF ChainInv, HeldExist
    <3>2. \A c \in Calls : InHand(c)' = {None}
      BY <2>1 DEF InHand, NoCall
    <3>3. QED
      BY <2>1, <3>1, <3>2 DEF HeldExist
  <2>4. CarriedOut(Calls)' = {}
    BY <2>1 DEF CarriedOut, NoCall
  <2>5. NextStatistics => NextStatistics'
    BY <2>1, <2>4 DEF NextStatistics
  <2>6. NoStatisticsYet => NoStatisticsYet'
    BY <2>1 DEF NoStatisticsYet
  <2>7. QED
    BY <2>1, <2>2, <2>3, <2>5, <2>6 DEF ChainInv, Chain
<1>13. QED
  BY <1>1, <1>2, <1>3, <1>4, <1>5, <1>6, <1>7, <1>8, <1>10, <1>11, <1>12, CallStepKeepsChain
  DEF SchedulerNext

LEMMA ChainInit == SchedulerInit => ChainInv
<1> SUFFICES ASSUME SchedulerInit PROVE ChainInv
  OBVIOUS
<1>1. event \in [Events -> EventDoc] /\ \A e \in Events : event[e].state = Absent
  BY DEF SchedulerInit, NoEvent, EventDoc, Types
<1>2. DOMAIN call = Calls
      /\ \A c \in Calls :
           /\ DOMAIN call[c] = {"queue", "event", "saved"}
           /\ call[c].queue = {} /\ call[c].event = None /\ call[c].saved = FALSE
  BY DEF SchedulerInit, NoCall
<1>3. ChainTypes
  BY <1>1, <1>2 DEF SchedulerInit, ChainTypes
<1>4. HeldExist
  BY <1>2 DEF SchedulerInit, HeldExist, InHand
<1>5. Chain
  BY <1>1 DEF SchedulerInit, Chain, NoStatisticsYet
<1>6. QED
  BY <1>3, <1>4, <1>5 DEF ChainInv

(* Through overlapping calls of the scheduler, failing queries and saves   *)
(* and restarts, there is an open event for the next statistics, unless    *)
(* one was deleted or triggered before there was a user (scheduler.js      *)
(* 82-175, create_events.js).                                              *)
THEOREM StatisticsCorrect == SchedulerSpec => []StatisticsGoOn
<1>1. ChainInv => StatisticsGoOn
  BY DEF ChainInv, Chain, StatisticsGoOn, NextStatistics, Pending
<1>2. QED
  BY <1>1, ChainInit, ChainStep, PTL DEF SchedulerSpec
------------------------------------------------------------------------------
(* No event is in two hands, and one that is in hand is not settled: it is *)
(* not being saved as done, is not done, was not mailed and was not left   *)
(* by a call that had carried it out.                                      *)
HandsApart == \A c, d \in Calls : \A e \in Events : e \in InHand(c) /\ e \in InHand(d) => c = d
Settled == saving \cup {e \in Events : event[e].state = Done} \cup mailed \cup cut
HandsUnsettled == \A c \in Calls : \A e \in Events : e \in InHand(c) => e \notin Settled

(* What was mailed cannot be taken up again, by a call that looks for open *)
(* events or by an administrator.                                          *)
MailedIsOver ==
  /\ mailed \subseteq Events /\ twice = {}
  /\ \A e \in mailed : e \in saving \/ event[e].state \in {Done, Deleted}

DeletedIsRemoved == \A e \in Events : event[e].type = Statistics /\ event[e].state = Deleted => removed
OneLink == removed \/ \A x, y \in Pending(Statistics) \ Spent : x = y

(* What holds while no event was taken up twice.                           *)
Once == HandsApart /\ HandsUnsettled /\ MailedIsOver /\ DeletedIsRemoved /\ OneLink
OnceInv == ChainInv /\ (repeated \/ Once)

(* Calls that take nothing up keep their events apart.                     *)
LEMMA FewerInHand ==
  ASSUME HandsApart, HandsUnsettled,
         \A c \in Calls : InHand(c)' \subseteq InHand(c) \cup {None},
         \A c \in Calls : \A e \in Events : e \in InHand(c)' => e \notin Settled' \ Settled
  PROVE  HandsApart' /\ HandsUnsettled'
BY SchedulerAssumption DEF HandsApart, HandsUnsettled

(* What was carried out stays so while calls keep their events, and when   *)
(* the call that had it in hand is through with it.                        *)
LEMMA SpentKept ==
  ASSUME UNCHANGED <<saving, cut, call>>
  PROVE  Spent' = Spent
BY DEF Spent, CarriedOut

LEMMA SpentFinished ==
  ASSUME ChainTypes, NEW c \in Calls, NEW e \in Events, Finish(c, e), UNCHANGED cut,
         call[c].event = e \/ ~call[c].saved
  PROVE  Spent \subseteq Spent' /\ Spent' \subseteq Spent \cup {e}
<1>1. saving' = saving \cup {e} /\ CarriedOut(Calls)' \subseteq CarriedOut(Calls)
      /\ \A d \in Calls \ {c} : call'[d] = call[d]
  BY FinishFacts
<1>2. CarriedOut(Calls) \subseteq CarriedOut(Calls)' \cup {e}
  BY <1>1 DEF CarriedOut
<1> QED
  BY <1>1, <1>2 DEF Spent

(* A new event is in no hand, not being saved and not mailed.              *)
LEMMA NewEventKeepsOnce ==
  ASSUME ChainInv, Once, NEW e \in Events, NEW t \in Types, NEW due \in BOOLEAN, NewEvent(e, t, due),
         UNCHANGED <<saving, call, mailed, twice, removed, cut>>,
         t = Statistics => \A x \in Events : ~(event[x].type = Statistics /\ event[x].state = Open)
  PROVE  Once'
<1>1. event[e].state = Absent /\ event'[e].type = t /\ event'[e].state = Open
      /\ \A x \in Events \ {e} : event'[x] = event[x]
  BY NewEventFacts DEF ChainInv
<1>2. e \notin saving /\ e \notin mailed
  BY <1>1 DEF ChainInv, HeldExist, Once, MailedIsOver
<1>3. HandsApart'
  BY DEF Once, HandsApart, InHand
<1>4. HandsUnsettled'
  BY <1>1 DEF Once, HandsUnsettled, InHand, Settled
<1>5. MailedIsOver'
  BY <1>1, <1>2 DEF Once, MailedIsOver
<1>6. DeletedIsRemoved'
  BY <1>1 DEF Once, DeletedIsRemoved
<1>7. OneLink'
  BY <1>1, SpentKept DEF Once, OneLink, Pending
<1>8. QED
  BY <1>3, <1>4, <1>5, <1>6, <1>7 DEF Once

(* The end of a turn settles the event, which leaves the hand.             *)
LEMMA FinishFromHand ==
  ASSUME ChainTypes, HandsApart, HandsUnsettled, NEW c \in Calls, NEW e \in Events, Finish(c, e),
         e \in InHand(c), Settled' \subseteq Settled \cup {e}
  PROVE  HandsApart' /\ HandsUnsettled'
<1>1. /\ call'[c].queue = call[c].queue \ {e} /\ call'[c].event = None
      /\ \A d \in Calls \ {c} : call'[d] = call[d]
  BY FinishFacts
<1>2. \A d \in Calls : InHand(d)' \subseteq InHand(d) \cup {None}
  BY <1>1 DEF InHand
<1>3. \A d \in Calls : e \notin InHand(d)'
  BY <1>1, SchedulerAssumption DEF HandsApart, InHand
<1>4. QED
  BY <1>2, <1>3, FewerInHand

(* What has been taken up is apart from the rest unless it was repeated.   *)
LEMMA TakeUpKeepsOnce ==
  ASSUME ChainInv, Once, NEW c \in Calls, NEW E \in SUBSET Events, TakeUp(c, E), ~repeated',
         \A e \in E : event[e].state \in {Open, Done}
  PROVE  Once'
<1>1. /\ UNCHANGED <<event, saving, mailed, twice, removed, cut>>
      /\ CarriedOut(Calls)' = CarriedOut(Calls)
      /\ call'[c].queue = E /\ call'[c].event = None
      /\ \A d \in Calls \ {c} : call'[d] = call[d]
  BY TakeUpFacts DEF ChainInv, TakeUp
<1>2. E \cap Taken = {}
  BY DEF TakeUp
<1>3. \A e \in E : e \notin saving \cup cut /\ event[e].state = Open /\ e \notin mailed
  <2> SUFFICES ASSUME NEW e \in E
               PROVE  e \notin saving \cup cut /\ event[e].state = Open /\ e \notin mailed
    OBVIOUS
  <2>1. e \notin Taken
    BY <1>2
  <2>2. e \notin saving \cup cut
    BY <2>1 DEF Taken
  <2>3. e \notin {x \in Events : event[x].state = Done}
    BY <2>1 DEF Taken
  <2>4. QED
    BY <2>2, <2>3 DEF Once, MailedIsOver
<1>4. \A e \in E : \A d \in Calls : e \notin InHand(d)
  BY <1>2 DEF Taken
<1>5. \A d \in Calls : \A e \in Events : e \in InHand(d)' => e \in InHand(d) \/ (d = c /\ e \in E)
  BY <1>1, SchedulerAssumption DEF InHand
<1>6. HandsApart'
  BY <1>4, <1>5 DEF Once, HandsApart
<1>7. Settled' = Settled
  BY <1>1 DEF Settled
<1>8. HandsUnsettled'
  BY <1>3, <1>5, <1>7 DEF Once, HandsUnsettled, Settled
<1>9. MailedIsOver' /\ DeletedIsRemoved' /\ OneLink'
  BY <1>1 DEF Once, MailedIsOver, DeletedIsRemoved, OneLink, Pending, Spent
<1>10. QED
  BY <1>6, <1>8, <1>9 DEF Once

LEMMA CallStepKeepsOnce ==
  ASSUME ChainInv, Once, NEW c \in Calls, CallStep(c)
  PROVE  Once'
<1> USE DEF eventVars, historyVars
<1>1. HandsApart /\ HandsUnsettled /\ MailedIsOver /\ DeletedIsRemoved /\ OneLink /\ ChainTypes
  BY DEF Once, ChainInv
<1>2. ASSUME NEW e \in Events, TriggerMail(c, e) PROVE Once'
  <2>1. e \in InHand(c) /\ UNCHANGED <<event, removed>> /\ saving' = saving \cup {e}
        /\ mailed' = mailed \cup {e} /\ UNCHANGED cut
    BY <1>2 DEF TriggerMail, InHand, Finish
  <2>2. e \notin mailed
    BY <1>1, <2>1 DEF HandsUnsettled, Settled
  <2>3. Settled' \subseteq Settled \cup {e}
    BY <2>1 DEF Settled
  <2>4. HandsApart' /\ HandsUnsettled'
    BY <1>1, <1>2, <2>1, <2>3, FinishFromHand DEF TriggerMail
  <2>5. MailedIsOver'
    BY <1>1, <1>2, <2>1, <2>2 DEF MailedIsOver, TriggerMail
  <2>6. Spent \subseteq Spent'
    <3>1. ~call[c].saved /\ Finish(c, e)
      BY <1>1, <1>2 DEF TriggerMail, ChainTypes
    <3>2. QED
      BY <1>1, <2>1, <3>1, SpentFinished
  <2>7. DeletedIsRemoved' /\ OneLink'
    BY <1>1, <2>1, <2>6 DEF DeletedIsRemoved, OneLink, Pending
  <2>8. QED
    BY <2>4, <2>5, <2>7 DEF Once
<1>3. ASSUME NEW e \in Events, TriggerStatistics(c, e) PROVE Once'
  <2>1. UNCHANGED <<event, removed, mailed, twice, cut>> /\ e \in InHand(c) /\ ~call[c].saved
    BY <1>1, <1>3 DEF TriggerStatistics, InHand, ChainTypes
  <2>0. Spent \subseteq Spent'
    <3>1. CASE users
      <4>1. \A d \in Calls : call[d].saved => call'[d].saved /\ call'[d].event = call[d].event
        BY <1>1, <1>3, <2>1, <3>1 DEF TriggerStatistics, ChainTypes
      <4>2. QED
        BY <1>3, <2>1, <3>1, <4>1 DEF TriggerStatistics, Spent, CarriedOut
    <3>2. CASE ~users
      BY <1>1, <1>3, <2>1, <3>2, SpentFinished DEF TriggerStatistics
    <3>3. QED
      BY <3>1, <3>2
  <2>2. saving \subseteq saving' /\ saving' \subseteq saving \cup {e}
    BY <1>3 DEF TriggerStatistics, Finish
  <2>3. MailedIsOver' /\ DeletedIsRemoved' /\ OneLink'
    BY <1>1, <2>0, <2>1, <2>2 DEF MailedIsOver, DeletedIsRemoved, OneLink, Pending
  <2>4. CASE users
    <3>1. Settled' = Settled
      BY <1>3, <2>1, <2>4 DEF TriggerStatistics, Settled
    <3>2. \A d \in Calls : InHand(d)' \subseteq InHand(d) \cup {None}
      BY <1>1, <1>3, <2>4 DEF TriggerStatistics, ChainTypes, InHand
    <3>3. QED
      BY <1>1, <2>3, <3>1, <3>2, FewerInHand DEF Once
  <2>5. CASE ~users
    <3>1. Settled' \subseteq Settled \cup {e}
      BY <2>1, <2>2 DEF Settled
    <3>2. QED
      BY <1>1, <1>3, <2>1, <2>3, <2>5, <3>1, FinishFromHand DEF TriggerStatistics, Once
  <2>6. QED
    BY <2>4, <2>5
<1>4. ASSUME SaveNextStatistics(c) PROVE Once'
  <2> DEFINE e == call[c].event
  <2>1. e \in Events /\ event[e].type = Statistics /\ e \in InHand(c) /\ ~call[c].saved
        /\ UNCHANGED <<saving, mailed, twice, removed, cut>>
    BY <1>1, <1>4 DEF SaveNextStatistics, InHand, ChainTypes
  <2>2. PICK next \in Events : NewEvent(next, Statistics, FALSE)
    BY <1>4 DEF SaveNextStatistics
  <2>3. event[next].state = Absent
        /\ event'[next].type = Statistics /\ event'[next].state = Open
        /\ \A x \in Events \ {next} : event'[x] = event[x]
    BY <1>1, <2>2, NewEventFacts DEF Types
  <2>4. next \notin saving /\ next \notin mailed /\ next # e
    BY <2>1, <2>3, SchedulerAssumption DEF ChainInv, HeldExist, Once, MailedIsOver
  <2>5. Settled' \subseteq Settled
    BY <2>1, <2>3 DEF Settled
  <2>6. /\ call'[c].event = e /\ call'[c].saved = TRUE
        /\ \A d \in Calls \ {c} : call'[d] = call[d]
        /\ \A d \in Calls : InHand(d)' = InHand(d)
    BY <1>1, <1>4 DEF SaveNextStatistics, ChainTypes, InHand
  <2>7. HandsApart' /\ HandsUnsettled'
    BY <1>1, <2>5, <2>6, FewerInHand
  <2>8. MailedIsOver'
    BY <1>1, <2>1, <2>3, <2>4 DEF MailedIsOver
  <2>9. DeletedIsRemoved'
    BY <1>1, <2>1, <2>3 DEF DeletedIsRemoved
  <2>10. e \notin Spent
    <3>1. e \notin CarriedOut(Calls)
      BY <1>1, <2>1, CarriedIs DEF HandsApart, InHand
    <3>2. QED
      BY <1>1, <2>1, <3>1 DEF HandsUnsettled, Settled, Spent
  <2>11. event[e].state # Done /\ event[e].state # Absent
    BY <1>1, <2>1, SchedulerAssumption DEF HandsUnsettled, Settled, ChainInv, HeldExist
  <2>12. removed \/ e \in Pending(Statistics) \ Spent
    BY <1>1, <2>1, <2>10, <2>11 DEF DeletedIsRemoved, Pending, ChainTypes, EventDoc
  <2>13. Spent \cup {e} \subseteq Spent'
    BY <2>1, <2>6 DEF Spent, CarriedOut
  <2>14. OneLink'
    BY <1>1, <2>1, <2>3, <2>12, <2>13 DEF OneLink, Pending
  <2>15. QED
    BY <2>7, <2>8, <2>9, <2>14 DEF Once
<1>5. ASSUME FinishSaved(c) PROVE Once'
  <2> DEFINE e == call[c].event
  <2>1. e \in Events /\ e \in InHand(c) /\ Finish(c, e) /\ saving' = saving \cup {e}
        /\ UNCHANGED <<event, mailed, twice, removed, cut>>
    BY <1>1, <1>5 DEF FinishSaved, Finish, InHand, ChainTypes
  <2>2. Settled' \subseteq Settled \cup {e} /\ Spent \subseteq Spent'
    BY <1>1, <2>1, SpentFinished DEF Settled
  <2>3. HandsApart' /\ HandsUnsettled'
    BY <1>1, <2>1, <2>2, FinishFromHand
  <2>4. MailedIsOver' /\ DeletedIsRemoved' /\ OneLink'
    BY <1>1, <2>1, <2>2 DEF MailedIsOver, DeletedIsRemoved, OneLink, Pending
  <2>5. QED
    BY <2>3, <2>4 DEF Once
<1>6. ASSUME CallFails(c) PROVE Once'
  <2>1. /\ UNCHANGED <<event, saving, mailed, twice, removed>>
        /\ cut' = cut \cup CarriedOut({c})
        /\ call'[c] = NoCall /\ \A d \in Calls \ {c} : call'[d] = call[d]
    BY <1>1, <1>6 DEF CallFails, ChainTypes
  <2>2. Settled' = Settled \cup CarriedOut({c})
    BY <2>1 DEF Settled
  <2>3. InHand(c)' = {None} /\ \A d \in Calls : InHand(d)' \subseteq InHand(d) \cup {None}
    BY <2>1 DEF InHand, NoCall
  <2>4. \A d \in Calls : \A e \in Events : e \in InHand(d)' => e \notin CarriedOut({c})
    <3>1. \A x \in CarriedOut({c}) : x \in InHand(c)
      BY DEF CarriedOut, InHand
    <3>2. QED
      BY <1>1, <2>3, <3>1, SchedulerAssumption DEF HandsApart
  <2>5. Spent \subseteq Spent'
    <3>1. CarriedOut(Calls) \subseteq CarriedOut(Calls)' \cup CarriedOut({c})
      BY <2>1 DEF CarriedOut
    <3>2. QED
      BY <2>1, <3>1 DEF Spent
  <2>6. HandsApart' /\ HandsUnsettled'
    BY <1>1, <2>2, <2>3, <2>4, FewerInHand
  <2>7. MailedIsOver' /\ DeletedIsRemoved' /\ OneLink'
    BY <1>1, <2>1, <2>5 DEF MailedIsOver, DeletedIsRemoved, OneLink, Pending
  <2>8. QED
    BY <2>6, <2>7 DEF Once
<1>7. QED
  BY <1>2, <1>3, <1>4, <1>5, <1>6 DEF CallStep

(* Steps of the events themselves.                                         *)
LEMMA EventStepKeepsOnce ==
  ASSUME ChainInv, Once, NEW e \in Events, TimePasses(e) \/ DeleteEvent(e) \/ SaveDone(e)
  PROVE  Once'
<1> USE DEF historyVars
<1>1. HandsApart /\ HandsUnsettled /\ MailedIsOver /\ DeletedIsRemoved /\ OneLink /\ ChainTypes
  BY DEF Once, ChainInv
<1>2. UNCHANGED <<call, mailed, twice, cut>> /\ (removed => removed')
  <2>1. UNCHANGED <<call, mailed, twice, cut>>
    BY DEF TimePasses, DeleteEvent, SaveDone
  <2>2. ASSUME removed PROVE removed'
    <3>1. CASE TimePasses(e) \/ SaveDone(e)
      BY <2>2, <3>1 DEF TimePasses, SaveDone
    <3>2. CASE DeleteEvent(e)
      BY <2>2, <3>2 DEF DeleteEvent
    <3>3. QED
      BY <3>1, <3>2
  <2>3. QED
    BY <2>1, <2>2
<1>3. event'[e].type = event[e].type
      /\ \A x \in Events \ {e} : event'[x] = event[x]
  BY <1>1 DEF TimePasses, DeleteEvent, SaveDone, ChainTypes, EventDoc
<1>4. \/ saving' = saving /\ event'[e].state = event[e].state
      \/ saving' = saving /\ event'[e].state = Deleted
         /\ (event[e].type = Statistics => removed')
      \/ e \in saving /\ saving' = saving \ {e} /\ event'[e].state \in {Done, Deleted}
         /\ (event'[e].state = Deleted => event[e].state = Deleted)
  <2>1. CASE TimePasses(e)
    BY <1>1, <2>1 DEF TimePasses, ChainTypes, EventDoc
  <2>2. CASE DeleteEvent(e)
    <3>1. event[e].type = Statistics => removed'
      BY <2>2 DEF DeleteEvent
    <3>2. saving' = saving /\ event'[e].state = Deleted
      BY <1>1, <2>2 DEF DeleteEvent, ChainTypes, EventDoc
    <3>3. QED
      BY <3>1, <3>2
  <2>3. CASE SaveDone(e)
    BY <1>1, <2>3 DEF SaveDone, ChainTypes, EventDoc
  <2>4. QED
    BY <2>1, <2>2, <2>3
<1>5. Settled' \subseteq Settled
  BY <1>2, <1>3, <1>4 DEF Settled
<1>6. \A d \in Calls : InHand(d)' = InHand(d)
  BY <1>2 DEF InHand
<1>7. HandsApart' /\ HandsUnsettled'
  BY <1>1, <1>5, <1>6, FewerInHand
<1>8. MailedIsOver'
  BY <1>1, <1>2, <1>3, <1>4 DEF MailedIsOver
<1>9. DeletedIsRemoved'
  BY <1>1, <1>2, <1>3, <1>4 DEF DeletedIsRemoved
<1>10. OneLink'
  <2>1. \/ Spent' = Spent
        \/ Spent \ {e} \subseteq Spent' /\ event'[e].state \in {Done, Deleted}
    BY <1>2, <1>4 DEF Spent, CarriedOut
  <2>2. QED
    BY <1>1, <1>2, <1>3, <1>4, <2>1 DEF OneLink, Pending
<1>11. QED
  BY <1>7, <1>8, <1>9, <1>10 DEF Once

LEMMA OnceStep == OnceInv /\ [SchedulerNext]_schedulerVars => OnceInv'
<1> SUFFICES ASSUME OnceInv, [SchedulerNext]_schedulerVars, ~repeated' PROVE Once'
  BY ChainStep DEF OnceInv
<1> USE DEF eventVars, historyVars
<1>1. ~repeated
  BY DEF schedulerVars, SchedulerNext, CreateEvents, FirstUser, ScheduleMail, TimePasses,
         DeleteEvent, SaveDone, SaveDoneFails, CheckEvents, TriggerEvent, TakeUp, CallStep,
         TriggerMail, TriggerStatistics, SaveNextStatistics, FinishSaved, CallFails, Crash
<1>2. ChainInv /\ Once
  BY <1>1 DEF OnceInv
<1>3. ASSUME UNCHANGED <<event, saving, call, mailed, twice, removed, cut>> PROVE Once'
  BY <1>2, <1>3, SpentKept DEF Once, HandsApart, HandsUnsettled, Settled, InHand, MailedIsOver,
                    DeletedIsRemoved, OneLink, Pending
<1>4. CASE UNCHANGED schedulerVars
  BY <1>3, <1>4 DEF schedulerVars
<1>5. ASSUME CreateEvents PROVE Once'
  <2>1. CASE \E e \in Events : event[e].type = Statistics /\ event[e].state \in {Open, Done}
    BY <1>3, <1>5, <2>1 DEF CreateEvents
  <2>2. CASE ~\E e \in Events : event[e].type = Statistics /\ event[e].state \in {Open, Done}
    BY <1>2, <1>5, <2>2, NewEventKeepsOnce DEF CreateEvents, Types
  <2>3. QED
    BY <2>1, <2>2
<1>6. ASSUME FirstUser PROVE Once'
  BY <1>3, <1>6 DEF FirstUser
<1>7. ASSUME NEW e \in Events, ScheduleMail(e) PROVE Once'
  BY <1>2, <1>7, NewEventKeepsOnce DEF ScheduleMail, Types
<1>8. ASSUME NEW e \in Events, SaveDoneFails(e) PROVE Once'
  BY <1>8 DEF SaveDoneFails
<1>9. ASSUME NEW c \in Calls, CheckEvents(c) PROVE Once'
  BY <1>2, <1>9, TakeUpKeepsOnce DEF CheckEvents
<1>10. ASSUME NEW c \in Calls, NEW e \in Events, TriggerEvent(c, e) PROVE Once'
  BY <1>2, <1>10, TakeUpKeepsOnce DEF TriggerEvent
<1>11. ASSUME Crash PROVE Once'
  <2>1. saving = {} /\ saving' = {} /\ UNCHANGED <<event, mailed, twice, removed>>
    BY <1>11 DEF Crash
  <2>2. \A c \in Calls : InHand(c)' = {None}
    BY <1>11 DEF Crash, InHand, NoCall
  <2>3. HandsApart' /\ HandsUnsettled'
    BY <2>2, SchedulerAssumption DEF HandsApart, HandsUnsettled
  <2>4. Spent \subseteq Spent'
    BY <1>11, <2>1 DEF Crash, Spent
  <2>5. QED
    BY <1>2, <2>1, <2>3, <2>4 DEF Once, MailedIsOver, DeletedIsRemoved, OneLink, Pending
<1>12. QED
  BY <1>2, <1>4, <1>5, <1>6, <1>7, <1>8, <1>9, <1>10, <1>11, CallStepKeepsOnce,
     EventStepKeepsOnce
  DEF SchedulerNext

LEMMA OnceStart == SchedulerInit => OnceInv
<1> SUFFICES ASSUME SchedulerInit PROVE Once
  BY ChainInit DEF OnceInv
<1>1. \A e \in Events : event[e].state = Absent
  BY DEF SchedulerInit, NoEvent
<1>2. \A c \in Calls : InHand(c) = {None}
  BY DEF SchedulerInit, NoCall, InHand
<1>3. QED
  BY <1>1, <1>2, SchedulerAssumption
  DEF SchedulerInit, Once, HandsApart, HandsUnsettled, MailedIsOver, DeletedIsRemoved,
      OneLink, Pending

(* There is one chain of statistics events unless one was deleted, and no  *)
(* mail is sent twice, unless an event was taken up twice; what a call     *)
(* leaves open that is cut off before its own event is saved is named      *)
(* (scheduler.js 48-192, events.js).                                       *)
THEOREM TriggeredOnceCorrect == SchedulerSpec => []TriggeredOnce
<1>1. OneLink => (removed \/ Cardinality(Pending(Statistics) \ Spent) <= 1)
  <2> DEFINE P == Pending(Statistics) \ Spent
  <2>1. CASE P = {}
    BY <2>1, FS_EmptySet
  <2>2. ASSUME NEW x \in P, ~removed, OneLink PROVE Cardinality(P) <= 1
    <3>1. P = {x}
      BY <2>2 DEF OneLink
    <3>2. QED
      BY <3>1, FS_Singleton
  <2>3. QED
    BY <2>1, <2>2
<1>2. OnceInv => TriggeredOnce
  BY <1>1 DEF OnceInv, Once, MailedIsOver, TriggeredOnce
<1>3. QED
  BY <1>2, OnceStart, OnceStep, PTL DEF SchedulerSpec
------------------------------------------------------------------------------
(* LessonLocks *)

(* The lesson while promises are made about its locks.                     *)
Calm == ~raced /\ lesson.exists

PendingOf(field) == Pending(TypeOf(field)) \ Spent

(* A reference to an event that can still be triggered or was deleted; and *)
(* one to the only event that can be triggered for its field.              *)
Refers(field, e) ==
  e # None =>
    e \in Events \ Spent /\ event[e].type = TypeOf(field) /\ event[e].state \in {Open, Deleted}
IsLock(field, e) == Refers(field, e) /\ PendingOf(field) \subseteq {e}

(* The steps ahead of a request: each at most once, the event that no      *)
(* longer holds before the one that replaces it, the lesson at the end.    *)
Steps == [step : {"done", "create", "save"}, field : Fields, event : Events \cup {None}]
Has(t, step, field) == \E i \in 1 .. Len(t) : t[i].step = step /\ t[i].field = field
Ordered(t) ==
  /\ t \in Seq(Steps)
  /\ t # <<>> => t[Len(t)].step = "save"
  /\ \A i \in 1 .. Len(t) :
       /\ t[i].step = "save" => i = Len(t)
       /\ \A j \in 1 .. Len(t) : t[i].field = t[j].field =>
            /\ i < j => t[i].step = "done" \/ t[j].step = "save"
            /\ i # j => t[i].step # t[j].step

(* What is left to do for a field tells which event is to be its lock.     *)
Phase(q, field) ==
  /\ Has(q.todo, "done", field) =>
       /\ IsLock(field, lesson[field]) /\ lesson[field] # None
       /\ ~Has(q.todo, "create", field) => field \in DOMAIN q.set /\ q.set[field] = None
  /\ ~Has(q.todo, "done", field) /\ Has(q.todo, "create", field) => PendingOf(field) = {}
  /\ ~Has(q.todo, "done", field) /\ ~Has(q.todo, "create", field) =>
       field \in DOMAIN q.set /\ IsLock(field, q.set[field])

(* A lock that is set makes the lesson inactive.                           *)
Closes(q) ==
  /\ "active" \in DOMAIN q.set => q.set["active"] = FALSE
  /\ "lockUntil" \in q.fields =>
       /\ lesson["active"] => q.active
       /\ "lockUntil" \in DOMAIN q.set /\ q.set["lockUntil"] # None /\ q.active =>
            "active" \in DOMAIN q.set

ShapeOf(q) ==
  /\ q = [todo |-> q.todo, fields |-> q.fields, active |-> q.active, set |-> q.set]
  /\ Ordered(q.todo)
  /\ q.todo = <<>> => q.fields = {}
  /\ q.fields \subseteq Fields
  /\ DOMAIN q.set \subseteq q.fields \cup {"active"}
  /\ \A i \in 1 .. Len(q.todo) : q.todo[i].step # "save" => q.todo[i].field \in q.fields

OldEvents(q) ==
  \A i \in 1 .. Len(q.todo) : q.todo[i].step = "done" => q.todo[i].event = lesson[q.todo[i].field]

UpdateInv(q) ==
  ShapeOf(q) /\ OldEvents(q) /\ Closes(q) /\ \A field \in q.fields : Phase(q, field)

UpdatesApart == \A u, v \in Updates : u # v => update[u].fields \cap update[v].fields = {}

(* An event in hand is the lock of the lesson, which no request changes,   *)
(* until it was carried out; and the save that does so takes it from the   *)
(* lesson.                                                                 *)
Carried(c, e) == call[c].saved /\ call[c].event = e
Striking(field) ==
  \A c \in Calls : \A e \in InHand(c) :
    e # None /\ event[e].type = TypeOf(field) =>
      field \notin Updated /\ lesson[field] = IF Carried(c, e) THEN None ELSE e
Strikes(c, field) ==
  call[c].event # None /\ ~call[c].saved /\ event[call[c].event].type = TypeOf(field) =>
    /\ field \in DOMAIN change[c] /\ change[c][field] = None
    /\ DOMAIN change[c] \subseteq {field, "active"}
    /\ "active" \in DOMAIN change[c] => change[c]["active"] = (field = "lockUntil")

Shut ==
  ~opened /\ "lockUntil" \notin Updated /\ lesson["lockUntil"] \in Pending(Unlock) =>
    ~lesson["active"]

Shapes ==
  /\ ChainTypes /\ HeldExist
  /\ DOMAIN lesson = {"exists", "active", "lockUntil", "lockAfter"}
  /\ DOMAIN update = Updates /\ DOMAIN change = Calls

CalmInv ==
  /\ Shapes
  /\ \A u \in Updates : UpdateInv(update[u])
  /\ UpdatesApart
  /\ \A field \in Fields \ Updated : IsLock(field, lesson[field])
  /\ HandsApart
  /\ \A field \in Fields : Striking(field) /\ \A c \in Calls : Strikes(c, field)
  /\ Shut

LocksInv == Calm => CalmInv
------------------------------------------------------------------------------
LEMMA TypesOfFields ==
  /\ \A f, g \in Fields : TypeOf(f) = TypeOf(g) => f = g
  /\ \A f \in Fields : TypeOf(f) \in Types
  /\ Fields = {"lockUntil", "lockAfter"}
  /\ TypeOf("lockUntil") = Unlock
BY DEF Fields, TypeOf, Types

LEMMA UpdatedFields == \A f : f \in Updated <=> \E u \in Updates : f \in update[u].fields
BY DEF Updated

(* What an update keeps when the events that matter to it do.              *)
LEMMA UpdateKept ==
  ASSUME NEW u \in Updates, UpdateInv(update[u]), update'[u] = update[u],
         \A f \in update[u].fields :
           /\ lesson'[f] = lesson[f]
           /\ PendingOf(f)' \subseteq PendingOf(f)
           /\ \A e : Refers(f, e) => Refers(f, e)',
         "lockUntil" \in update[u].fields => (lesson'["active"] => lesson["active"])
  PROVE  UpdateInv(update[u])'
<1>1. ShapeOf(update[u])'
  BY DEF UpdateInv, ShapeOf, Ordered, Has
<1>2. OldEvents(update[u])'
  BY DEF UpdateInv, ShapeOf, OldEvents
<1>3. Closes(update[u])'
  BY DEF UpdateInv, Closes
<1>4. ASSUME NEW f \in update[u].fields
      PROVE  Phase(update[u], f)'
  <2>1. Phase(update[u], f)
    BY DEF UpdateInv
  <2>2. \A e : IsLock(f, e) => IsLock(f, e)'
    BY DEF IsLock
  <2>3. PendingOf(f)' \subseteq PendingOf(f) /\ lesson'[f] = lesson[f]
    OBVIOUS
  <2> HIDE DEF PendingOf, IsLock
  <2> QED
    BY <2>1, <2>2, <2>3 DEF Phase, Has
<1> QED
  BY <1>1, <1>2, <1>3, <1>4 DEF UpdateInv

(* Steps that leave the requests, the hands and the lesson alone, and make *)
(* no event pending.                                                       *)
LEMMA EventsKept ==
  ASSUME CalmInv, Shapes', UNCHANGED <<lesson, change, call, update, opened>>,
         \A f \in Fields :
           /\ PendingOf(f)' \subseteq PendingOf(f)
           /\ \A e : Refers(f, e) => Refers(f, e)',
         \A e \in Events : event'[e].type = event[e].type,
         \A e \in Events : event'[e].state = Open => event[e].state = Open
  PROVE  CalmInv'
<1>1. Updated' = Updated /\ UpdatesApart' /\ HandsApart'
  BY DEF Updated, UpdatesApart, HandsApart, InHand, CalmInv
<1>2. \A u \in Updates : UpdateInv(update[u])'
  BY UpdateKept DEF CalmInv, UpdateInv, ShapeOf
<1>3. \A f \in Fields \ Updated' : IsLock(f, lesson[f])'
  BY <1>1 DEF CalmInv, IsLock
<1>4. ASSUME NEW f \in Fields
      PROVE  Striking(f)'
  BY <1>1 DEF Striking, Carried, InHand, CalmInv, Shapes, ChainTypes
<1>5. ASSUME NEW f \in Fields, NEW c \in Calls
      PROVE  Strikes(c, f)'
  BY DEF Strikes, CalmInv, Shapes, ChainTypes
<1>6. Shut'
  BY <1>1 DEF Shut, CalmInv, Pending
<1> QED
  BY <1>1, <1>2, <1>3, <1>4, <1>5, <1>6 DEF CalmInv

LEMMA OfDeleteEvent ==
  ASSUME CalmInv, NEW e \in Events, LocksDeleteEvent(e)
  PROVE  CalmInv'
<1>1. /\ event' = [event EXCEPT ![e].state = Deleted]
      /\ event[e].state \in {Open, Done}
      /\ UNCHANGED <<lesson, change, call, update, opened, saving, cut>>
  BY DEF LocksDeleteEvent, DeleteEvent, lessonVars
<1>2. /\ event' \in [Events -> EventDoc] /\ event'[e].type = event[e].type /\ event'[e].state = Deleted
      /\ \A x \in Events \ {e} : event'[x] = event[x]
  BY <1>1 DEF CalmInv, Shapes, ChainTypes, EventDoc
<1>3. Shapes'
  BY <1>1, <1>2 DEF CalmInv, Shapes, ChainTypes, HeldExist, InHand
<1>4. \A f \in Fields : PendingOf(f)' \subseteq PendingOf(f)
  BY <1>1, <1>2, SpentKept DEF PendingOf, Pending
<1>5. \A f \in Fields : \A x : Refers(f, x) => Refers(f, x)'
  BY <1>1, <1>2, SpentKept DEF Refers
<1> QED
  BY <1>1, <1>2, <1>3, <1>4, <1>5, EventsKept

LEMMA OfSaveDone ==
  ASSUME CalmInv, NEW e \in Events, LocksSaveDone(e)
  PROVE  CalmInv'
<1>1. /\ e \in saving /\ saving' = saving \ {e}
      /\ event' = IF event[e].state = Deleted THEN event ELSE [event EXCEPT ![e].state = Done]
      /\ UNCHANGED <<lesson, change, call, update, opened, cut>>
  BY DEF LocksSaveDone, SaveDone, lessonVars, historyVars
<1>2. /\ event' \in [Events -> EventDoc] /\ event'[e].type = event[e].type
      /\ event'[e].state \in {Done, Deleted}
      /\ \A x \in Events \ {e} : event'[x] = event[x]
  BY <1>1 DEF CalmInv, Shapes, ChainTypes, EventDoc
<1>3. Shapes'
  BY <1>1, <1>2 DEF CalmInv, Shapes, ChainTypes, HeldExist, InHand
<1>6. Spent \ {e} \subseteq Spent' /\ Spent' \subseteq Spent /\ e \in Spent
  BY <1>1 DEF Spent, CarriedOut
<1>4. \A f \in Fields : PendingOf(f)' \subseteq PendingOf(f)
  BY <1>2, <1>6 DEF PendingOf, Pending
<1>5. \A f \in Fields : \A x : Refers(f, x) => Refers(f, x)'
  BY <1>2, <1>6 DEF Refers
<1> QED
  BY <1>1, <1>2, <1>3, <1>4, <1>5, EventsKept
------------------------------------------------------------------------------
(* Steps of a call: the events stay as they are, none is newly in hand and *)
(* none is carried out.                                                    *)
LEMMA CallKept ==
  ASSUME CalmInv, Shapes', UNCHANGED <<event, update, opened>>, Spent' = Spent,
         lesson' = lesson, NEW c \in Calls,
         \A d \in Calls : InHand(d)' \subseteq InHand(d) \cup {None},
         \A e \in InHand(c)' : e # None => ~Carried(c, e) /\ ~Carried(c, e)',
         \A d \in Calls \ {c} : call'[d] = call[d] /\ change'[d] = change[d],
         \A f \in Fields : Strikes(c, f)'
  PROVE  CalmInv'
<1>1. Updated' = Updated /\ UpdatesApart' /\ (\A f \in Fields : PendingOf(f)' = PendingOf(f))
      /\ \A f \in Fields : \A e : Refers(f, e) = Refers(f, e)'
  BY DEF Updated, UpdatesApart, CalmInv, PendingOf, Pending, Refers
<1>2. \A u \in Updates : UpdateInv(update[u])'
  BY <1>1, UpdateKept DEF CalmInv, UpdateInv, ShapeOf
<1>3. \A f \in Fields \ Updated' : IsLock(f, lesson[f])'
  BY <1>1 DEF CalmInv, IsLock
<1>4. HandsApart'
  BY SchedulerAssumption DEF CalmInv, HandsApart
<1>5. ASSUME NEW f \in Fields
      PROVE  Striking(f)'
  <2> SUFFICES ASSUME NEW d \in Calls, NEW e \in InHand(d)', e # None, event[e].type = TypeOf(f)
               PROVE  f \notin Updated /\ lesson[f] = IF Carried(d, e)' THEN None ELSE e
    BY <1>1 DEF Striking
  <2>1. e \in InHand(d) /\ (Carried(d, e)' <=> Carried(d, e))
    BY DEF Carried
  <2> QED
    BY <2>1 DEF Striking, CalmInv
<1>6. ASSUME NEW f \in Fields, NEW d \in Calls
      PROVE  Strikes(d, f)'
  <2>1. CASE d = c
    BY <2>1
  <2>2. CASE d # c
    BY <2>2 DEF CalmInv, Strikes
  <2> QED
    BY <2>1, <2>2
<1>7. Shut'
  BY <1>1 DEF Shut, CalmInv, Pending
<1> QED
  BY <1>1, <1>2, <1>3, <1>4, <1>5, <1>6, <1>7 DEF CalmInv

LEMMA OfCallFails ==
  ASSUME CalmInv, NEW c \in Calls, LocksCallFails(c)
  PROVE  CalmInv'
<1>1. /\ call' = [call EXCEPT ![c] = NoCall] /\ change' = [change EXCEPT ![c] = <<>>]
      /\ cut' = cut \cup CarriedOut({c})
      /\ UNCHANGED <<event, saving, update, opened, lesson>>
  BY DEF LocksCallFails, CallFails, eventVars
<1>2. /\ DOMAIN call' = Calls /\ DOMAIN change' = Calls
      /\ call'[c].queue = {} /\ call'[c].event = None /\ call'[c].saved = FALSE
      /\ DOMAIN call'[c] = {"queue", "event", "saved"}
      /\ \A d \in Calls \ {c} : call'[d] = call[d] /\ change'[d] = change[d]
  BY <1>1 DEF CalmInv, Shapes, ChainTypes, NoCall
<1>3. \A d \in Calls : InHand(d)' \subseteq InHand(d) \cup {None}
  BY <1>2 DEF InHand
<1>4. Shapes'
  <2>1. \A e \in CarriedOut({c}) : e \in Events /\ e # None /\ e \in InHand(c)
    BY DEF CarriedOut, InHand, CalmInv, Shapes, ChainTypes
  <2>2. HeldExist'
    BY <1>1, <1>3, <2>1 DEF CalmInv, Shapes, HeldExist
  <2> QED
    BY <1>1, <1>2, <2>2 DEF CalmInv, Shapes, ChainTypes
<1>5. \A f \in Fields : Strikes(c, f)'
  BY <1>2 DEF Strikes
<1>6. Spent' = Spent
  BY <1>1, <1>2 DEF Spent, CarriedOut
<1>7. \A e \in InHand(c)' : e = None
  BY <1>2 DEF InHand
<1> QED
  BY <1>1, <1>2, <1>3, <1>4, <1>5, <1>6, <1>7, CallKept

(* The event that was carried out is to be marked as done.                 *)
LEMMA OfLocksFinish ==
  ASSUME CalmInv, NEW c \in Calls, LocksFinish(c)
  PROVE  CalmInv'
<1> DEFINE e == call[c].event
<1>1. /\ call[c].saved /\ Finish(c, e)
      /\ UNCHANGED <<event, update, opened, lesson, change, cut>>
  BY DEF LocksFinish, FinishSaved, lessonVars, historyVars
<1>2. e \in Events /\ e \in InHand(c)
  BY <1>1 DEF CalmInv, Shapes, ChainTypes, InHand
<1>3. /\ saving' = saving \cup {e}
      /\ DOMAIN call' = Calls
      /\ call'[c].queue = call[c].queue \ {e} /\ call'[c].event = None /\ call'[c].saved = FALSE
      /\ DOMAIN call'[c] = {"queue", "event", "saved"}
      /\ \A d \in Calls \ {c} : call'[d] = call[d] /\ change'[d] = change[d]
      /\ CarriedOut(Calls)' \subseteq CarriedOut(Calls)
      /\ CarriedOut(Calls) \subseteq CarriedOut(Calls)' \cup {e}
  BY <1>1, <1>2, FinishFacts DEF CalmInv, Shapes
<1>4. e \in CarriedOut(Calls)
  BY <1>1 DEF CarriedOut
<1>5. Spent' = Spent
  BY <1>1, <1>3, <1>4 DEF Spent
<1>6. \A d \in Calls : InHand(d)' \subseteq InHand(d) \cup {None}
  BY <1>3 DEF InHand
<1>7. Shapes'
  <2>1. event[e].state # Absent
    BY <1>2, SchedulerAssumption DEF CalmInv, Shapes, HeldExist
  <2>2. HeldExist'
    BY <1>1, <1>3, <1>6, <2>1 DEF CalmInv, Shapes, HeldExist
  <2>3. ChainTypes'
    BY <1>1, <1>2, <1>3 DEF CalmInv, Shapes, ChainTypes
  <2> QED
    BY <1>1, <2>2, <2>3 DEF CalmInv, Shapes
<1>8. \A f \in Fields : Strikes(c, f)'
  BY <1>3 DEF Strikes
<1>9. \A x \in InHand(c)' : x # None => ~Carried(c, x) /\ ~Carried(c, x)'
  BY <1>3 DEF InHand, Carried
<1> QED
  BY <1>1, <1>3, <1>5, <1>6, <1>7, <1>8, <1>9, CallKept

(* What the save of a lesson that was read now will write.                 *)
LEMMA ChangedFields ==
  ASSUME NEW read, NEW doc
  PROVE  /\ \A g : g \in DOMAIN Changed(read, doc) <=> g \in DOMAIN read /\ doc[g] # read[g]
         /\ \A g \in DOMAIN Changed(read, doc) : Changed(read, doc)[g] = doc[g]
BY DEF Changed

LEMMA OfFindLesson ==
  ASSUME CalmInv, Calm, NEW c \in Calls, NEW e \in Events, FindLesson(c, e)
  PROVE  CalmInv'
<1> DEFINE doc == IF event[e].type = Unlock
                  THEN [lesson EXCEPT !.active = TRUE, !.lockUntil = None]
                  ELSE [lesson EXCEPT !.active = FALSE, !.lockAfter = None]
<1>1. /\ call[c].event = None /\ e \in call[c].queue /\ event[e].type \in {Lock, Unlock}
      /\ call' = [call EXCEPT ![c].event = e]
      /\ change' = [change EXCEPT ![c] = Changed(lesson, doc)]
      /\ UNCHANGED <<event, saving, update, opened, lesson, cut>>
  BY DEF FindLesson, Calm, historyVars
<1>2. \A g \in DOMAIN lesson :
        doc[g] = IF g = "active" THEN event[e].type = Unlock
                 ELSE IF g = "lockUntil" /\ event[e].type = Unlock THEN None
                 ELSE IF g = "lockAfter" /\ event[e].type # Unlock THEN None ELSE lesson[g]
  BY DEF CalmInv, Shapes
<1> HIDE DEF doc
<1>3. /\ DOMAIN call' = Calls /\ DOMAIN change' = Calls
      /\ call'[c].queue = call[c].queue /\ call'[c].event = e
      /\ ~call[c].saved /\ call'[c].saved = FALSE
      /\ DOMAIN call'[c] = {"queue", "event", "saved"}
      /\ \A d \in Calls \ {c} : call'[d] = call[d] /\ change'[d] = change[d]
      /\ change'[c] = Changed(lesson, doc)
  BY <1>1 DEF CalmInv, Shapes, ChainTypes
<1>4. \A d \in Calls : InHand(d)' \subseteq InHand(d) \cup {None}
  BY <1>1, <1>3 DEF InHand
<1>5. Shapes'
  BY <1>1, <1>3, <1>4 DEF CalmInv, Shapes, ChainTypes, HeldExist
<1>6. ASSUME NEW f \in Fields, event[e].type = TypeOf(f)
      PROVE  /\ f \in DOMAIN change'[c] /\ change'[c][f] = None
             /\ DOMAIN change'[c] \subseteq {f, "active"}
             /\ "active" \in DOMAIN change'[c] => change'[c]["active"] = (f = "lockUntil")
  <2>1. lesson[f] = e /\ e # None
    BY <1>1, <1>3, <1>6, SchedulerAssumption DEF CalmInv, Striking, Carried, InHand
  <2>2. DOMAIN lesson = {"exists", "active", "lockUntil", "lockAfter"}
    BY DEF CalmInv, Shapes
  <2>3. /\ doc[f] = None /\ \A g \in DOMAIN lesson \ {f, "active"} : doc[g] = lesson[g]
        /\ doc["active"] = (f = "lockUntil")
    BY <1>2, <1>6, <2>2 DEF Fields, TypeOf
  <2>4. /\ \A g : g \in DOMAIN change'[c] <=> g \in DOMAIN lesson /\ doc[g] # lesson[g]
        /\ \A g \in DOMAIN change'[c] : change'[c][g] = doc[g]
    BY <1>3, ChangedFields
  <2>5. DOMAIN change'[c] \subseteq {f, "active"}
    BY <2>3, <2>4
  <2>6. f \in DOMAIN change'[c] /\ change'[c][f] = None
    BY <2>1, <2>2, <2>3, <2>4 DEF Fields
  <2>7. "active" \in DOMAIN change'[c] => change'[c]["active"] = (f = "lockUntil")
    BY <2>3, <2>4
  <2> QED
    BY <2>5, <2>6, <2>7
<1>7. \A f \in Fields : Strikes(c, f)'
  BY <1>1, <1>3, <1>6 DEF Strikes
<1>8. Spent' = Spent
  BY <1>1, <1>3 DEF Spent, CarriedOut
<1>9. \A x \in InHand(c)' : ~Carried(c, x) /\ ~Carried(c, x)'
  BY <1>3 DEF Carried
<1> QED
  BY <1>1, <1>3, <1>4, <1>5, <1>7, <1>8, <1>9, CallKept

(* The scheduler takes up events of which each is the lock of the lesson,  *)
(* unless a request works on it.                                           *)
LEMMA OfLocksCall ==
  ASSUME CalmInv, NEW c \in Calls, LocksCall(c), ~raced'
  PROVE  CalmInv'
<1>1. PICK E \in SUBSET Events : TakeUp(c, E) /\ \A e \in E : event[e].state \in {Open, Done}
  <2>1. CASE CheckEvents(c)
    BY <2>1 DEF CheckEvents
  <2>2. ASSUME NEW e \in Events, TriggerEvent(c, e)
        PROVE  \E E \in SUBSET Events : TakeUp(c, E) /\ \A x \in E : event[x].state \in {Open, Done}
    <3>1. TakeUp(c, {e}) /\ {e} \in SUBSET Events /\ \A x \in {e} : event[x].state \in {Open, Done}
      BY <2>2 DEF TriggerEvent
    <3> QED
      BY <3>1
  <2> QED
    BY <2>1, <2>2 DEF LocksCall
<1>2. /\ UNCHANGED <<event, saving, lesson, change, update, opened, cut>>
      /\ DOMAIN call' = Calls
      /\ call'[c].queue = E /\ call'[c].event = None /\ call'[c].saved = FALSE
      /\ DOMAIN call'[c] = {"queue", "event", "saved"}
      /\ \A d \in Calls \ {c} : call'[d] = call[d]
      /\ CarriedOut(Calls)' = CarriedOut(Calls)
  BY <1>1, TakeUpFacts DEF LocksCall, lessonVars, CalmInv, Shapes
<1>3. E \cap Taken = {} /\ Updated \cap Triggered' = {}
  <2>1. raced' = (repeated' \/ Updated \cap Triggered' # {})
    BY DEF LocksCall
  <2>2. repeated' = (repeated \/ E \cap Taken # {})
    BY <1>1 DEF TakeUp
  <2> QED
    BY <2>1, <2>2
<1>4. \A e \in E : e \notin saving \cup cut /\ event[e].state = Open /\ \A d \in Calls : e \notin InHand(d)
  <2> SUFFICES ASSUME NEW e \in E
               PROVE  e \notin saving \cup cut /\ event[e].state = Open /\ \A d \in Calls : e \notin InHand(d)
    OBVIOUS
  <2>1. e \notin Taken
    BY <1>3
  <2> QED
    BY <1>1, <2>1 DEF Taken
<1>5. \A d \in Calls : \A e \in InHand(d)' : e = None \/ e \in InHand(d) \/ (d = c /\ e \in E)
  BY <1>2 DEF InHand
<1>6. Shapes'
  BY <1>2, <1>4, <1>5 DEF CalmInv, Shapes, ChainTypes, HeldExist
<1>7. HandsApart'
  BY <1>4, <1>5, SchedulerAssumption DEF CalmInv, HandsApart
<1>0. Spent' = Spent
  BY <1>2 DEF Spent
<1>8. Updated' = Updated /\ UpdatesApart' /\ (\A f \in Fields : PendingOf(f)' = PendingOf(f))
      /\ \A f \in Fields : \A e : Refers(f, e) = Refers(f, e)'
  BY <1>0, <1>2 DEF Updated, UpdatesApart, CalmInv, PendingOf, Pending, Refers
<1>9. ASSUME NEW f \in Fields, NEW e \in E, event[e].type = TypeOf(f)
      PROVE  f \notin Updated /\ lesson[f] = e
  <2>1. f \in Triggered'
    <3>1. e \in InHand(c)' /\ e # None
      BY <1>2, SchedulerAssumption DEF InHand
    <3> QED
      BY <1>2, <1>9, <3>1 DEF Triggered
  <2>0. e \notin CarriedOut(Calls)
    BY <1>4 DEF CarriedOut, InHand
  <2>2. e \in PendingOf(f)
    BY <1>4, <1>9, <2>0 DEF PendingOf, Pending, Spent
  <2> QED
    BY <1>3, <2>1, <2>2 DEF CalmInv, IsLock
<1>10. ASSUME NEW f \in Fields
       PROVE  Striking(f)'
  <2> SUFFICES ASSUME NEW d \in Calls, NEW e \in InHand(d)', e # None, event[e].type = TypeOf(f)
               PROVE  f \notin Updated /\ lesson[f] = IF Carried(d, e)' THEN None ELSE e
    BY <1>2, <1>8 DEF Striking
  <2>1. CASE d = c
    BY <1>2, <1>9, <2>1 DEF InHand, Carried
  <2>2. CASE d # c
    BY <1>2, <2>2 DEF InHand, Carried, CalmInv, Striking
  <2> QED
    BY <2>1, <2>2
<1>11. ASSUME NEW f \in Fields, NEW d \in Calls
       PROVE  Strikes(d, f)'
  BY <1>2 DEF CalmInv, Strikes
<1>12. \A u \in Updates : UpdateInv(update[u])'
  BY <1>2, <1>8, UpdateKept DEF CalmInv, UpdateInv, ShapeOf
<1>13. \A f \in Fields \ Updated' : IsLock(f, lesson[f])'
  BY <1>2, <1>8 DEF CalmInv, IsLock
<1>14. Shut'
  BY <1>2, <1>8 DEF Shut, CalmInv, Pending
<1> QED
  BY <1>6, <1>7, <1>8, <1>10, <1>11, <1>12, <1>13, <1>14 DEF CalmInv

(* The event is carried out: the lesson has that lock no more.             *)
LEMMA OfSaveLesson ==
  ASSUME CalmInv, Calm, NEW c \in Calls, SaveLesson(c)
  PROVE  CalmInv'
<1> DEFINE e == call[c].event
<1>1. /\ e # None /\ event[e].type \in {Lock, Unlock} /\ ~call[c].saved
      /\ lesson' = Written(change[c], lesson) /\ call' = [call EXCEPT ![c].saved = TRUE]
      /\ change' = [change EXCEPT ![c] = <<>>]
      /\ UNCHANGED <<event, saving, update, opened, cut>>
  BY DEF SaveLesson, Calm, eventVars, historyVars
<1>2. e \in Events /\ e \in InHand(c)
  BY <1>1 DEF CalmInv, Shapes, ChainTypes, InHand
<1>0. /\ DOMAIN call' = Calls /\ DOMAIN change' = Calls
      /\ call'[c].queue = call[c].queue /\ call'[c].event = e /\ call'[c].saved = TRUE
      /\ DOMAIN call'[c] = {"queue", "event", "saved"}
      /\ \A d \in Calls \ {c} : call'[d] = call[d] /\ change'[d] = change[d]
      /\ \A d \in Calls : InHand(d)' = InHand(d)
  BY <1>1 DEF CalmInv, Shapes, ChainTypes, InHand
<1> HIDE DEF e
<1>3. PICK f \in Fields : event[e].type = TypeOf(f)
  BY <1>1 DEF Fields, TypeOf
<1>4. Spent' = Spent \cup {e}
  BY <1>0, <1>1 DEF Spent, CarriedOut, e
<1>5. f \notin Updated /\ lesson[f] = e
  BY <1>1, <1>2, <1>3 DEF CalmInv, Striking, Carried
<1>6. /\ f \in DOMAIN change[c] /\ change[c][f] = None
      /\ DOMAIN change[c] \subseteq {f, "active"}
      /\ "active" \in DOMAIN change[c] => change[c]["active"] = (f = "lockUntil")
  BY <1>1, <1>3 DEF CalmInv, Strikes, e
<1>7. DOMAIN lesson = {"exists", "active", "lockUntil", "lockAfter"}
  BY DEF CalmInv, Shapes
<1>8. /\ DOMAIN lesson' = DOMAIN lesson
      /\ \A g \in DOMAIN lesson : lesson'[g] = IF g \in DOMAIN change[c] THEN change[c][g] ELSE lesson[g]
  BY <1>1, <1>6, <1>7 DEF Written
<1>9. /\ lesson'[f] = None /\ \A g \in Fields \ {f} : lesson'[g] = lesson[g]
      /\ f # "lockUntil" => (lesson'["active"] => lesson["active"])
  BY <1>6, <1>7, <1>8 DEF Fields
<1>10. \A d \in Calls : d # c => e \notin InHand(d)
  BY <1>2 DEF CalmInv, HandsApart
<1>11. Shapes'
  <2>1. ChainTypes'
    BY <1>0, <1>1, <1>2 DEF CalmInv, Shapes, ChainTypes
  <2>2. HeldExist'
    BY <1>0, <1>1 DEF CalmInv, Shapes, HeldExist
  <2> QED
    BY <1>0, <1>1, <1>7, <1>8, <2>1, <2>2 DEF CalmInv, Shapes
<1>12. HandsApart'
  BY <1>0 DEF CalmInv, HandsApart
<1>13. Updated' = Updated /\ UpdatesApart' /\ (\A g \in Fields : PendingOf(g)' \subseteq PendingOf(g) \ {e})
       /\ \A g \in Fields \ {f} : \A x : Refers(g, x) => Refers(g, x)'
  BY <1>1, <1>3, <1>4, TypesOfFields DEF Updated, UpdatesApart, CalmInv, PendingOf, Pending, Refers
<1>14. \A u \in Updates : f \notin update[u].fields
  BY <1>5, UpdatedFields
<1>15. \A u \in Updates : UpdateInv(update[u])'
  BY <1>1, <1>9, <1>13, <1>14, UpdateKept DEF CalmInv, UpdateInv, ShapeOf
<1>16. ASSUME NEW g \in Fields \ Updated'
       PROVE  IsLock(g, lesson[g])'
  <2>1. IsLock(g, lesson[g])
    BY <1>13, <1>16 DEF CalmInv
  <2>2. CASE g = f
    BY <1>5, <1>9, <1>13, <2>1, <2>2 DEF IsLock, Refers
  <2>3. CASE g # f
    BY <1>9, <1>13, <1>16, <2>1, <2>3 DEF IsLock
  <2> QED
    BY <2>2, <2>3
<1>17. ASSUME NEW g \in Fields
       PROVE  Striking(g)'
  <2> SUFFICES ASSUME NEW d \in Calls, NEW x \in InHand(d), x # None, event[x].type = TypeOf(g)
               PROVE  g \notin Updated /\ lesson'[g] = IF Carried(d, x)' THEN None ELSE x
    BY <1>0, <1>1, <1>13 DEF Striking
  <2>1. g \notin Updated /\ lesson[g] = IF Carried(d, x) THEN None ELSE x
    BY DEF CalmInv, Striking
  <2>2. CASE g = f
    (* No other event of the kind is in hand. *)
    <3>1. x = e /\ d = c
      BY <1>1, <1>2, <1>5, <1>10, <2>1, <2>2 DEF Carried, e, CalmInv, HandsApart, InHand
    <3> QED
      BY <1>0, <1>5, <1>9, <2>2, <3>1 DEF Carried
  <2>3. CASE g # f
    <3>1. x # e
      BY <1>3, <2>3, TypesOfFields
    <3>2. Carried(d, x)' <=> Carried(d, x)
      BY <1>0, <1>1, <3>1 DEF Carried, e
    <3> QED
      BY <1>9, <2>1, <2>3, <3>2
  <2> QED
    BY <2>2, <2>3
<1>18. ASSUME NEW g \in Fields, NEW d \in Calls
       PROVE  Strikes(d, g)'
  BY <1>0, <1>1 DEF CalmInv, Strikes
<1>19. Shut'
  <2>1. CASE f = "lockUntil"
    <3>1. lesson'["lockUntil"] \notin Pending(Unlock)'
      BY <1>9, <2>1, SchedulerAssumption DEF Pending
    <3> QED
      BY <3>1 DEF Shut
  <2>2. CASE f # "lockUntil"
    <3>1. lesson'["lockUntil"] = lesson["lockUntil"] /\ Pending(Unlock)' = Pending(Unlock)
      BY <1>1, <1>9, <2>2 DEF Fields, Pending
    <3> QED
      BY <1>1, <1>9, <1>13, <2>2, <3>1 DEF Shut, CalmInv
  <2> QED
    BY <2>1, <2>2
<1> QED
  BY <1>11, <1>12, <1>13, <1>15, <1>16, <1>17, <1>18, <1>19 DEF CalmInv
------------------------------------------------------------------------------
(* activate_lesson and deactivate_lesson, with no request at work.         *)
LEMMA OfSetActive ==
  ASSUME CalmInv, NEW active \in BOOLEAN, SetActive(active), ~raced'
  PROVE  CalmInv'
<1>1. /\ lesson' = [lesson EXCEPT !.active = active]
      /\ opened' = (opened \/ active)
      /\ UNCHANGED <<event, saving, call, change, update, cut>>
  BY DEF SetActive, schedulerVars, eventVars, historyVars
<1>2. ~Updating
  BY DEF SetActive
<1>3. /\ DOMAIN lesson' = DOMAIN lesson
      /\ \A f \in Fields : lesson'[f] = lesson[f]
      /\ lesson'["active"] = active
  BY <1>1 DEF CalmInv, Shapes, Fields
<1>4. \A u \in Updates : update[u].fields = {}
  BY <1>2 DEF Updating, CalmInv, UpdateInv, ShapeOf
<1>5. Updated' = Updated /\ UpdatesApart' /\ HandsApart' /\ (\A f \in Fields : PendingOf(f)' = PendingOf(f))
      /\ (\A f \in Fields : \A e : Refers(f, e) = Refers(f, e)') /\ Pending(Unlock)' = Pending(Unlock)
  BY <1>1, SpentKept DEF Updated, UpdatesApart, HandsApart, InHand, CalmInv, PendingOf, Pending, Refers
<1>6. Shapes'
  BY <1>1, <1>3 DEF CalmInv, Shapes, ChainTypes, HeldExist, InHand
<1>7. ASSUME NEW u \in Updates
      PROVE  UpdateInv(update[u])'
  <2>1. UpdateInv(update[u]) /\ update[u].todo = <<>>
    BY <1>2 DEF CalmInv, Updating
  <2>2. ShapeOf(update[u])' /\ OldEvents(update[u])'
    BY <1>1, <2>1 DEF UpdateInv, ShapeOf, OldEvents, Ordered
  <2>3. Closes(update[u])'
    BY <1>1, <1>4, <2>1 DEF UpdateInv, Closes
  <2> QED
    BY <1>1, <1>4, <2>2, <2>3 DEF UpdateInv
<1>8. \A f \in Fields \ Updated' : IsLock(f, lesson[f])'
  BY <1>3, <1>5 DEF CalmInv, IsLock
<1>9. ASSUME NEW f \in Fields
      PROVE  Striking(f)'
  BY <1>1, <1>3, <1>5 DEF CalmInv, Striking, Carried, InHand
<1>10. ASSUME NEW f \in Fields, NEW c \in Calls
       PROVE  Strikes(c, f)'
  BY <1>1 DEF CalmInv, Strikes
<1>11. Shut'
  <2>1. CASE active = TRUE
    BY <1>1, <2>1 DEF Shut
  <2>2. CASE active = FALSE
    BY <1>3, <2>2 DEF Shut
  <2> QED
    BY <2>1, <2>2
<1> QED
  BY <1>5, <1>6, <1>7, <1>8, <1>9, <1>10, <1>11 DEF CalmInv

(* A restart that interrupts nothing.                                      *)
LEMMA OfCrash ==
  ASSUME CalmInv, LocksCrash, ~raced'
  PROVE  CalmInv'
<1>1. /\ call' = [c \in Calls |-> NoCall] /\ change' = [c \in Calls |-> <<>>]
      /\ update' = [u \in Updates |-> NoUpdate]
      /\ saving' = {} /\ cut' = cut \cup CarriedOut(Calls) /\ UNCHANGED <<event, lesson, opened>>
  BY DEF LocksCrash, Crash
<1>2. saving = {} /\ ~Updating
  BY DEF LocksCrash, Crash
<1>3. \A u \in Updates : update[u].fields = {}
  BY <1>2 DEF Updating, CalmInv, UpdateInv, ShapeOf
<1>4. \A u \in Updates : /\ update'[u] = NoUpdate
                         /\ NoUpdate.fields = {} /\ NoUpdate.todo = <<>> /\ NoUpdate.set = <<>>
                         /\ NoUpdate.active = FALSE
  BY <1>1 DEF NoUpdate
<1>5. Updated' = Updated
  BY <1>3, <1>4, UpdatedFields DEF Updated
<1>0. Spent' = Spent
  <2>1. CarriedOut(Calls)' = {}
    BY <1>1 DEF CarriedOut, NoCall
  <2> QED
    BY <1>1, <1>2, <2>1 DEF Spent
<1>6. /\ \A f \in Fields : PendingOf(f)' = PendingOf(f)
      /\ \A f \in Fields : \A e : Refers(f, e) = Refers(f, e)'
      /\ Pending(Unlock)' = Pending(Unlock)
  BY <1>0, <1>1 DEF PendingOf, Pending, Refers
<1>7. \A c \in Calls : InHand(c)' = {None} /\ call'[c].event = None
  BY <1>1 DEF InHand, NoCall
<1>8. Shapes'
  <2>1. ChainTypes'
    BY <1>1 DEF CalmInv, Shapes, ChainTypes, NoCall
  <2>2. HeldExist'
    <3>1. \A e \in CarriedOut(Calls) : e \in Events /\ event[e].state # Absent
      BY CarriedInHand, SchedulerAssumption DEF CalmInv, Shapes, HeldExist
    <3> QED
      BY <1>1, <1>7, <3>1 DEF HeldExist, CalmInv, Shapes
  <2>3. DOMAIN lesson' = DOMAIN lesson /\ DOMAIN update' = Updates /\ DOMAIN change' = Calls
    BY <1>1
  <2> QED
    BY <2>1, <2>2, <2>3 DEF CalmInv, Shapes
<1>9. ASSUME NEW u \in Updates
      PROVE  UpdateInv(update[u])'
  <2>1. ShapeOf(NoUpdate)
    BY DEF ShapeOf, Ordered, NoUpdate
  <2>2. OldEvents(update[u])' /\ Closes(update[u])'
    BY <1>4 DEF OldEvents, Closes
  <2>3. ShapeOf(update[u])'
    BY <1>4, <2>1
  <2> QED
    BY <1>4, <2>2, <2>3 DEF UpdateInv
<1>10. UpdatesApart'
  BY <1>4 DEF UpdatesApart
<1>11. \A f \in Fields \ Updated' : IsLock(f, lesson[f])'
  BY <1>1, <1>5, <1>6 DEF CalmInv, IsLock
<1>12. HandsApart'
  BY <1>7, SchedulerAssumption DEF HandsApart
<1>13. \A f \in Fields : Striking(f)' /\ \A c \in Calls : Strikes(c, f)'
  BY <1>7 DEF Striking, Strikes
<1>14. Shut'
  BY <1>1, <1>5, <1>6 DEF CalmInv, Shut
<1> QED
  BY <1>8, <1>9, <1>10, <1>11, <1>12, <1>13, <1>14 DEF CalmInv
------------------------------------------------------------------------------
(* The steps ahead without the first of them.                              *)
LEMMA TailFacts ==
  ASSUME NEW t, Ordered(t), t # <<>>
  PROVE  /\ Head(t) = t[1] /\ t[1] \in Steps /\ Ordered(Tail(t))
         /\ Len(Tail(t)) = Len(t) - 1 /\ \A i \in 1 .. Len(Tail(t)) : Tail(t)[i] = t[i + 1]
         /\ t[1].step # "save" => Tail(t) # <<>>
         /\ \A step, field : Has(Tail(t), step, field) <=>
              Has(t, step, field) /\ ~(t[1].step = step /\ t[1].field = field)
         /\ t[1].step = "create" => ~Has(t, "done", t[1].field)
         /\ t[1].step = "save" => \A field : ~Has(t, "done", field) /\ ~Has(t, "create", field)
<1>1. t \in Seq(Steps) /\ Len(t) \in Nat /\ Len(t) > 0
  BY DEF Ordered
<1>2. /\ Head(t) = t[1] /\ t[1] \in Steps /\ Tail(t) \in Seq(Steps)
      /\ Len(Tail(t)) = Len(t) - 1 /\ \A i \in 1 .. Len(Tail(t)) : Tail(t)[i] = t[i + 1]
  BY <1>1
<1>3. Ordered(Tail(t))
  <2> DEFINE s == Tail(t)
  <2>1. \A i \in 1 .. Len(s) : i \in Int /\ i + 1 \in 1 .. Len(t) /\ s[i] = t[i + 1]
    BY <1>1, <1>2
  <2>2. s \in Seq(Steps) /\ Len(s) = Len(t) - 1
    BY <1>2
  <2> HIDE DEF s
  <2>5. s # <<>> => s[Len(s)].step = "save"
    <3> SUFFICES ASSUME s # <<>> PROVE s[Len(s)].step = "save"
      OBVIOUS
    <3>1. Len(s) \in 1 .. Len(s)
      BY <2>2
    <3>2. s[Len(s)] = t[Len(t)]
      BY <1>1, <2>1, <2>2, <3>1
    <3> QED
      BY <3>2 DEF Ordered
  <2>3. ASSUME NEW i \in 1 .. Len(s)
        PROVE  s[i].step = "save" => i = Len(s)
    BY <1>1, <2>1, <2>2, <2>3 DEF Ordered
  <2>4. ASSUME NEW i \in 1 .. Len(s), NEW j \in 1 .. Len(s), s[i].field = s[j].field
        PROVE  /\ i < j => s[i].step = "done" \/ s[j].step = "save"
               /\ i # j => s[i].step # s[j].step
    <3>1. /\ i + 1 \in 1 .. Len(t) /\ j + 1 \in 1 .. Len(t)
          /\ s[i] = t[i + 1] /\ s[j] = t[j + 1]
          /\ (i < j => i + 1 < j + 1) /\ (i # j => i + 1 # j + 1)
      BY <2>1, <2>4
    <3> QED
      BY <2>4, <3>1 DEF Ordered
  <2> QED
    BY <2>2, <2>3, <2>4, <2>5 DEF Ordered
<1>4. ASSUME NEW step, NEW field
      PROVE  Has(Tail(t), step, field) <=>
              Has(t, step, field) /\ ~(t[1].step = step /\ t[1].field = field)
  <2>1. ASSUME Has(Tail(t), step, field)
        PROVE  Has(t, step, field) /\ ~(t[1].step = step /\ t[1].field = field)
    <3>1. PICK i \in 1 .. Len(Tail(t)) : Tail(t)[i].step = step /\ Tail(t)[i].field = field
      BY <2>1 DEF Has
    <3>2. i + 1 \in 1 .. Len(t) /\ 1 \in 1 .. Len(t) /\ i + 1 # 1
          /\ t[i + 1].step = step /\ t[i + 1].field = field
      BY <1>1, <1>2, <3>1
    <3> QED
      BY <3>2 DEF Has, Ordered
  <2>2. ASSUME Has(t, step, field), ~(t[1].step = step /\ t[1].field = field)
        PROVE  Has(Tail(t), step, field)
    <3>1. PICK i \in 1 .. Len(t) : t[i].step = step /\ t[i].field = field
      BY <2>2 DEF Has
    <3>2. i - 1 \in 1 .. Len(Tail(t)) /\ Tail(t)[i - 1] = t[i]
      BY <1>1, <1>2, <2>2, <3>1
    <3> QED
      BY <3>1, <3>2 DEF Has
  <2> QED
    BY <2>1, <2>2
<1>5. ASSUME t[1].step = "create", Has(t, "done", t[1].field)
      PROVE  FALSE
  <2>1. PICK i \in 1 .. Len(t) : t[i].step = "done" /\ t[i].field = t[1].field
    BY <1>5 DEF Has
  <2>2. 1 \in 1 .. Len(t) /\ 1 < i
    BY <1>1, <1>5, <2>1
  <2> QED
    BY <1>5, <2>1, <2>2 DEF Ordered
<1>6. ASSUME t[1].step = "save", NEW field
      PROVE  ~Has(t, "done", field) /\ ~Has(t, "create", field)
  <2>1. Len(t) = 1
    <3>1. 1 \in 1 .. Len(t)
      BY <1>1
    <3> QED
      BY <1>6, <3>1 DEF Ordered
  <2> QED
    BY <1>6, <2>1 DEF Has
<1>7. ASSUME t[1].step # "save", Tail(t) = <<>>
      PROVE  FALSE
  <2>1. Len(t) = 1
    <3>1. Len(Tail(t)) = 0
      BY <1>7, EmptySeq
    <3> QED
      BY <1>1, <1>2, <3>1
  <2> QED
    BY <1>7, <2>1 DEF Ordered
<1> QED
  BY <1>2, <1>3, <1>4, <1>5, <1>6, <1>7
------------------------------------------------------------------------------
(* A step of update_lesson for one field, before the lesson is saved.      *)
LEMMA FieldStep ==
  ASSUME CalmInv, Shapes', NEW u \in Updates, NEW f \in update[u].fields,
         UNCHANGED <<lesson, change, call, saving, opened>>,
         \A v \in Updates \ {u} : update'[v] = update[v],
         update'[u].fields = update[u].fields,
         \A g \in Fields \ {f} :
           /\ PendingOf(g)' \subseteq PendingOf(g)
           /\ \A e : Refers(g, e) => Refers(g, e)',
         \A e \in Events : event[e].state # Absent => event'[e].type = event[e].type,
         \A e \in Events : event[e].state # Absent /\ event'[e].state = Open => event[e].state = Open,
         UpdateInv(update[u])'
  PROVE  CalmInv'
<1>1. Updated' = Updated /\ f \in Updated
  <2>1. \A v \in Updates : update'[v].fields = update[v].fields
    OBVIOUS
  <2> QED
    BY <2>1 DEF Updated
<1>2. UpdatesApart' /\ HandsApart'
  <2>1. \A v \in Updates : update'[v].fields = update[v].fields
    OBVIOUS
  <2> QED
    BY <2>1 DEF UpdatesApart, HandsApart, InHand, CalmInv
<1>3. ASSUME NEW v \in Updates
      PROVE  UpdateInv(update[v])'
  <2>1. CASE v = u
    BY <2>1
  <2>2. CASE v # u
    <3>1. f \notin update[v].fields /\ update[v].fields \subseteq Fields /\ UpdateInv(update[v])
      BY <2>2 DEF CalmInv, UpdatesApart, UpdateInv, ShapeOf
    <3> QED
      BY <2>2, <3>1, UpdateKept
  <2> QED
    BY <2>1, <2>2
<1>4. \A g \in Fields \ Updated' : IsLock(g, lesson[g])'
  BY <1>1 DEF CalmInv, IsLock
<1>5. ASSUME NEW g \in Fields
      PROVE  Striking(g)'
  <2>1. \A c \in Calls : \A e \in InHand(c) : e # None => e \in Events /\ event'[e].type = event[e].type
    BY DEF CalmInv, Shapes, HeldExist, ChainTypes, InHand
  <2> QED
    BY <1>1, <2>1 DEF CalmInv, Striking, Carried, InHand
<1>6. ASSUME NEW g \in Fields, NEW c \in Calls
      PROVE  Strikes(c, g)'
  <2>1. call[c].event # None =>
          call[c].event \in Events /\ event'[call[c].event].type = event[call[c].event].type
    BY DEF CalmInv, Shapes, HeldExist, ChainTypes, InHand
  <2> QED
    BY <2>1 DEF CalmInv, Strikes
<1>7. Shut'
  <2> SUFFICES ASSUME "lockUntil" \notin Updated, lesson["lockUntil"] \in Pending(Unlock)'
               PROVE  lesson["lockUntil"] \in Pending(Unlock)
    BY <1>1 DEF CalmInv, Shut
  <2>1. lesson["lockUntil"] \in Events
    BY DEF Pending
  <2>2. Refers("lockUntil", lesson["lockUntil"])
    BY DEF CalmInv, IsLock, Fields
  <2> QED
    BY <2>1, <2>2, SchedulerAssumption, TypesOfFields DEF Refers, Pending
<1> QED
  BY <1>1, <1>2, <1>3, <1>4, <1>5, <1>6, <1>7 DEF CalmInv

LEMMA OfMarkEventDone ==
  ASSUME CalmInv, NEW u \in Updates, MarkEventDone(u), ~raced'
  PROVE  CalmInv'
<1> DEFINE q == update[u]
<1> PICK f, e : f = Head(update[u].todo).field /\ e = Head(update[u].todo).event
  OBVIOUS
<1>1. UpdateInv(q) /\ q.todo # <<>>
  BY DEF CalmInv, MarkEventDone, Next1
<1>2. Ordered(q.todo) /\ 1 \in 1 .. Len(q.todo) /\ Head(q.todo) = q.todo[1] /\ q.todo[1].step = "done"
  <2>1. Ordered(q.todo) /\ Len(q.todo) \in Nat /\ Len(q.todo) # 0
    BY <1>1 DEF UpdateInv, ShapeOf, Ordered
  <2> QED
    BY <1>1, <2>1, TailFacts DEF MarkEventDone, Next1
<1>3. f \in q.fields /\ f \in Fields /\ e = lesson[f] /\ Has(q.todo, "done", f)
  BY <1>1, <1>2 DEF UpdateInv, ShapeOf, OldEvents, Has
<1>4. IsLock(f, e) /\ e # None /\ Phase(q, f)
  BY <1>1, <1>3 DEF UpdateInv, Phase
<1>5. e \in Events \ Spent /\ event[e].type = TypeOf(f) /\ event[e].state \in {Open, Deleted}
  BY <1>4 DEF IsLock, Refers
<1>6. /\ event[e].state # Deleted
      /\ event' = [event EXCEPT ![e].state = Done]
      /\ update' = [update EXCEPT ![u].todo = Tail(@)]
      /\ UNCHANGED <<lesson, change, call, saving, opened, cut>>
  BY DEF MarkEventDone, Abandon, lessonVars, historyVars
<1>7. /\ event' \in [Events -> EventDoc] /\ event'[e].type = event[e].type /\ event'[e].state = Done
      /\ \A x \in Events \ {e} : event'[x] = event[x]
  BY <1>5, <1>6 DEF CalmInv, Shapes, ChainTypes, EventDoc
<1>8. /\ DOMAIN update' = Updates /\ \A v \in Updates \ {u} : update'[v] = update[v]
      /\ update'[u] = [todo |-> Tail(q.todo), fields |-> q.fields, active |-> q.active, set |-> q.set]
  <2>1. DOMAIN update = Updates
    BY DEF CalmInv, Shapes
  <2>2. q = [todo |-> q.todo, fields |-> q.fields, active |-> q.active, set |-> q.set]
    BY <1>1 DEF UpdateInv, ShapeOf
  <2> QED
    BY <1>6, <2>1, <2>2
<1> HIDE DEF q
<1>9. Shapes'
  BY <1>6, <1>7, <1>8 DEF CalmInv, Shapes, ChainTypes, HeldExist, InHand
<1>10. \A g \in Fields : PendingOf(g)' \subseteq PendingOf(g) \ {e}
  BY <1>6, <1>7, SpentKept DEF PendingOf, Pending
<1>11. \A g \in Fields \ {f} : \A x : Refers(g, x) => Refers(g, x)'
  <2>1. \A g \in Fields \ {f} : TypeOf(g) # event[e].type
    BY <1>3, <1>5, TypesOfFields
  <2> QED
    BY <1>6, <1>7, <2>1, SpentKept DEF Refers
<1>12. /\ Ordered(Tail(q.todo)) /\ Len(Tail(q.todo)) = Len(q.todo) - 1 /\ Len(q.todo) \in Nat
       /\ \A i \in 1 .. Len(Tail(q.todo)) : Tail(q.todo)[i] = q.todo[i + 1]
       /\ \A step, g : Has(Tail(q.todo), step, g) <=>
            Has(q.todo, step, g) /\ ~("done" = step /\ f = g)
       /\ Tail(q.todo) # <<>>
  <2>1. f = q.todo[1].field /\ q.todo # <<>> /\ Len(q.todo) \in Nat
    BY <1>1, <1>2 DEF q, Ordered
  <2> QED
    BY <1>2, <2>1, TailFacts
<1>13. UpdateInv(update[u])'
  <2>1. q.todo # <<>> /\ ShapeOf(q) /\ OldEvents(q) /\ Closes(q) /\ \A g \in q.fields : Phase(q, g)
    BY <1>1 DEF UpdateInv
  <2>2. /\ update'[u].todo = Tail(q.todo) /\ update'[u].fields = q.fields
        /\ update'[u].active = q.active /\ update'[u].set = q.set
    BY <1>8
  <2>3. Tail(q.todo) # <<>>
    BY <1>12
  <2>4. \A i \in 1 .. Len(Tail(q.todo)) : i + 1 \in 1 .. Len(q.todo)
    BY <1>12
  <2>5. ShapeOf(update[u])'
    BY <1>8, <1>12, <2>1, <2>2, <2>3, <2>4 DEF ShapeOf
  <2>6. OldEvents(update[u])'
    <3> SUFFICES ASSUME NEW i \in 1 .. Len(Tail(q.todo)), Tail(q.todo)[i].step = "done"
                 PROVE  Tail(q.todo)[i].event = lesson'[Tail(q.todo)[i].field]
      BY <2>2 DEF OldEvents
    <3>1. i + 1 \in 1 .. Len(q.todo) /\ Tail(q.todo)[i] = q.todo[i + 1]
      BY <1>12, <2>4
    <3> QED
      BY <1>6, <2>1, <3>1 DEF OldEvents
  <2>7. Closes(update[u])'
    BY <1>6, <2>1, <2>2 DEF Closes
  <2>8. ASSUME NEW g \in q.fields
        PROVE  Phase(update[u], g)'
    <3>1. g \in Fields /\ Phase(q, g)
      BY <2>1 DEF ShapeOf
    <3>2. CASE g = f
      <4>1. PendingOf(f)' = {}
        BY <1>3, <1>4, <1>10 DEF IsLock
      <4>2. ~Has(Tail(q.todo), "done", f) /\ (Has(Tail(q.todo), "create", f) <=> Has(q.todo, "create", f))
        BY <1>12
      <4>3. ~Has(q.todo, "create", f) => f \in DOMAIN q.set /\ q.set[f] = None
        BY <1>3, <1>4 DEF Phase
      <4> QED
        BY <2>2, <3>2, <4>1, <4>2, <4>3 DEF Phase, IsLock, Refers
    <3>3. CASE g # f
      <4>1. \A x : IsLock(g, x) => IsLock(g, x)'
        BY <1>10, <1>11, <3>1, <3>3 DEF IsLock
      <4>2. PendingOf(g)' \subseteq PendingOf(g)
        BY <1>10, <3>1
      <4>3. \A step : Has(Tail(q.todo), step, g) <=> Has(q.todo, step, g)
        BY <1>12, <3>3
      <4> QED
        BY <1>6, <2>2, <3>1, <4>1, <4>2, <4>3 DEF Phase
    <3> QED
      BY <3>2, <3>3
  <2> QED
    BY <2>2, <2>5, <2>6, <2>7, <2>8 DEF UpdateInv
<1>14. f \in update[u].fields /\ update'[u].fields = update[u].fields
  BY <1>3, <1>8 DEF q
<1> QED
  BY <1>6, <1>7, <1>8, <1>9, <1>10, <1>11, <1>13, <1>14, FieldStep

LEMMA AssignedFields ==
  ASSUME NEW old, NEW field, NEW value
  PROVE  /\ \A x : x \in DOMAIN Assigned(old, field, value) <=> x \in DOMAIN old \/ x = field
         /\ Assigned(old, field, value)[field] = value
         /\ \A x \in DOMAIN old \ {field} : Assigned(old, field, value)[x] = old[x]
BY DEF Assigned

LEMMA OfCreateEvent ==
  ASSUME CalmInv, NEW u \in Updates, CreateEvent(u)
  PROVE  CalmInv'
<1> DEFINE q == update[u]
<1> PICK f : f = Head(update[u].todo).field
  OBVIOUS
<1>1. UpdateInv(q) /\ q.todo # <<>>
  BY DEF CalmInv, CreateEvent, Next1
<1>2. Ordered(q.todo) /\ 1 \in 1 .. Len(q.todo) /\ Head(q.todo) = q.todo[1] /\ q.todo[1].step = "create"
  <2>1. Ordered(q.todo) /\ Len(q.todo) \in Nat /\ Len(q.todo) # 0
    BY <1>1 DEF UpdateInv, ShapeOf, Ordered
  <2> QED
    BY <1>1, <2>1, TailFacts DEF CreateEvent, Next1
<1>3. f \in q.fields /\ f \in Fields /\ Has(q.todo, "create", f) /\ ~Has(q.todo, "done", f)
  BY <1>1, <1>2, TailFacts DEF UpdateInv, ShapeOf, Has
<1>4. PendingOf(f) = {}
  BY <1>1, <1>3 DEF UpdateInv, Phase
<1>5. PICK e \in Events :
        /\ NewEvent(e, TypeOf(f), TRUE)
        /\ LET set == Assigned(q.set, f, e) IN
           update' = [update EXCEPT ![u].todo = Tail(@),
             ![u].set = IF f = "lockUntil" /\ q.active THEN Assigned(set, "active", FALSE) ELSE set]
  BY DEF CreateEvent
<1> DEFINE set == Assigned(q.set, f, e)
           new == IF f = "lockUntil" /\ q.active THEN Assigned(set, "active", FALSE) ELSE set
<1>6. UNCHANGED <<lesson, change, call, saving, opened, cut>>
  BY DEF CreateEvent, lessonVars, historyVars
<1>7. /\ event' \in [Events -> EventDoc] /\ event[e].state = Absent
      /\ event'[e].type = TypeOf(f) /\ event'[e].state = Open
      /\ \A x \in Events \ {e} : event'[x] = event[x]
  BY <1>3, <1>5, NewEventFacts, TypesOfFields DEF CalmInv, Shapes
<1>8. /\ DOMAIN update' = Updates /\ \A v \in Updates \ {u} : update'[v] = update[v]
      /\ update'[u] = [todo |-> Tail(q.todo), fields |-> q.fields, active |-> q.active, set |-> new]
  <2>1. DOMAIN update = Updates
    BY DEF CalmInv, Shapes
  <2>2. q = [todo |-> q.todo, fields |-> q.fields, active |-> q.active, set |-> q.set]
    BY <1>1 DEF UpdateInv, ShapeOf
  <2> QED
    BY <1>5, <2>1, <2>2
<1> HIDE DEF q, new
<1>9. Shapes'
  BY <1>6, <1>7, <1>8 DEF CalmInv, Shapes, ChainTypes, HeldExist, InHand
<1>10. e \notin Spent /\ e # None /\ Spent' = Spent
  BY <1>6, <1>7, CarriedInHand, SpentKept, SchedulerAssumption DEF CalmInv, Shapes, HeldExist, Spent
<1>11. PendingOf(f)' \subseteq {e} /\ \A g \in Fields \ {f} : PendingOf(g)' \subseteq PendingOf(g)
  BY <1>3, <1>4, <1>7, <1>10, TypesOfFields DEF PendingOf, Pending
<1>12. \A g \in Fields : \A x : Refers(g, x) => Refers(g, x)'
  BY <1>7, <1>10 DEF Refers
<1>13. Refers(f, e)'
  BY <1>7, <1>10 DEF Refers
<1>14. /\ Ordered(Tail(q.todo)) /\ Len(Tail(q.todo)) = Len(q.todo) - 1 /\ Len(q.todo) \in Nat
       /\ \A i \in 1 .. Len(Tail(q.todo)) : Tail(q.todo)[i] = q.todo[i + 1]
       /\ \A step, g : Has(Tail(q.todo), step, g) <=>
            Has(q.todo, step, g) /\ ~("create" = step /\ f = g)
       /\ Tail(q.todo) # <<>>
  <2>1. f = q.todo[1].field /\ q.todo # <<>> /\ Len(q.todo) \in Nat
    BY <1>1, <1>2 DEF q, Ordered
  <2> QED
    BY <1>2, <2>1, TailFacts
<1>15. /\ ShapeOf(q) /\ OldEvents(q) /\ Closes(q) /\ \A g \in q.fields : Phase(q, g)
       /\ f # "active" /\ Fields = {"lockUntil", "lockAfter"}
  BY <1>1, <1>3 DEF UpdateInv, Fields
<1>16. /\ DOMAIN new \subseteq DOMAIN q.set \cup {f, "active"} /\ DOMAIN q.set \subseteq DOMAIN new
       /\ f \in DOMAIN new /\ new[f] = e
       /\ \A x \in DOMAIN q.set \ {f, "active"} : new[x] = q.set[x]
       /\ "active" \in DOMAIN new => new["active"] = FALSE
       /\ f = "lockUntil" /\ q.active => "active" \in DOMAIN new
  <2>1. /\ DOMAIN set = DOMAIN q.set \cup {f} /\ set[f] = e
        /\ \A x \in DOMAIN q.set \ {f} : set[x] = q.set[x]
    BY AssignedFields
  <2>2. "active" \in DOMAIN q.set => q.set["active"] = FALSE
    BY <1>15 DEF Closes
  <2> HIDE DEF set
  <2>3. CASE f = "lockUntil" /\ q.active
    <3>1. new = Assigned(set, "active", FALSE)
      BY <2>3 DEF new
    <3>2. /\ \A x : x \in DOMAIN new <=> x \in DOMAIN set \/ x = "active"
          /\ new["active"] = FALSE
          /\ \A x \in DOMAIN set \ {"active"} : new[x] = set[x]
      BY <3>1 DEF Assigned
    <3> QED
      BY <1>15, <2>1, <3>2
  <2>4. CASE ~(f = "lockUntil" /\ q.active)
    <3>1. new = set
      BY <2>4 DEF new
    <3> QED
      BY <1>15, <2>1, <2>2, <2>4, <3>1
  <2> QED
    BY <2>3, <2>4
<1> HIDE DEF set
<1>17. UpdateInv(update[u])'
  <2>2. /\ update'[u].todo = Tail(q.todo) /\ update'[u].fields = q.fields
        /\ update'[u].active = q.active /\ update'[u].set = new
    BY <1>8
  <2>3. Tail(q.todo) # <<>>
    BY <1>14
  <2>4. \A i \in 1 .. Len(Tail(q.todo)) : i + 1 \in 1 .. Len(q.todo)
    BY <1>14
  <2>5. ShapeOf(update[u])'
    <3>1. DOMAIN new \subseteq q.fields \cup {"active"}
      BY <1>3, <1>15, <1>16 DEF ShapeOf
    <3> QED
      BY <1>8, <1>14, <1>15, <2>2, <2>3, <2>4, <3>1 DEF ShapeOf
  <2>6. OldEvents(update[u])'
    BY <1>6, <1>14, <1>15, <2>2, <2>4 DEF OldEvents
  <2>7. Closes(update[u])'
    <3>1. Closes(q) /\ lesson' = lesson
      BY <1>6, <1>15
    <3>2. f # "lockUntil" => ("lockUntil" \in DOMAIN new => "lockUntil" \in DOMAIN q.set /\ new["lockUntil"] = q.set["lockUntil"])
      BY <1>15, <1>16
    <3> QED
      BY <1>16, <2>2, <3>1, <3>2 DEF Closes
  <2>8. ASSUME NEW g \in q.fields
        PROVE  Phase(update[u], g)'
    <3>1. g \in Fields /\ g # "active" /\ Phase(q, g)
      BY <1>15 DEF ShapeOf
    <3>2. CASE g = f
      <4>1. ~Has(Tail(q.todo), "done", f) /\ ~Has(Tail(q.todo), "create", f)
        BY <1>3, <1>14
      <4> QED
        BY <1>11, <1>13, <1>16, <2>2, <3>2, <4>1 DEF Phase, IsLock
    <3>3. CASE g # f
      <4>1. \A x : IsLock(g, x) => IsLock(g, x)'
        BY <1>11, <1>12, <3>1, <3>3 DEF IsLock
      <4>2. PendingOf(g)' \subseteq PendingOf(g)
        BY <1>11, <3>1, <3>3
      <4>3. \A step : Has(Tail(q.todo), step, g) <=> Has(q.todo, step, g)
        BY <1>14, <3>3
      <4>4. g \in DOMAIN q.set => g \in DOMAIN new /\ new[g] = q.set[g]
        BY <1>16, <3>1, <3>3
      <4> QED
        BY <1>6, <2>2, <3>1, <4>1, <4>2, <4>3, <4>4 DEF Phase
    <3> QED
      BY <3>2, <3>3
  <2> QED
    BY <2>2, <2>5, <2>6, <2>7, <2>8 DEF UpdateInv
<1>18. f \in update[u].fields /\ update'[u].fields = update[u].fields
  BY <1>3, <1>8 DEF q
<1> QED
  BY <1>6, <1>7, <1>8, <1>9, <1>11, <1>12, <1>17, <1>18, FieldStep

(* The lesson is saved: the events that the request chose are its locks.   *)
LEMMA OfSaveUpdate ==
  ASSUME CalmInv, Calm, NEW u \in Updates, SaveUpdate(u)
  PROVE  CalmInv'
<1> PICK q : q = update[u]
  OBVIOUS
<1>1. UpdateInv(update[u]) /\ q.todo # <<>> /\ Head(q.todo).step = "save"
  BY DEF CalmInv, SaveUpdate, Next1
<1>2. Ordered(q.todo) /\ DOMAIN q.set \subseteq q.fields \cup {"active"} /\ q.fields \subseteq Fields
  BY <1>1 DEF UpdateInv, ShapeOf
<1>3. \A f \in q.fields : f \in DOMAIN q.set /\ IsLock(f, q.set[f])
  <2>1. \A f : ~Has(q.todo, "done", f) /\ ~Has(q.todo, "create", f)
    BY <1>1, <1>2, TailFacts
  <2>2. \A f \in q.fields : Phase(update[u], f)
    BY <1>1 DEF UpdateInv
  <2> QED
    BY <2>1, <2>2 DEF Phase
<1>4. /\ "active" \in DOMAIN q.set => q.set["active"] = FALSE
      /\ "lockUntil" \in q.fields =>
           /\ lesson["active"] => q.active
           /\ "lockUntil" \in DOMAIN q.set /\ q.set["lockUntil"] # None /\ q.active =>
                "active" \in DOMAIN q.set
  BY <1>1 DEF UpdateInv, Closes
<1>5. /\ lesson' = Written(q.set, lesson)
      /\ update' = [update EXCEPT ![u] = NoUpdate]
      /\ opened' = (opened /\ lesson'["active"])
      /\ UNCHANGED <<event, saving, call, change, cut>>
  BY DEF SaveUpdate, Calm, schedulerVars, eventVars, historyVars
<1>6. DOMAIN lesson = {"exists", "active", "lockUntil", "lockAfter"}
  BY DEF CalmInv, Shapes
<1>7. /\ DOMAIN lesson' = DOMAIN lesson
      /\ \A g \in DOMAIN lesson : lesson'[g] = IF g \in DOMAIN q.set THEN q.set[g] ELSE lesson[g]
  BY <1>5 DEF Written
<1>8. /\ \A f \in q.fields : lesson'[f] = q.set[f]
      /\ \A f \in Fields \ q.fields : lesson'[f] = lesson[f]
      /\ lesson'["active"] => lesson["active"]
      /\ "active" \in DOMAIN q.set => ~lesson'["active"]
  BY <1>2, <1>3, <1>4, <1>6, <1>7 DEF Fields
<1>9. /\ DOMAIN update' = Updates /\ \A v \in Updates \ {u} : update'[v] = update[v]
      /\ update'[u] = NoUpdate
  BY <1>5 DEF CalmInv, Shapes
<1>10. /\ NoUpdate.fields = {} /\ NoUpdate.todo = <<>> /\ NoUpdate.set = <<>>
       /\ NoUpdate.active = FALSE
  BY DEF NoUpdate
<1>11. Shapes'
  BY <1>5, <1>7, <1>9 DEF CalmInv, Shapes, ChainTypes, HeldExist, InHand
<1>12. /\ \A v \in Updates \ {u} : update[v].fields \cap q.fields = {} /\ update[v].fields \subseteq Fields
       /\ \A v \in Updates \ {u} : UpdateInv(update[v])
  BY DEF CalmInv, UpdatesApart, UpdateInv, ShapeOf
<1>13. \A f : f \in Updated' <=> f \in Updated /\ f \notin q.fields
  <2>1. \A f : f \in Updated' <=> \E v \in Updates : f \in update'[v].fields
    BY DEF Updated
  <2> QED
    BY <1>9, <1>10, <1>12, <2>1, UpdatedFields
<1>14. /\ \A f \in Fields : PendingOf(f)' = PendingOf(f)
       /\ \A f \in Fields : \A e : Refers(f, e) = Refers(f, e)'
       /\ Pending(Unlock)' = Pending(Unlock)
  BY <1>5, SpentKept DEF PendingOf, Pending, Refers
<1>15. UpdatesApart' /\ HandsApart'
  BY <1>5, <1>9, <1>10 DEF UpdatesApart, HandsApart, InHand, CalmInv
<1>16. ASSUME NEW v \in Updates
       PROVE  UpdateInv(update[v])'
  <2>1. CASE v = u
    <3>1. ShapeOf(NoUpdate)
      BY DEF ShapeOf, Ordered, NoUpdate
    <3>2. ShapeOf(update[u])' /\ OldEvents(update[u])' /\ Closes(update[u])'
      BY <1>9, <1>10, <3>1 DEF OldEvents, Closes
    <3> QED
      BY <1>9, <1>10, <2>1, <3>2 DEF UpdateInv
  <2>2. CASE v # u
    <3>1. UpdateInv(update[v]) /\ update'[v] = update[v]
          /\ \A f \in update[v].fields : f \in Fields /\ f \notin q.fields
      BY <1>9, <1>12, <2>2
    <3> QED
      BY <1>8, <1>14, <3>1, UpdateKept
  <2> QED
    BY <2>1, <2>2
<1>17. ASSUME NEW f \in Fields \ Updated'
       PROVE  IsLock(f, lesson[f])'
  <2>1. \A x : IsLock(f, x) = IsLock(f, x)'
    BY <1>14 DEF IsLock
  <2>2. CASE f \in q.fields
    BY <1>3, <1>8, <2>1, <2>2
  <2>3. CASE f \notin q.fields
    BY <1>8, <1>13, <2>1, <2>3 DEF CalmInv
  <2> QED
    BY <2>2, <2>3
<1>18. ASSUME NEW f \in Fields
       PROVE  Striking(f)'
  <2> SUFFICES ASSUME NEW c \in Calls, NEW e \in InHand(c), e # None, event[e].type = TypeOf(f)
               PROVE  f \notin Updated' /\ lesson'[f] = IF Carried(c, e) THEN None ELSE e
    BY <1>5 DEF Striking, Carried, InHand
  <2>1. f \notin Updated /\ lesson[f] = IF Carried(c, e) THEN None ELSE e
    BY DEF CalmInv, Striking
  <2>2. f \notin q.fields
    BY <2>1, UpdatedFields
  <2> QED
    BY <1>8, <1>13, <2>1, <2>2
<1>19. ASSUME NEW f \in Fields, NEW c \in Calls
       PROVE  Strikes(c, f)'
  BY <1>5 DEF CalmInv, Strikes
<1>20. Shut'
  <2> SUFFICES ASSUME ~opened', "lockUntil" \notin Updated', lesson'["lockUntil"] \in Pending(Unlock),
                      lesson'["active"]
               PROVE  FALSE
    BY <1>14 DEF Shut
  <2>1. ~opened /\ lesson["active"]
    BY <1>5, <1>8
  <2>2. CASE "lockUntil" \in q.fields
    <3>1. q.set["lockUntil"] # None
      BY <1>8, <2>2, SchedulerAssumption DEF Pending
    <3> QED
      BY <1>3, <1>4, <1>8, <2>1, <2>2, <3>1
  <2>3. CASE "lockUntil" \notin q.fields
    <3>1. lesson'["lockUntil"] = lesson["lockUntil"] /\ "lockUntil" \notin Updated
      BY <1>8, <1>13, <2>3 DEF Fields
    <3> QED
      BY <2>1, <3>1 DEF CalmInv, Shut
  <2> QED
    BY <2>2, <2>3
<1> QED
  BY <1>11, <1>15, <1>16, <1>17, <1>18, <1>19, <1>20 DEF CalmInv
------------------------------------------------------------------------------
(* The steps for one field.                                                *)
Block(s, f) ==
  /\ s \in Seq(Steps)
  /\ \A i \in 1 .. Len(s) : s[i].field = f /\ s[i].step \in {"done", "create"}
  /\ \A i, j \in 1 .. Len(s) : i < j => s[i].step = "done" /\ s[j].step = "create"

(* The steps t are those of the blocks a and b, and then the save.         *)
Joins(a, b, t) ==
  /\ Ordered(t) /\ t # <<>>
  /\ \A step \in {"done", "create"} :
       /\ Has(t, step, "lockUntil") <=> Has(a, step, "lockUntil")
       /\ Has(t, step, "lockAfter") <=> Has(b, step, "lockAfter")
  /\ \A i \in 1 .. Len(t) : t[i].step # "save" =>
       (\E k \in 1 .. Len(a) : t[i] = a[k]) \/ (\E k \in 1 .. Len(b) : t[i] = b[k])

LEMMA Joined ==
  ASSUME NEW a, NEW b, Block(a, "lockUntil"), Block(b, "lockAfter")
  PROVE  Joins(a, b, a \o b \o <<Save>>)
<1> PICK t : t = a \o b \o <<Save>>
  OBVIOUS
<1> DEFINE m == Len(a)
           n == Len(b)
<1>1. a \in Seq(Steps) /\ b \in Seq(Steps) /\ m \in Nat /\ n \in Nat
  BY DEF Block
<1>2. Save \in Steps /\ Save.step = "save" /\ Save.field = "lockUntil"
  BY DEF Save, Steps, Fields
<1>3. /\ t \in Seq(Steps) /\ Len(t) = m + n + 1
      /\ \A i \in 1 .. m : t[i] = a[i]
      /\ \A i \in m + 1 .. m + n : t[i] = b[i - m]
      /\ t[m + n + 1] = Save
  BY <1>1, <1>2
<1> HIDE DEF m, n
<1>4. \A i \in 1 .. Len(t) : i \in 1 .. m \/ i \in m + 1 .. m + n \/ i = m + n + 1
  BY <1>1, <1>3
<1>5. \A i \in 1 .. m : i \in 1 .. Len(t) /\ t[i] = a[i] /\ t[i].field = "lockUntil" /\ t[i].step \in {"done", "create"}
  BY <1>1, <1>3 DEF Block, m
<1>6. \A i \in m + 1 .. m + n : i - m \in 1 .. n /\ i \in 1 .. Len(t) /\ t[i] = b[i - m] /\ t[i].field = "lockAfter" /\ t[i].step \in {"done", "create"}
  BY <1>1, <1>3 DEF Block, n
<1>7. Ordered(t)
  <2>1. t # <<>> => t[Len(t)].step = "save"
    BY <1>2, <1>3
  <2>2. ASSUME NEW i \in 1 .. Len(t), NEW j \in 1 .. Len(t), t[i].field = t[j].field
        PROVE  /\ i < j => t[i].step = "done" \/ t[j].step = "save"
               /\ i # j => t[i].step # t[j].step
    <3>1. CASE i \in 1 .. m /\ j \in 1 .. m
      BY <1>1, <1>5, <3>1 DEF Block, m
    <3>2. CASE i \in m + 1 .. m + n /\ j \in m + 1 .. m + n
      <4>1. /\ i - m \in 1 .. n /\ j - m \in 1 .. n /\ t[i] = b[i - m] /\ t[j] = b[j - m]
            /\ (i < j => i - m < j - m) /\ (i # j => i - m < j - m \/ j - m < i - m)
        <5>1. i \in Int /\ j \in Int
          BY <1>1, <3>2
        <5>2. (i < j => i - m < j - m) /\ (i # j => i - m < j - m \/ j - m < i - m)
          BY <1>1, <5>1
        <5> QED
          BY <1>6, <3>2, <5>2
      <4>2. \A x, y \in 1 .. n : x < y => b[x].step = "done" /\ b[y].step = "create"
        BY DEF Block, n
      <4> QED
        BY <4>1, <4>2
    <3>3. CASE i = m + n + 1 \/ j = m + n + 1
      <4>1. \A x \in 1 .. Len(t) : x = m + n + 1 \/ (x < m + n + 1 /\ t[x].step \in {"done", "create"})
        BY <1>1, <1>4, <1>5, <1>6
      <4>2. t[m + n + 1].step = "save"
        BY <1>2, <1>3
      <4>3. i \in Int /\ j \in Int
        BY <1>1, <1>3
      <4>4. CASE i = m + n + 1
        <5>1. ~(i < j)
          BY <1>1, <4>1, <4>3, <4>4
        <5> QED
          BY <4>1, <4>2, <4>4, <5>1
      <4>5. CASE j = m + n + 1
        BY <4>1, <4>2, <4>5
      <4> QED
        BY <3>3, <4>4, <4>5
    <3> QED
      BY <1>4, <1>5, <1>6, <2>2, <3>1, <3>2, <3>3
  <2>3. \A i \in 1 .. Len(t) : t[i].step = "save" => i = Len(t)
    BY <1>3, <1>4, <1>5, <1>6
  <2> QED
    BY <1>3, <2>1, <2>2, <2>3 DEF Ordered
<1>8. ASSUME NEW step \in {"done", "create"}
      PROVE  /\ Has(t, step, "lockUntil") <=> Has(a, step, "lockUntil")
             /\ Has(t, step, "lockAfter") <=> Has(b, step, "lockAfter")
  <2>1. ASSUME Has(t, step, "lockUntil")
        PROVE  Has(a, step, "lockUntil")
    <3>1. PICK i \in 1 .. Len(t) : t[i].step = step /\ t[i].field = "lockUntil"
      BY <2>1 DEF Has
    <3>2. t[m + n + 1].step # step
      BY <1>2, <1>3, <1>8
    <3>3. i \in 1 .. m
      BY <1>4, <1>6, <3>1, <3>2
    <3> QED
      BY <1>5, <3>1, <3>3 DEF Has, m
  <2>2. ASSUME Has(a, step, "lockUntil")
        PROVE  Has(t, step, "lockUntil")
    BY <1>5, <2>2 DEF Has, m
  <2>3. ASSUME Has(t, step, "lockAfter")
        PROVE  Has(b, step, "lockAfter")
    <3>1. PICK i \in 1 .. Len(t) : t[i].step = step /\ t[i].field = "lockAfter"
      BY <2>3 DEF Has
    <3>2. i \in m + 1 .. m + n
      BY <1>2, <1>3, <1>4, <1>5, <3>1
    <3>3. i - m \in 1 .. n /\ b[i - m].step = step /\ b[i - m].field = "lockAfter"
      BY <1>6, <3>1, <3>2
    <3> QED
      BY <3>3 DEF Has, n
  <2>4. ASSUME Has(b, step, "lockAfter")
        PROVE  Has(t, step, "lockAfter")
    <3>1. PICK i \in 1 .. n : b[i].step = step /\ b[i].field = "lockAfter"
      BY <2>4 DEF Has, n
    <3>2. i + m \in m + 1 .. m + n /\ (i + m) - m = i
      BY <1>1
    <3>3. i + m \in 1 .. Len(t) /\ t[i + m] = b[i]
      BY <1>6, <3>2
    <3> QED
      BY <3>1, <3>3 DEF Has
  <2> QED
    BY <2>1, <2>2, <2>3, <2>4
<1>9. \A i \in 1 .. Len(t) : t[i].step # "save" =>
        (\E k \in 1 .. m : t[i] = a[k]) \/ (\E k \in 1 .. n : t[i] = b[k])
  BY <1>2, <1>3, <1>4, <1>5, <1>6
<1>10. t # <<>>
  BY <1>1, <1>3, EmptySeq
<1> QED
  BY <1>7, <1>8, <1>9, <1>10 DEF m, n, Joins

(* What a request asks of a field, and the steps that it takes.            *)
LEMMA TodoFacts ==
  ASSUME CalmInv, NEW f \in Fields, NEW wish \in {"none", "same", "other"},
         Todo(f, wish) = <<>> \/ f \notin Updated
  PROVE  /\ Block(Todo(f, wish), f)
         /\ \A i \in 1 .. Len(Todo(f, wish)) :
              Todo(f, wish)[i].step = "done" => Todo(f, wish)[i].event = lesson[f]
         /\ Has(Todo(f, wish), "done", f) <=> Todo(f, wish) # <<>> /\ Populated(f) # None
         /\ Has(Todo(f, wish), "create", f) <=> Todo(f, wish) # <<>> /\ wish # "none"
         /\ Todo(f, wish) # <<>> => Populated(f) # None \/ wish # "none"
<1> PICK old, t : old = Populated(f) /\ t = Todo(f, wish)
  OBVIOUS
<1> PICK d, k : d = MarkDone(f, old) /\ k = Create(f)
  OBVIOUS
<1>1. old # None => old = lesson[f]
  BY DEF Populated
<1>2. d.field = f /\ d.step = "done" /\ d.event = old
      /\ k.field = f /\ k.step = "create"
  BY DEF MarkDone, Create
<1>3. \/ old = None /\ wish = "none" /\ t = <<>>
      \/ old # None /\ wish = "same" /\ t = <<>>
      \/ old # None /\ wish = "none" /\ t = <<d>>
      \/ old = None /\ wish # "none" /\ t = <<k>>
      \/ old # None /\ wish # "none" /\ t = <<d>> \o <<k>>
  <2> DEFINE cancel == IF old = None THEN <<>> ELSE <<d>>
  <2>1. t = CASE wish = "none" -> cancel
              [] wish = "same" /\ old # None -> <<>>
              [] OTHER -> cancel \o <<k>>
    BY DEF Todo
  <2>2. (old = None => cancel = <<>>) /\ (old # None => cancel = <<d>>)
    OBVIOUS
  <2>6. <<>> \o <<k>> = <<k>>
    OBVIOUS
  <2> HIDE DEF cancel
  <2>3. CASE wish = "none"
    BY <2>1, <2>2, <2>3
  <2>4. CASE wish = "same" /\ old # None
    BY <2>1, <2>4
  <2>5. CASE wish # "none" /\ ~(wish = "same" /\ old # None)
    <3>1. t = cancel \o <<k>>
      BY <2>1, <2>5
    <3> QED
      BY <2>2, <2>5, <2>6, <3>1
  <2> QED
    BY <2>3, <2>4, <2>5
<1>4. k \in Steps
  BY DEF Create, Steps
<1>5. ASSUME t # <<>>, old # None
      PROVE  d \in Steps
  <2>1. old \in Events
    BY <1>1, <1>5 DEF CalmInv, IsLock, Refers
  <2> QED
    BY <2>1 DEF MarkDone, Steps
<1> HIDE DEF Steps
<1>6. CASE t = <<>>
  <2>1. Len(t) = 0
    BY <1>6, EmptySeq
  <2> QED
    BY <1>3, <1>6, <2>1 DEF Block, Has
<1>7. CASE old # None /\ wish = "none" /\ t = <<d>>
  <2>1. d \in Steps /\ t # <<>>
    BY <1>5, <1>7
  <2>2. /\ t \in Seq(Steps) /\ Len(t) = 1 /\ t[1] = d
        /\ 1 \in 1 .. Len(t) /\ \A i \in 1 .. Len(t) : i = 1
    <3>1. t = <<d>>
      BY <1>7
    <3> QED
      BY <2>1, <3>1
  <2> QED
    BY <1>1, <1>2, <1>7, <2>1, <2>2 DEF Block, Has
<1>8. CASE old = None /\ wish # "none" /\ t = <<k>>
  <2>1. /\ t \in Seq(Steps) /\ Len(t) = 1 /\ t[1] = k /\ t # <<>>
        /\ 1 \in 1 .. Len(t) /\ \A i \in 1 .. Len(t) : i = 1
    BY <1>4, <1>8
  <2> QED
    BY <1>2, <1>8, <2>1 DEF Block, Has
<1>9. CASE old # None /\ wish # "none" /\ t = <<d>> \o <<k>>
  <2>1. d \in Steps /\ t # <<>>
    BY <1>5, <1>9
  <2>2. /\ t \in Seq(Steps) /\ Len(t) = 2 /\ t[1] = d /\ t[2] = k
        /\ \A i \in 1 .. Len(t) : i = 1 \/ i = 2
        /\ 1 \in 1 .. Len(t) /\ 2 \in 1 .. Len(t)
    BY <1>4, <1>9, <2>1
  <2>3. Block(t, f)
    <3>1. \A i, j \in 1 .. Len(t) : i < j => i = 1 /\ j = 2
      BY <2>2
    <3> QED
      BY <1>2, <2>2, <3>1 DEF Block
  <2> QED
    BY <1>1, <1>2, <1>9, <2>1, <2>2, <2>3 DEF Has
<1> QED
  BY <1>3, <1>6, <1>7, <1>8, <1>9

(* update_lesson reads the lesson: it takes on no lock that another works  *)
(* on, and knows for each of its own which event is to be the lock.        *)
LEMMA OfFindForUpdate ==
  ASSUME CalmInv, NEW u \in Updates, FindForUpdate(u), ~raced'
  PROVE  CalmInv'
<1>1. PICK wish \in [Fields -> {"none", "same", "other"}] :
        LET ch == {f \in Fields : Todo(f, wish[f]) # <<>>}
            cl == {f \in ch : wish[f] = "none"}
        IN /\ update' = [update EXCEPT ![u] =
                [todo |-> Todo("lockUntil", wish["lockUntil"])
                            \o Todo("lockAfter", wish["lockAfter"]) \o <<Save>>,
                 fields |-> ch,
                 active |-> lesson.active,
                 set |-> Changed(lesson, [f \in DOMAIN lesson |->
                           IF f \in cl THEN None ELSE lesson[f]])]]
           /\ raced' = (ch \cap (Updated \cup Triggered) # {})
  BY DEF FindForUpdate
<1>2. PICK changed, cleared, doc, set, a, b, t :
        /\ changed = {f \in Fields : Todo(f, wish[f]) # <<>>}
        /\ cleared = {f \in changed : wish[f] = "none"}
        /\ doc = [f \in DOMAIN lesson |-> IF f \in cleared THEN None ELSE lesson[f]]
        /\ set = Changed(lesson, doc)
        /\ a = Todo("lockUntil", wish["lockUntil"])
        /\ b = Todo("lockAfter", wish["lockAfter"])
        /\ t = a \o b \o <<Save>>
  OBVIOUS
<1>3. /\ update' = [update EXCEPT ![u] =
             [todo |-> t, fields |-> changed, active |-> lesson.active, set |-> set]]
      /\ changed \cap (Updated \cup Triggered) = {}
  BY <1>1, <1>2
<1>4. UNCHANGED <<event, saving, call, lesson, change, opened, cut>> /\ update[u].todo = <<>>
  BY DEF FindForUpdate, schedulerVars, eventVars, historyVars, lessonVars
<1>5. /\ DOMAIN update' = Updates /\ \A v \in Updates \ {u} : update'[v] = update[v]
      /\ update'[u] = [todo |-> t, fields |-> changed, active |-> lesson.active, set |-> set]
  BY <1>3 DEF CalmInv, Shapes
<1>6. /\ update'[u].todo = t /\ update'[u].fields = changed
      /\ update'[u].active = lesson.active /\ update'[u].set = set
  BY <1>5
<1>7. update[u].fields = {}
  BY <1>4 DEF CalmInv, UpdateInv, ShapeOf
<1>8. changed \subseteq Fields /\ \A f \in Fields : f \in changed <=> Todo(f, wish[f]) # <<>>
  BY <1>2
<1>9. Fields = {"lockUntil", "lockAfter"}
  BY DEF Fields
<1>10. ASSUME NEW f \in Fields
       PROVE  /\ Block(Todo(f, wish[f]), f)
              /\ \A i \in 1 .. Len(Todo(f, wish[f])) :
                   Todo(f, wish[f])[i].step = "done" => Todo(f, wish[f])[i].event = lesson[f]
              /\ Has(Todo(f, wish[f]), "done", f) <=> f \in changed /\ Populated(f) # None
              /\ Has(Todo(f, wish[f]), "create", f) <=> f \in changed /\ wish[f] # "none"
              /\ f \in changed => Populated(f) # None \/ wish[f] # "none"
  <2>1. wish[f] \in {"none", "same", "other"} /\ (Todo(f, wish[f]) = <<>> \/ f \notin Updated)
    BY <1>3, <1>8
  <2> HIDE DEF Block, Has, Todo, Populated
  <2> QED
    BY <1>8, <2>1, TodoFacts
<1>11. /\ Block(a, "lockUntil") /\ Block(b, "lockAfter")
       /\ \A k \in 1 .. Len(a) : a[k].step = "done" => a[k].event = lesson["lockUntil"]
       /\ \A k \in 1 .. Len(b) : b[k].step = "done" => b[k].event = lesson["lockAfter"]
       /\ \A k \in 1 .. Len(a) : a[k].field = "lockUntil" /\ "lockUntil" \in changed
       /\ \A k \in 1 .. Len(b) : b[k].field = "lockAfter" /\ "lockAfter" \in changed
  <2>1. /\ Block(a, "lockUntil") /\ Block(b, "lockAfter")
        /\ \A k \in 1 .. Len(a) : a[k].step = "done" => a[k].event = lesson["lockUntil"]
        /\ \A k \in 1 .. Len(b) : b[k].step = "done" => b[k].event = lesson["lockAfter"]
    BY <1>2, <1>9, <1>10
  <2>2. ("lockUntil" \notin changed => a = <<>>) /\ ("lockAfter" \notin changed => b = <<>>)
    BY <1>2, <1>8, <1>9
  <2>3. (a = <<>> => Len(a) = 0) /\ (b = <<>> => Len(b) = 0)
    BY EmptySeq
  <2> QED
    BY <2>1, <2>2, <2>3 DEF Block
<1>12. Joins(a, b, t)
  <2>1. Joins(a, b, a \o b \o <<Save>>)
    BY <1>11, Joined
  <2> QED
    BY <1>2, <2>1
<1>13. ASSUME NEW f \in changed
       PROVE  /\ Has(t, "done", f) <=> Populated(f) # None
              /\ Has(t, "create", f) <=> wish[f] # "none"
              /\ Populated(f) # None \/ wish[f] # "none"
              /\ IsLock(f, lesson[f])
  <2>1. f \in Fields /\ f \notin Updated
    BY <1>3, <1>8
  <2>2. \A step \in {"done", "create"} : Has(t, step, f) <=> Has(Todo(f, wish[f]), step, f)
    BY <1>2, <1>9, <1>12, <2>1 DEF Joins
  <2>3. IsLock(f, lesson[f])
    BY <2>1 DEF CalmInv
  <2> QED
    BY <1>10, <2>1, <2>2, <2>3
<1>14. /\ \A g : g \in DOMAIN set <=> g \in DOMAIN lesson /\ g \in cleared /\ lesson[g] # None
       /\ \A g \in DOMAIN set : set[g] = None
  <2>1. /\ \A g : g \in DOMAIN set <=> g \in DOMAIN lesson /\ doc[g] # lesson[g]
        /\ \A g \in DOMAIN set : set[g] = doc[g]
    BY <1>2, ChangedFields
  <2>2. \A g \in DOMAIN lesson : doc[g] = IF g \in cleared THEN None ELSE lesson[g]
    BY <1>2
  <2> QED
    BY <2>1, <2>2
<1>15. cleared \subseteq changed /\ \A f \in changed : f \in cleared <=> wish[f] = "none"
  BY <1>2
<1>16. /\ \A f \in Fields : PendingOf(f)' = PendingOf(f)
       /\ \A f \in Fields : \A e : Refers(f, e) = Refers(f, e)'
       /\ \A f \in Fields : \A e : IsLock(f, e) = IsLock(f, e)'
       /\ Pending(Unlock)' = Pending(Unlock)
  BY <1>4, SpentKept DEF PendingOf, Pending, Refers, IsLock
<1>17. UpdateInv(update[u])'
  <2>1. ShapeOf(update[u])'
    <3>1. \A i \in 1 .. Len(t) : t[i].step # "save" => t[i].field \in changed
      <4>1. \A k \in 1 .. Len(a) : a[k].field \in changed
        BY <1>11
      <4>2. \A k \in 1 .. Len(b) : b[k].field \in changed
        BY <1>11
      <4> QED
        BY <1>12, <4>1, <4>2 DEF Joins
    <3>2. DOMAIN set \subseteq changed \cup {"active"}
      BY <1>14, <1>15
    <3> QED
      BY <1>5, <1>6, <1>8, <1>12, <3>1, <3>2 DEF ShapeOf, Joins
  <2>2. OldEvents(update[u])'
    <3>1. \A i \in 1 .. Len(t) : t[i].step = "done" => t[i].event = lesson[t[i].field]
      BY <1>11, <1>12 DEF Joins
    <3> QED
      BY <1>4, <1>6, <3>1 DEF OldEvents
  <2>3. Closes(update[u])'
    <3>1. "active" \notin DOMAIN set
      BY <1>8, <1>9, <1>14, <1>15
    <3> QED
      BY <1>4, <1>6, <1>14, <3>1 DEF Closes
  <2>4. ASSUME NEW f \in changed
        PROVE  Phase(update[u], f)'
    <3>1. f \in Fields /\ f \in DOMAIN lesson
      BY <1>8, <1>9 DEF CalmInv, Shapes
    <3>2. Populated(f) # None => lesson[f] # None
      BY DEF Populated
    <3>3. ~Has(t, "create", f) => f \in cleared
      BY <1>13, <1>15
    <3>4. ASSUME Populated(f) = None
          PROVE  PendingOf(f) = {}
      <4>1. PendingOf(f) \subseteq {lesson[f]} /\ PendingOf(f) \subseteq Events
        BY <1>13 DEF IsLock, PendingOf, Pending
      <4>2. lesson[f] \notin PendingOf(f)
        BY <3>4, SchedulerAssumption DEF Populated, PendingOf, Pending
      <4> QED
        BY <4>1, <4>2
    <3>5. CASE Has(t, "done", f)
      <4>1. lesson[f] # None /\ IsLock(f, lesson[f])'
        BY <1>4, <1>13, <1>16, <3>1, <3>2, <3>5
      <4>2. ~Has(t, "create", f) => f \in DOMAIN set /\ set[f] = None
        BY <1>14, <3>1, <3>3, <4>1
      <4> QED
        BY <1>4, <1>6, <3>5, <4>1, <4>2 DEF Phase
    <3>6. CASE ~Has(t, "done", f)
      <4>1. Has(t, "create", f) /\ PendingOf(f)' = {}
        BY <1>13, <1>16, <3>1, <3>4, <3>6
      <4> QED
        BY <1>6, <3>6, <4>1 DEF Phase
    <3> QED
      BY <3>5, <3>6
  <2> QED
    BY <1>6, <2>1, <2>2, <2>3, <2>4 DEF UpdateInv
<1>18. \A f : f \in Updated' <=> f \in Updated \/ f \in changed
  <2>1. \A f : f \in Updated' <=> \E v \in Updates : f \in update'[v].fields
    BY DEF Updated
  <2> QED
    BY <1>5, <1>6, <1>7, <2>1, UpdatedFields
<1>19. UpdatesApart'
  <2>1. \A v \in Updates : update[v].fields \cap changed = {}
    BY <1>3, UpdatedFields
  <2> QED
    BY <1>5, <1>6, <2>1 DEF UpdatesApart, CalmInv
<1>20. Shapes' /\ HandsApart'
  BY <1>4, <1>5 DEF CalmInv, Shapes, ChainTypes, HeldExist, HandsApart, InHand
<1>21. ASSUME NEW v \in Updates
       PROVE  UpdateInv(update[v])'
  <2>1. CASE v = u
    BY <1>17, <2>1
  <2>2. CASE v # u
    <3>1. UpdateInv(update[v]) /\ update'[v] = update[v] /\ update[v].fields \subseteq Fields
      BY <1>5, <2>2 DEF CalmInv, UpdateInv, ShapeOf
    <3> QED
      BY <1>4, <1>16, <3>1, UpdateKept
  <2> QED
    BY <2>1, <2>2
<1>22. \A f \in Fields \ Updated' : IsLock(f, lesson[f])'
  BY <1>4, <1>16, <1>18 DEF CalmInv
<1>23. ASSUME NEW f \in Fields
       PROVE  Striking(f)'
  <2> SUFFICES ASSUME NEW c \in Calls, NEW e \in InHand(c), e # None, event[e].type = TypeOf(f)
               PROVE  f \notin Updated' /\ lesson[f] = IF Carried(c, e) THEN None ELSE e
    BY <1>4 DEF Striking, Carried, InHand
  <2>1. f \notin Updated /\ lesson[f] = IF Carried(c, e) THEN None ELSE e
    BY DEF CalmInv, Striking
  <2>2. f \in Triggered
    BY DEF Triggered
  <2> QED
    BY <1>3, <1>18, <2>1, <2>2
<1>24. ASSUME NEW f \in Fields, NEW c \in Calls
       PROVE  Strikes(c, f)'
  BY <1>4 DEF CalmInv, Strikes
<1>25. Shut'
  BY <1>4, <1>16, <1>18 DEF CalmInv, Shut
<1> QED
  BY <1>19, <1>20, <1>21, <1>22, <1>23, <1>24, <1>25 DEF CalmInv
------------------------------------------------------------------------------
LEMMA LocksBegin == LocksInit => LocksInv
<1> SUFFICES ASSUME LocksInit PROVE CalmInv
  BY DEF LocksInv
<1>1. /\ lesson = NewLesson /\ change = [c \in Calls |-> <<>>]
      /\ update = [u \in Updates |-> NoUpdate] /\ opened = FALSE
  BY DEF LocksInit
<1>2. /\ event = [e \in Events |-> NoEvent] /\ saving = {} /\ call = [c \in Calls |-> NoCall]
  BY DEF LocksInit, SchedulerInit
<1>3. Shapes
  <2>1. ChainTypes /\ HeldExist
    BY <1>2, ChainInit DEF LocksInit, ChainInv
  <2> QED
    BY <1>1, <2>1 DEF Shapes, NewLesson
<1>4. /\ NoUpdate.fields = {} /\ NoUpdate.todo = <<>> /\ NoUpdate.set = <<>>
      /\ NoUpdate.active = FALSE
  BY DEF NoUpdate
<1>5. ASSUME NEW u \in Updates
      PROVE  UpdateInv(update[u])
  <2>1. ShapeOf(NoUpdate)
    BY DEF ShapeOf, Ordered, NoUpdate
  <2> QED
    BY <1>1, <1>4, <2>1 DEF UpdateInv, OldEvents, Closes
<1>6. UpdatesApart
  BY <1>1, <1>4 DEF UpdatesApart
<1>7. \A t : Pending(t) = {}
  BY <1>2 DEF Pending, NoEvent
<1>8. \A c \in Calls : InHand(c) = {None} /\ call[c].event = None
  BY <1>2 DEF InHand, NoCall
<1>9. \A f \in Fields : IsLock(f, lesson[f])
  BY <1>1, <1>7 DEF Fields, IsLock, Refers, PendingOf, NewLesson
<1>10. HandsApart
  BY <1>8, SchedulerAssumption DEF HandsApart
<1>11. \A f \in Fields : Striking(f) /\ \A c \in Calls : Strikes(c, f)
  BY <1>8 DEF Striking, Strikes
<1>12. Shut
  BY <1>7 DEF Shut
<1> QED
  BY <1>3, <1>5, <1>6, <1>9, <1>10, <1>11, <1>12 DEF CalmInv

LEMMA LocksStep == LocksInv /\ [LocksNext]_locksVars => LocksInv'
<1> SUFFICES ASSUME LocksInv, [LocksNext]_locksVars, Calm' PROVE CalmInv'
  BY DEF LocksInv
<1>1. CASE UNCHANGED locksVars
  <2>1. UNCHANGED <<event, saving, call, lesson, change, update, raced, opened, cut>>
    BY <1>1 DEF locksVars, schedulerVars, eventVars, historyVars, lessonVars
  <2>2. CalmInv
    BY <2>1 DEF LocksInv, Calm
  <2>3. Shapes'
    BY <2>1, <2>2 DEF CalmInv, Shapes, ChainTypes, HeldExist, InHand
  <2>4. /\ \A f \in Fields : PendingOf(f)' \subseteq PendingOf(f)
        /\ \A f \in Fields : \A e : Refers(f, e) => Refers(f, e)'
    BY <2>1, SpentKept DEF PendingOf, Pending, Refers
  <2> QED
    BY <2>1, <2>2, <2>3, <2>4, EventsKept
<1>2. CASE LocksNext
  <2>1. ~raced /\ ~raced' /\ lesson'.exists
    BY <1>2 DEF LocksNext, Calm
  (* A deleted lesson does not come back. *)
  <2>2. ASSUME ~lesson.exists
        PROVE  FALSE
    <3>1. UNCHANGED lesson => FALSE
      BY <2>1, <2>2
    <3> QED
      BY <1>2, <2>2, <3>1
         DEF LocksNext, FindForUpdate, MarkEventDone, CreateEvent, SaveUpdate, UpdateFails, SetActive,
             DeleteLesson, LocksCall, SaveLesson, LocksFinish, LocksCallFails, FindLesson, LocksDeleteEvent,
             LocksSaveDone, LocksSaveDoneFails, LocksCrash, lessonVars
  <2>3. Calm /\ CalmInv
    BY <2>1, <2>2 DEF Calm, LocksInv
  <2>4. CASE \E u \in Updates :
               FindForUpdate(u) \/ MarkEventDone(u) \/ CreateEvent(u) \/ SaveUpdate(u) \/ UpdateFails(u)
    <3> PICK u \in Updates :
          FindForUpdate(u) \/ MarkEventDone(u) \/ CreateEvent(u) \/ SaveUpdate(u) \/ UpdateFails(u)
      BY <2>4
    <3>1. ~UpdateFails(u)
      BY <2>1 DEF UpdateFails, Abandon
    <3> QED
      BY <2>1, <2>3, <3>1, OfFindForUpdate, OfMarkEventDone, OfCreateEvent, OfSaveUpdate
  <2>5. CASE \E active \in BOOLEAN : SetActive(active)
    BY <2>1, <2>3, <2>5, OfSetActive
  <2>6. CASE DeleteLesson
    <3>1. lesson'.exists = FALSE
      BY <2>3, <2>6 DEF DeleteLesson, CalmInv, Shapes
    <3> QED
      BY <2>1, <3>1
  <2>7. CASE \E c \in Calls : LocksCall(c) \/ SaveLesson(c) \/ LocksFinish(c) \/ LocksCallFails(c)
    BY <2>1, <2>3, <2>7, OfLocksCall, OfSaveLesson, OfLocksFinish, OfCallFails
  <2>8. CASE \E c \in Calls, e \in Events : FindLesson(c, e)
    BY <2>3, <2>8, OfFindLesson
  <2>9. CASE \E e \in Events : LocksDeleteEvent(e) \/ LocksSaveDone(e) \/ LocksSaveDoneFails(e)
    <3>1. \A e \in Events : ~LocksSaveDoneFails(e)
      BY <2>1 DEF LocksSaveDoneFails
    <3> QED
      BY <2>3, <2>9, <3>1, OfDeleteEvent, OfSaveDone
  <2>10. CASE LocksCrash
    BY <2>1, <2>3, <2>10, OfCrash
  <2> QED
    BY <1>2, <2>4, <2>5, <2>6, <2>7, <2>8, <2>9, <2>10 DEF LocksNext
<1> QED
  BY <1>1, <1>2

(* While no request is at work and none has raced, the open lock and       *)
(* unlock events are those the lesson refers to (update_lesson,            *)
(* lib/lessons.js, with triggerEvent of lib/scheduler.js).                 *)
THEOREM LocksPending == LocksSpec => []LocksArePending
<1>1. LocksInv => LocksArePending
  <2> SUFFICES ASSUME CalmInv, ~Updating, NEW field \in Fields
               PROVE  /\ Pending(TypeOf(field)) \ Spent \subseteq {lesson[field]}
                      /\ lesson[field] # None => event[lesson[field]].state # Done
    BY DEF LocksInv, Calm, LocksArePending
  <2>1. \A u \in Updates : update[u].fields = {}
    BY DEF Updating, CalmInv, UpdateInv, ShapeOf
  <2>2. IsLock(field, lesson[field])
    BY <2>1, UpdatedFields DEF CalmInv
  <2> QED
    BY <2>2 DEF IsLock, Refers, PendingOf
<1> QED
  BY <1>1, LocksBegin, LocksStep, PTL DEF LocksSpec

(* A lesson with an open "lock until" is inactive unless an instructor has *)
(* activated it (update_lesson and triggerEvent, as above).                *)
THEOREM LockedInactive == LocksSpec => []LockedIsInactive
<1>1. LocksInv => LockedIsInactive
  <2> SUFFICES ASSUME CalmInv, ~Updating, ~opened, lesson.lockUntil \in Pending(Unlock)
               PROVE  ~lesson.active
    BY DEF LocksInv, Calm, LockedIsInactive
  <2>1. \A u \in Updates : update[u].fields = {}
    BY DEF Updating, CalmInv, UpdateInv, ShapeOf
  <2> QED
    BY <2>1, UpdatedFields DEF CalmInv, Shut
<1> QED
  BY <1>1, LocksBegin, LocksStep, PTL DEF LocksSpec
==============================================================================
