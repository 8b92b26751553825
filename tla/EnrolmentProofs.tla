--------------------------- MODULE EnrolmentProofs ---------------------------
(***************************************************************************)
(* Who is enrolled is a member, and who is a member is enrolled, for any   *)
(* number of users, cohorts and requests.  The first invariant says,       *)
(* beyond that, how far each request is, what it knows of its cohort, and  *)
(* who is about to be a member or to be taken out; the second, who is      *)
(* about to be enrolled, and that who is to be taken out is in no other    *)
(* cohort.                                                                 *)
(***************************************************************************)
EXTENDS Enrolment, TLAPS

(* Two requests of which one takes users out of a cohort have disturbed    *)
(* the users of both, and all their users on the same cohort.              *)
Exclusive ==
  \A r, s \in Requests :
    r # s /\ Busy(s) /\ Removes(req[r]) =>
      /\ req[r].touched \cap req[s].touched \subseteq disturbed
      /\ req[r].cohort = req[s].cohort =>
           req[r].touched \cup req[s].touched \subseteq disturbed

(* How far a request is, and what that says of its cohort.                 *)
Stage(q) ==
  \/ q.op = "none" /\ q.step = "none"
  \/ /\ q.op # "none" /\ q.cohort \in Cohorts
     /\ \/ q.op = "create" /\ q.step = "enrol" /\ state[q.cohort] = "new" /\ q.todo \subseteq q.list
        \/ /\ q.op = "update" /\ q.step \in {"unenrol", "enrol"} /\ state[q.cohort] # "new"
           /\ state[q.cohort] = "deleted" => q.touched \subseteq disturbed
           /\ q.step = "enrol" => q.todo \subseteq q.list
        \/ q.op = "delete" /\ q.step \in {"find", "unenrol", "removed"} /\ state[q.cohort] # "new"
        \/ /\ q.op = "add" /\ q.step \in {"join", "enrol"} /\ state[q.cohort] # "new"
           /\ q.step = "join" => q.todo = q.touched

CreatesOne ==
  \A r, s \in Requests :
    r # s /\ req[r].op = "create" /\ req[s].op = "create" => req[r].cohort # req[s].cohort

(* A request that takes users out of its cohort knows all of them ...      *)
MembersHeld(q) == Removes(q) => members[q.cohort] \subseteq q.touched \cup disturbed

(* ... and has to save those who are enrolled.                             *)
ToUnenrol(q) ==
  Removes(q) /\ q.step = "unenrol" => members[q.cohort] \cap enrolled \subseteq q.todo \cup disturbed
Reenrols(q) ==
  q.op = "update" /\ q.step = "enrol" =>
    members[q.cohort] \cap enrolled \subseteq q.list \cup disturbed
JoinedFirst(q) ==
  q.op = "add" /\ q.step = "enrol" =>
    \A u \in q.touched \ disturbed : state[q.cohort] = "exists" /\ u \in members[q.cohort]

(* Whom a request has found or saved has an account.                       *)
HaveAccounts(q) ==
  q.step \in {"join", "enrol"} =>
    /\ q.known \cup (q.list \ q.todo) \subseteq accounts
    /\ q.op = "add" => q.todo \subseteq q.known

Local(q) == /\ Stage(q) /\ HaveAccounts(q)
            /\ MembersHeld(q) /\ ToUnenrol(q) /\ Reenrols(q) /\ JoinedFirst(q)

(* Who is enrolled is a member, or will be, or is about to be taken out.   *)
Listed(r, u) == req[r].op \in {"create", "update"} /\ req[r].step = "enrol" /\ u \in req[r].list
Leaving(r, u) == req[r].op = "delete" /\ u \in req[r].todo
IsMember(u) == \E c \in Cohorts : state[c] = "exists" /\ u \in members[c]
Covered ==
  \A u \in enrolled \ disturbed :
    IsMember(u) \/ \E r \in Requests : Listed(r, u) \/ Leaving(r, u)

IInv == TypeOK /\ Exclusive /\ CreatesOne /\ Covered /\ \A r \in Requests : Local(req[r])
------------------------------------------------------------------------------
(* What the others keep of a request while one makes a step.               *)
Same(p, q) ==
  /\ p.op = q.op /\ p.cohort = q.cohort /\ p.step = q.step
  /\ p.list = q.list /\ p.todo = q.todo /\ p.known = q.known /\ p.read = q.read
  /\ p.touched = q.touched

Goes(r, q) == Step(r, q) \/ \E u \in Users : Saved(r, q, u)

WellFormed(q) == q \in RequestState /\ q.todo \cup q.list \cup q.stale \subseteq q.touched

(* A step changes its own request; of the others, at most what is stale.   *)
LEMMA Frame ==
  ASSUME TypeOK, NEW r \in Requests, NEW q, WellFormed(q), Goes(r, q)
  PROVE  /\ req' \in [Requests -> RequestState]
         /\ \A s \in Requests : WellFormed(req'[s])
         /\ req'[r] = q
         /\ \A s \in Requests \ {r} : Same(req'[s], req[s])
<1> USE DEF TypeOK, WellFormed, Same
<1>1. CASE Step(r, q)
  BY <1>1 DEF Step
<1>2. ASSUME NEW u \in Users, Saved(r, q, u)
      PROVE  /\ req' \in [Requests -> RequestState]
             /\ \A s \in Requests : WellFormed(req'[s])
             /\ req'[r] = q
             /\ \A s \in Requests \ {r} : Same(req'[s], req[s])
  <2>1. ASSUME NEW s \in Requests
        PROVE  /\ WellFormed(req'[s])
               /\ s # r => Same(req'[s], req[s])
               /\ s = r => req'[s] = q
    <3>1. CASE s = r
      BY <1>2, <3>1 DEF Saved
    <3>2. CASE s # r
      <4>1. req'[s] = IF req[s].step \in {"unenrol", "removed"} /\ u \in req[s].todo
                      THEN [req[s] EXCEPT !.stale = @ \cup {u}] ELSE req[s]
        BY <1>2, <3>2 DEF Saved
      <4>2. req[s] \in RequestState
        OBVIOUS
      <4> QED
        BY <3>2, <4>1, <4>2 DEF RequestState
    <3> QED
      BY <3>1, <3>2
  <2>2. req' = [s \in Requests |-> req'[s]]
    BY <1>2 DEF Saved
  <2> QED
    BY <2>1, <2>2
<1> QED
  BY <1>1, <1>2 DEF Goes

(* A request stays what it is or ends: nobody meets anybody new.           *)
LEMMA Kept ==
  ASSUME TypeOK, Exclusive, CreatesOne, NEW r \in Requests, NEW q, WellFormed(q), Goes(r, q),
         \/ q.op = "none"
         \/ q.op = req[r].op /\ q.cohort = req[r].cohort /\ q.touched = req[r].touched,
         disturbed \subseteq disturbed'
  PROVE  Exclusive' /\ CreatesOne'
<1>1. /\ req'[r] = q
      /\ \A s \in Requests \ {r} : Same(req'[s], req[s])
  BY Frame
<1>2. \A s \in Requests :
        req'[s].op = "none" \/ /\ req'[s].op = req[s].op
                               /\ req'[s].cohort = req[s].cohort
                               /\ req'[s].touched = req[s].touched
  BY <1>1 DEF Same
<1>3. Exclusive'
  BY <1>2 DEF Exclusive, Busy, Removes
<1>4. CreatesOne'
  BY <1>2 DEF CreatesOne
<1> QED
  BY <1>3, <1>4

(* A request that starts disturbs those it conflicts with.                 *)
LEMMA Started ==
  ASSUME TypeOK, Exclusive, NEW r \in Requests, NEW q, WellFormed(q), Start(r, q)
  PROVE  Exclusive' /\ disturbed \subseteq disturbed' /\ Goes(r, q) /\ ~Busy(r)
<1>1. /\ req'[r] = q
      /\ \A s \in Requests \ {r} : req'[s] = req[s]
  BY DEF Start, TypeOK
<1>2. disturbed \subseteq disturbed' /\ Goes(r, q) /\ ~Busy(r)
  BY DEF Start, Goes, Step
<1>3. ASSUME NEW s \in Requests \ {r}, Busy(s), Removes(q) \/ Removes(req[s])
      PROVE  /\ q.touched \cap req[s].touched \subseteq disturbed'
             /\ q.cohort = req[s].cohort => q.touched \cup req[s].touched \subseteq disturbed'
  <2>1. (IF q.cohort = req[s].cohort THEN q.touched \cup req[s].touched
                                     ELSE q.touched \cap req[s].touched) \subseteq Conflicts(q)
    BY <1>3 DEF Conflicts
  <2>2. Conflicts(q) \subseteq disturbed'
    BY DEF Start
  <2> QED
    BY <2>1, <2>2
<1>4. ASSUME NEW s \in Requests, NEW t \in Requests, s # t, Busy(t)', Removes(req'[s])
      PROVE  /\ req'[s].touched \cap req'[t].touched \subseteq disturbed'
             /\ req'[s].cohort = req'[t].cohort =>
                  req'[s].touched \cup req'[t].touched \subseteq disturbed'
  <2>1. CASE s = r
    BY <1>1, <1>3, <1>4, <2>1 DEF Busy
  <2>2. CASE t = r
    <3>1. Busy(s) /\ Removes(req[s]) /\ s \in Requests \ {r}
      BY <1>1, <1>4, <2>2 DEF Busy, Removes
    <3> QED
      BY <1>1, <1>3, <2>2, <3>1
  <2>3. CASE s # r /\ t # r
    BY <1>1, <1>2, <1>4, <2>3 DEF Exclusive, Busy
  <2> QED
    BY <2>1, <2>2, <2>3
<1>5. Exclusive'
  BY <1>4 DEF Exclusive
<1> QED
  BY <1>2, <1>5
------------------------------------------------------------------------------
LEMMA Idle == WellFormed(NoRequest) /\ NoRequest.op = "none" /\ NoRequest.step = "none"
BY DEF WellFormed, RequestState, NoRequest

LEMMA IdleLocal == Local(NoRequest)'
BY Idle DEF Local, Stage, HaveAccounts, MembersHeld, ToUnenrol, Reenrols, JoinedFirst, Removes

(* What a step leaves to the others, when no cohort changes: only users    *)
(* that the request works on are enrolled.                                 *)
LEMMA OthersOnUsers ==
  ASSUME IInv, NEW r \in Requests, NEW q, WellFormed(q), Goes(r, q),
         disturbed \subseteq disturbed', accounts \subseteq accounts',
         state' = state, members' = members,
         \/ enrolled' \subseteq enrolled
         \/ Busy(r) /\ enrolled' \subseteq enrolled \cup req[r].touched,
         NEW s \in Requests \ {r}
  PROVE  Local(req[s])'
<1> USE DEF IInv
<1>1. Same(req'[s], req[s])
  BY Frame
<1>2. /\ Stage(req[s]) /\ HaveAccounts(req[s])
      /\ MembersHeld(req[s]) /\ ToUnenrol(req[s]) /\ Reenrols(req[s]) /\ JoinedFirst(req[s])
  BY DEF Local
<1>3. Stage(req[s])' /\ HaveAccounts(req[s])'
  BY <1>1, <1>2 DEF Stage, HaveAccounts, Same
<1>4. MembersHeld(req[s])' /\ JoinedFirst(req[s])'
  BY <1>1, <1>2 DEF MembersHeld, JoinedFirst, Same, Removes
<1>5. Removes(req[s]) =>
        members[req[s].cohort] \cap enrolled' \subseteq (members[req[s].cohort] \cap enrolled) \cup disturbed
  <2>1. CASE enrolled' \subseteq enrolled
    BY <2>1
  <2>2. CASE Busy(r) /\ enrolled' \subseteq enrolled \cup req[r].touched
    <3>1. ASSUME Removes(req[s])
          PROVE  req[s].touched \cap req[r].touched \subseteq disturbed
      BY <2>2, <3>1 DEF Exclusive
    <3> QED
      BY <1>2, <2>2, <3>1 DEF MembersHeld
  <2> QED
    BY <2>1, <2>2
<1>6. ToUnenrol(req[s])' /\ Reenrols(req[s])'
  BY <1>1, <1>2, <1>5 DEF ToUnenrol, Reenrols, Same, Removes
<1> QED
  BY <1>3, <1>4, <1>6 DEF Local

(* The same when the cohort of the request changes, by its creation, by    *)
(* users the request works on, or by its removal.                          *)
LEMMA OthersOnCohort ==
  ASSUME IInv, NEW r \in Requests, NEW q, WellFormed(q), Goes(r, q), Busy(r),
         disturbed' = disturbed, enrolled' = enrolled, accounts' = accounts,
         NEW c \in Cohorts, c = req[r].cohort,
         \A d \in Cohorts \ {c} : state'[d] = state[d] /\ members'[d] = members[d],
         \/ req[r].op = "create"
         \/ /\ members'[c] \subseteq members[c] \cup req[r].touched
            /\ \/ state'[c] = state[c] /\ (Removes(req[r]) \/ members[c] \subseteq members'[c])
               \/ state'[c] = "deleted" /\ req[r].op = "delete",
         NEW s \in Requests \ {r}
  PROVE  Local(req[s])'
<1> USE DEF IInv
<1>1. Same(req'[s], req[s])
  BY Frame
<1>2. /\ Stage(req[s]) /\ HaveAccounts(req[s])
      /\ MembersHeld(req[s]) /\ ToUnenrol(req[s]) /\ Reenrols(req[s]) /\ JoinedFirst(req[s])
  BY DEF Local
<1>3. Stage(req[r])
  BY DEF Local
<1>4. CASE ~Busy(s)
  <2>1. req'[s].op = "none" /\ req'[s].step = "none"
    BY <1>1, <1>2, <1>4 DEF Same, Busy, Stage
  <2> QED
    BY <2>1 DEF Local, Stage, HaveAccounts, MembersHeld, ToUnenrol, Reenrols, JoinedFirst, Removes
<1>5. CASE Busy(s) /\ req[s].cohort # c
  <2>1. req[s].cohort \in Cohorts \ {c}
    BY <1>2, <1>5 DEF Stage, Busy
  <2>2. Stage(req[s])' /\ HaveAccounts(req[s])'
    BY <1>1, <1>2, <2>1 DEF Stage, HaveAccounts, Same
  <2>3. MembersHeld(req[s])' /\ ToUnenrol(req[s])'
    BY <1>1, <1>2, <2>1 DEF MembersHeld, ToUnenrol, Same, Removes
  <2>4. Reenrols(req[s])' /\ JoinedFirst(req[s])'
    BY <1>1, <1>2, <2>1 DEF Reenrols, JoinedFirst, Same
  <2> QED
    BY <2>2, <2>3, <2>4 DEF Local
<1>6. CASE Busy(s) /\ req[s].cohort = c
  <2>1. req[r].op # "create" /\ req[s].op # "create"
    BY <1>2, <1>3, <1>6 DEF Stage, Busy, CreatesOne
  <2>2. Removes(req[r]) \/ Removes(req[s]) => req[r].touched \cup req[s].touched \subseteq disturbed
    BY <1>6 DEF Exclusive
  <2>3. Stage(req[s])' /\ HaveAccounts(req[s])'
    BY <1>1, <1>2, <1>6, <2>1, <2>2 DEF Stage, HaveAccounts, Same, Removes, Busy
  <2>4. MembersHeld(req[s])' /\ ToUnenrol(req[s])'
    BY <1>1, <1>2, <1>6, <2>1, <2>2 DEF MembersHeld, ToUnenrol, Same, Removes
  <2>5. Reenrols(req[s])'
    BY <1>1, <1>2, <1>6, <2>1, <2>2 DEF Reenrols, Same, Removes
  <2>6. JoinedFirst(req[s])'
    BY <1>1, <1>2, <1>6, <2>1, <2>2 DEF JoinedFirst, Same, Removes
  <2> QED
    BY <2>3, <2>4, <2>5, <2>6 DEF Local
<1> QED
  BY <1>4, <1>5, <1>6

(* Cover is kept when the cohorts and the other requests are.              *)
LEMMA StillCovered ==
  ASSUME IInv, NEW r \in Requests, NEW q, WellFormed(q), Goes(r, q),
         disturbed \subseteq disturbed', state' = state, members' = members,
         \A u \in enrolled' \ disturbed' :
           \/ IsMember(u)
           \/ q.op \in {"create", "update"} /\ q.step = "enrol" /\ u \in q.list
           \/ q.op = "delete" /\ u \in q.todo
           \/ u \in enrolled /\ ~Listed(r, u) /\ ~Leaving(r, u)
  PROVE  Covered'
<1>1. TypeOK
  BY DEF IInv
<1>2. /\ req'[r] = q
      /\ \A s \in Requests \ {r} : Same(req'[s], req[s])
  BY <1>1, Frame
<1>3. ASSUME NEW u \in enrolled', u \notin disturbed'
      PROVE  IsMember(u)' \/ \E s \in Requests : Listed(s, u)' \/ Leaving(s, u)'
  <2>1. CASE IsMember(u)
    BY <2>1 DEF IsMember
  <2>2. CASE \/ q.op \in {"create", "update"} /\ q.step = "enrol" /\ u \in q.list
             \/ q.op = "delete" /\ u \in q.todo
    BY <1>2, <2>2 DEF Listed, Leaving
  <2>3. CASE u \in enrolled /\ ~Listed(r, u) /\ ~Leaving(r, u) /\ ~IsMember(u)
    <3>1. PICK s \in Requests : Listed(s, u) \/ Leaving(s, u)
      BY <1>3, <2>3 DEF IInv, Covered
    <3>2. Listed(s, u)' \/ Leaving(s, u)'
      BY <1>2, <2>3, <3>1 DEF Listed, Leaving, Same
    <3> QED
      BY <3>2
  <2> QED
    BY <1>3, <2>1, <2>2, <2>3
<1> QED
  BY <1>3 DEF Covered
------------------------------------------------------------------------------
(* A step of a request that changes no cohort.                             *)
LEMMA UserStep ==
  ASSUME IInv, NEW r \in Requests, NEW q, WellFormed(q), Goes(r, q),
         \/ q.op = "none"
         \/ q.op = req[r].op /\ q.cohort = req[r].cohort /\ q.touched = req[r].touched,
         mailer' = mailer, state' = state, members' = members,
         accounts \subseteq accounts', accounts' \subseteq Users, enrolled' \subseteq accounts',
         disturbed \subseteq disturbed', (disturbed \cup shared \cup refused)' \subseteq Users,
         \/ enrolled' \subseteq enrolled
         \/ Busy(r) /\ enrolled' \subseteq enrolled \cup req[r].touched,
         Local(req[r])',
         \A u \in enrolled' \ disturbed' :
           \/ IsMember(u)
           \/ q.op \in {"create", "update"} /\ q.step = "enrol" /\ u \in q.list
           \/ q.op = "delete" /\ u \in q.todo
           \/ u \in enrolled /\ ~Listed(r, u) /\ ~Leaving(r, u)
  PROVE  IInv'
<1>1. TypeOK /\ Exclusive /\ CreatesOne
  BY DEF IInv
<1>2. Exclusive' /\ CreatesOne'
  BY <1>1, Kept
<1>3. \A s \in Requests \ {r} : Local(req[s])'
  BY OthersOnUsers
<1>4. Covered'
  BY StillCovered
<1>5. TypeOK'
  BY <1>1, Frame DEF TypeOK, WellFormed
<1> QED
  BY <1>2, <1>3, <1>4, <1>5 DEF IInv

(* The request r without the user u to save.                               *)
LEMMA OneLess ==
  ASSUME TypeOK, NEW r \in Requests, NEW u
  PROVE  LET q == [req[r] EXCEPT !.todo = @ \ {u}] IN
         /\ WellFormed(q)
         /\ q.op = req[r].op /\ q.cohort = req[r].cohort /\ q.step = req[r].step
         /\ q.list = req[r].list /\ q.touched = req[r].touched /\ q.known = req[r].known
         /\ q.todo = req[r].todo \ {u} /\ q.read = req[r].read
<1> DEFINE q == [req[r] EXCEPT !.todo = @ \ {u}]
<1>1. req[r] \in RequestState /\ req[r].todo \cup req[r].list \cup req[r].stale \subseteq req[r].touched
  BY DEF TypeOK
<1>2. /\ q \in RequestState
      /\ q.op = req[r].op /\ q.cohort = req[r].cohort /\ q.step = req[r].step
      /\ q.list = req[r].list /\ q.touched = req[r].touched /\ q.known = req[r].known
      /\ q.todo = req[r].todo \ {u} /\ q.stale = req[r].stale /\ q.read = req[r].read
  BY <1>1 DEF RequestState
<1> HIDE DEF q
<1>3. WellFormed(q)
  BY <1>1, <1>2 DEF WellFormed
<1> QED
  BY <1>2, <1>3 DEF q

LEMMA OfEnrolKnown ==
  ASSUME IInv, NEW r \in Requests, NEW u \in Users, EnrolKnown(r, u)
  PROVE  IInv'
<1> DEFINE q == [req[r] EXCEPT !.todo = @ \ {u}]
<1>1. TypeOK /\ Local(req[r])
  BY DEF IInv
<1>2. /\ WellFormed(q)
      /\ q.op = req[r].op /\ q.cohort = req[r].cohort /\ q.step = req[r].step
      /\ q.list = req[r].list /\ q.touched = req[r].touched /\ q.known = req[r].known
      /\ q.todo = req[r].todo \ {u}
  BY <1>1, OneLess
<1>3. /\ Goes(r, q)
      /\ q.step = "enrol" /\ u \in req[r].todo \cap req[r].known
      /\ enrolled' \in {enrolled, enrolled \cup {u}}
      /\ UNCHANGED <<mailer, accounts, state, members, disturbed, shared, refused>>
  BY <1>2 DEF EnrolKnown, Goes, history
<1> HIDE DEF q
<1>4. req'[r] = q
  BY <1>1, <1>2, <1>3, Frame
<1>5. Stage(req[r]) /\ HaveAccounts(req[r]) /\ MembersHeld(req[r]) /\ Reenrols(req[r]) /\ JoinedFirst(req[r])
  BY <1>1 DEF Local
<1>6. Busy(r) /\ u \in accounts /\ u \in req[r].touched /\ q.op \in {"create", "update", "add"}
  BY <1>1, <1>2, <1>3, <1>5 DEF Stage, HaveAccounts, Busy, TypeOK
<1>7. Stage(req[r])' /\ HaveAccounts(req[r])'
  BY <1>2, <1>3, <1>4, <1>5 DEF Stage, HaveAccounts
<1>8. MembersHeld(req[r])' /\ ToUnenrol(req[r])'
  BY <1>2, <1>3, <1>4, <1>5 DEF MembersHeld, ToUnenrol, Removes
<1>9. Reenrols(req[r])' /\ JoinedFirst(req[r])'
  BY <1>2, <1>3, <1>4, <1>5 DEF Reenrols, JoinedFirst, Stage
<1>10. ASSUME NEW v \in enrolled' \ disturbed'
       PROVE  \/ IsMember(v)
              \/ q.op \in {"create", "update"} /\ q.step = "enrol" /\ v \in q.list
              \/ v \in enrolled /\ ~Listed(r, v) /\ ~Leaving(r, v)
  <2>1. CASE q.op = "add"
    <3>1. v = u => IsMember(u)
      BY <1>2, <1>3, <1>5, <1>6, <1>10, <2>1 DEF JoinedFirst, IsMember, Stage
    <3> QED
      BY <1>2, <1>3, <2>1, <3>1 DEF Listed, Leaving
  <2>2. CASE q.op # "add"
    BY <1>2, <1>3, <1>5, <1>6, <2>2 DEF Stage, Listed, Leaving
  <2> QED
    BY <2>1, <2>2
<1> QED
  BY <1>1, <1>2, <1>3, <1>6, <1>7, <1>8, <1>9, <1>10, UserStep DEF Local, TypeOK

LEMMA OfEnrolNew ==
  ASSUME IInv, NEW r \in Requests, NEW u \in Users, EnrolNew(r, u)
  PROVE  IInv'
<1> DEFINE q == [req[r] EXCEPT !.todo = @ \ {u}]
<1>1. TypeOK /\ Local(req[r])
  BY DEF IInv
<1>2. /\ WellFormed(q)
      /\ q.op = req[r].op /\ q.cohort = req[r].cohort /\ q.step = req[r].step
      /\ q.list = req[r].list /\ q.touched = req[r].touched /\ q.known = req[r].known
      /\ q.todo = req[r].todo \ {u}
  BY <1>1, OneLess
<1>3. /\ Goes(r, q)
      /\ q.step = "enrol" /\ u \in req[r].todo \ req[r].known
      /\ enrolled' = enrolled \cup {u} /\ accounts' = accounts \cup {u}
      /\ UNCHANGED <<mailer, state, members, disturbed, shared, refused>>
  BY <1>2 DEF EnrolNew, Goes, history
<1> HIDE DEF q
<1>4. req'[r] = q
  BY <1>1, <1>2, <1>3, Frame
<1>5. Stage(req[r]) /\ HaveAccounts(req[r]) /\ MembersHeld(req[r]) /\ Reenrols(req[r]) /\ JoinedFirst(req[r])
  BY <1>1 DEF Local
<1>6. Busy(r) /\ u \in req[r].touched /\ q.op \in {"create", "update"} /\ u \in q.list
  BY <1>1, <1>2, <1>3, <1>5 DEF Stage, HaveAccounts, Busy, TypeOK
<1>7. Stage(req[r])' /\ HaveAccounts(req[r])'
  BY <1>2, <1>3, <1>4, <1>5, <1>6 DEF Stage, HaveAccounts
<1>8. MembersHeld(req[r])' /\ ToUnenrol(req[r])'
  BY <1>2, <1>3, <1>4, <1>5 DEF MembersHeld, ToUnenrol, Removes
<1>9. Reenrols(req[r])' /\ JoinedFirst(req[r])'
  BY <1>2, <1>3, <1>4, <1>5, <1>6 DEF Reenrols, JoinedFirst
<1>10. ASSUME NEW v \in enrolled' \ disturbed'
       PROVE  \/ q.op \in {"create", "update"} /\ q.step = "enrol" /\ v \in q.list
              \/ v \in enrolled /\ ~Listed(r, v) /\ ~Leaving(r, v)
  BY <1>2, <1>3, <1>6 DEF Listed, Leaving
<1> QED
  BY <1>1, <1>2, <1>3, <1>6, <1>7, <1>8, <1>9, <1>10, UserStep DEF Local, TypeOK
------------------------------------------------------------------------------
(* A request that starts.                                                  *)
LEMMA StartStep ==
  ASSUME IInv, NEW r \in Requests, NEW q, WellFormed(q), Start(r, q),
         q.op = "create" => \A s \in Requests : Busy(s) => req[s].cohort # q.cohort,
         UNCHANGED <<mailer, data>>, (disturbed \cup shared \cup refused)' \subseteq Users,
         Local(req[r])'
  PROVE  IInv'
<1>1. TypeOK /\ Exclusive /\ CreatesOne /\ Local(req[r])
  BY DEF IInv
<1>2. Exclusive' /\ disturbed \subseteq disturbed' /\ Goes(r, q) /\ ~Busy(r)
  BY <1>1, Started
<1>3. /\ req'[r] = q
      /\ \A s \in Requests \ {r} : Same(req'[s], req[s])
  BY <1>1, <1>2, Frame
<1>4. CreatesOne'
  BY <1>1, <1>3 DEF CreatesOne, Same, Busy
<1>5. \A s \in Requests \ {r} : Local(req[s])'
  BY <1>2, OthersOnUsers DEF data
<1>6. \A u \in Users : ~Listed(r, u) /\ ~Leaving(r, u)
  BY <1>2 DEF Listed, Leaving, Busy
<1>7. Covered'
  BY <1>1, <1>2, <1>6, StillCovered DEF data, TypeOK
<1>8. TypeOK'
  BY <1>1, <1>2, Frame DEF TypeOK, WellFormed, data
<1> QED
  BY <1>2, <1>4, <1>5, <1>7, <1>8 DEF IInv

(* Conflicts are among the users that requests work on.                    *)
LEMMA ConflictUsers ==
  ASSUME TypeOK, NEW q, WellFormed(q)
  PROVE  Conflicts(q) \subseteq Users
<1>1. q.touched \subseteq Users /\ \A r \in Requests : req[r].touched \subseteq Users
  BY DEF TypeOK, WellFormed, RequestState
<1> QED
  BY <1>1 DEF Conflicts

LEMMA InvitedFields ==
  ASSUME NEW q, WellFormed(q), NEW list, list \subseteq q.touched
  PROVE  LET i == Invited(q, list) IN
         /\ WellFormed(i)
         /\ i.op = q.op /\ i.cohort = q.cohort /\ i.touched = q.touched /\ i.step = "enrol"
         /\ i.known \cup (i.list \ i.todo) \subseteq accounts
         /\ i.todo \subseteq i.list /\ i.list \subseteq list
         /\ ~Refuses(list) => i.list = list /\ i.todo = list
         /\ i.read \subseteq enrolled
<1> DEFINE i == Invited(q, list)
           known == list \cap accounts
<1>1. /\ q \in RequestState /\ q.stale \subseteq q.touched /\ q.touched \subseteq Users
      /\ known \subseteq Users /\ list \subseteq Users
  BY DEF WellFormed, RequestState
<1>2. /\ i \in RequestState
      /\ i.op = q.op /\ i.cohort = q.cohort /\ i.touched = q.touched /\ i.step = "enrol"
      /\ i.known = known /\ i.stale = q.stale /\ i.read = known \cap enrolled
      /\ i.list = IF Refuses(list) THEN known ELSE list
      /\ i.todo = IF Refuses(list) THEN {} ELSE list
  BY <1>1 DEF Invited, RequestState
<1> HIDE DEF i
<1>3. WellFormed(i) /\ i.todo \subseteq i.list /\ i.list \subseteq list
  BY <1>1, <1>2 DEF WellFormed
<1>4. i.known \cup (i.list \ i.todo) \subseteq accounts
  BY <1>2
<1> QED
  BY <1>2, <1>3, <1>4 DEF i

LEMMA OfFindForCreate ==
  ASSUME IInv, NEW r \in Requests, NEW c \in Cohorts, NEW list \in SUBSET Users,
         FindForCreate(r, c, list)
  PROVE  IInv'
<1> DEFINE b == Request("create", c, "enrol", list, {}, list)
           q == Invited(b, list)
<1>1. WellFormed(b) /\ b.op = "create" /\ b.cohort = c /\ b.touched = list
  BY DEF WellFormed, RequestState, Request
<1> HIDE DEF b
<1>2. /\ WellFormed(q) /\ q.op = "create" /\ q.cohort = c /\ q.step = "enrol"
      /\ q.known \cup (q.list \ q.todo) \subseteq accounts /\ q.todo \subseteq q.list
  BY <1>1, InvitedFields
<1>3. /\ Start(r, q) /\ state[c] = "new" /\ UNCHANGED <<mailer, data, shared>>
      /\ \A s \in Requests : Busy(s) => req[s].cohort # c
      /\ refused' \subseteq refused \cup list
  BY DEF FindForCreate, b
<1> HIDE DEF q
<1>4. TypeOK
  BY DEF IInv
<1>5. disturbed' \subseteq Users
  BY <1>2, <1>3, <1>4, ConflictUsers DEF Start, TypeOK
<1>6. req'[r] = q
  BY <1>2, <1>3, <1>4 DEF Start, TypeOK
<1>7. Stage(req[r])' /\ HaveAccounts(req[r])'
  BY <1>2, <1>3, <1>6 DEF Stage, HaveAccounts, data
<1>8. MembersHeld(req[r])' /\ ToUnenrol(req[r])' /\ Reenrols(req[r])' /\ JoinedFirst(req[r])'
  BY <1>2, <1>6 DEF MembersHeld, ToUnenrol, Reenrols, JoinedFirst, Removes
<1> QED
  BY <1>2, <1>3, <1>4, <1>5, <1>7, <1>8, StartStep DEF Local, TypeOK

LEMMA OfFindForUpdate ==
  ASSUME IInv, NEW r \in Requests, NEW c \in Cohorts, NEW list \in SUBSET Users,
         FindForUpdate(r, c, list)
  PROVE  IInv'
<1> DEFINE q == Request("update", c, "unenrol", list, members[c] \cap enrolled, members[c] \cup list)
<1>1. TypeOK
  BY DEF IInv
<1>2. members[c] \subseteq Users
  BY <1>1 DEF TypeOK
<1>3. /\ WellFormed(q) /\ q.op = "update" /\ q.cohort = c /\ q.step = "unenrol"
      /\ q.todo = members[c] \cap enrolled /\ q.touched = members[c] \cup list
  BY <1>2 DEF WellFormed, RequestState, Request
<1>4. Start(r, q) /\ state[c] = "exists" /\ UNCHANGED <<mailer, data, refused>>
      /\ shared' \subseteq shared \cup members[c]
  BY DEF FindForUpdate
<1> HIDE DEF q
<1>5. disturbed' \subseteq Users
  BY <1>1, <1>3, <1>4, ConflictUsers DEF Start, TypeOK
<1>6. req'[r] = q
  BY <1>1, <1>3, <1>4 DEF Start, TypeOK
<1>7. Stage(req[r])' /\ HaveAccounts(req[r])'
  BY <1>3, <1>4, <1>6 DEF Stage, HaveAccounts, data
<1>8. MembersHeld(req[r])' /\ ToUnenrol(req[r])' /\ Reenrols(req[r])' /\ JoinedFirst(req[r])'
  BY <1>3, <1>4, <1>6 DEF MembersHeld, ToUnenrol, Reenrols, JoinedFirst, data
<1> QED
  BY <1>1, <1>2, <1>3, <1>4, <1>5, <1>7, <1>8, StartStep DEF Local, TypeOK

LEMMA OfFindForDelete ==
  ASSUME IInv, NEW r \in Requests, NEW c \in Cohorts, FindForDelete(r, c)
  PROVE  IInv'
<1> DEFINE q == Request("delete", c, "find", {}, {}, members[c])
<1>1. TypeOK
  BY DEF IInv
<1>2. members[c] \subseteq Users
  BY <1>1 DEF TypeOK
<1>3. WellFormed(q) /\ q.op = "delete" /\ q.cohort = c /\ q.step = "find" /\ q.touched = members[c]
  BY <1>2 DEF WellFormed, RequestState, Request
<1>4. Start(r, q) /\ state[c] = "exists" /\ UNCHANGED <<mailer, data, refused>>
      /\ shared' \subseteq shared \cup members[c]
  BY DEF FindForDelete
<1> HIDE DEF q
<1>5. disturbed' \subseteq Users
  BY <1>1, <1>3, <1>4, ConflictUsers DEF Start, TypeOK
<1>6. req'[r] = q
  BY <1>1, <1>3, <1>4 DEF Start, TypeOK
<1>7. Stage(req[r])' /\ HaveAccounts(req[r])'
  BY <1>3, <1>4, <1>6 DEF Stage, HaveAccounts, data
<1>8. MembersHeld(req[r])' /\ ToUnenrol(req[r])' /\ Reenrols(req[r])' /\ JoinedFirst(req[r])'
  BY <1>3, <1>4, <1>6 DEF MembersHeld, ToUnenrol, Reenrols, JoinedFirst, data
<1> QED
  BY <1>1, <1>2, <1>3, <1>4, <1>5, <1>7, <1>8, StartStep DEF Local, TypeOK

LEMMA OfAuthenticate ==
  ASSUME IInv, NEW r \in Requests, NEW c \in Cohorts, NEW u \in Users, Authenticate(r, c, u)
  PROVE  IInv'
<1> DEFINE q == Request("add", c, "join", {}, {u}, {u})
<1>1. TypeOK
  BY DEF IInv
<1>2. /\ WellFormed(q) /\ q.op = "add" /\ q.cohort = c /\ q.step = "join"
      /\ q.todo = {u} /\ q.known = {u} /\ q.list = {} /\ q.touched = {u}
  BY DEF WellFormed, RequestState, Request
<1>3. Start(r, q) /\ state[c] # "new" /\ u \in accounts /\ UNCHANGED <<mailer, data, shared, refused>>
  BY DEF Authenticate
<1> HIDE DEF q
<1>4. disturbed' \subseteq Users
  BY <1>1, <1>2, <1>3, ConflictUsers DEF Start, TypeOK
<1>5. req'[r] = q
  BY <1>1, <1>2, <1>3 DEF Start, TypeOK
<1>6. Stage(req[r])' /\ HaveAccounts(req[r])'
  BY <1>2, <1>3, <1>5 DEF Stage, HaveAccounts, data
<1>7. MembersHeld(req[r])' /\ ToUnenrol(req[r])' /\ Reenrols(req[r])' /\ JoinedFirst(req[r])'
  BY <1>2, <1>5 DEF MembersHeld, ToUnenrol, Reenrols, JoinedFirst, Removes
<1> QED
  BY <1>1, <1>2, <1>3, <1>4, <1>6, <1>7, StartStep DEF Local, TypeOK
------------------------------------------------------------------------------
(* A request that ends without any change to cohorts or enrolments: who    *)
(* it would have made a member, or taken out, is disturbed.                *)
LEMMA Ended ==
  ASSUME IInv, NEW r \in Requests, Step(r, NoRequest), UNCHANGED <<mailer, data>>,
         disturbed \subseteq disturbed', (disturbed \cup shared \cup refused)' \subseteq Users,
         \A u \in Users \ disturbed' : ~Listed(r, u) /\ ~Leaving(r, u)
  PROVE  IInv'
<1>1. TypeOK
  BY DEF IInv
<1>2. Goes(r, NoRequest) /\ req'[r] = NoRequest
  BY <1>1 DEF Goes, Step, TypeOK
<1>3. Local(req[r])'
  BY <1>2, Idle DEF Local, Stage, HaveAccounts, MembersHeld, ToUnenrol, Reenrols, JoinedFirst, Removes
<1>4. \A u \in enrolled' \ disturbed' : u \in enrolled /\ ~Listed(r, u) /\ ~Leaving(r, u)
  BY <1>1 DEF TypeOK, data
<1>5. /\ mailer' = mailer /\ state' = state /\ members' = members
      /\ accounts' = accounts /\ accounts \subseteq Users
      /\ enrolled' = enrolled /\ enrolled \subseteq accounts
  BY <1>1 DEF TypeOK, data
<1> QED
  BY <1>2, <1>3, <1>4, <1>5, Idle, UserStep

LEMMA OfRequestFails ==
  ASSUME IInv, NEW r \in Requests, RequestFails(r)
  PROVE  IInv'
<1>1. TypeOK /\ req[r] \in RequestState
  BY DEF IInv, TypeOK
<1>2. /\ Step(r, NoRequest) /\ disturbed' = disturbed \cup req[r].touched
      /\ UNCHANGED <<mailer, data, shared, refused>>
  BY DEF RequestFails
<1>3. req[r].touched \subseteq Users /\ req[r].todo \cup req[r].list \subseteq req[r].touched
  BY <1>1 DEF TypeOK, RequestState
<1> QED
  BY <1>1, <1>2, <1>3, Ended DEF TypeOK, Listed, Leaving

LEMMA OfJoined ==
  ASSUME IInv, NEW r \in Requests, Joined(r)
  PROVE  IInv'
BY Ended DEF Joined, history, Listed, Leaving, IInv, TypeOK

LEMMA OfFindInvited ==
  ASSUME IInv, NEW r \in Requests, FindInvited(r)
  PROVE  IInv'
<1>1. TypeOK /\ Local(req[r]) /\ req[r] \in RequestState /\ WellFormed(req[r])
  BY DEF IInv, TypeOK, WellFormed
<1>2. /\ req[r].op = "update" /\ req[r].step = "unenrol" /\ req[r].todo = {}
      /\ UNCHANGED <<mailer, data, disturbed, shared>>
  BY DEF FindInvited
<1>3. req[r].touched \subseteq Users /\ req[r].list \subseteq req[r].touched
  BY <1>1 DEF WellFormed, RequestState
<1>4. CASE Refuses(req[r].list)
  <2>1. Step(r, NoRequest) /\ refused' = refused \cup req[r].touched
    BY <1>4 DEF FindInvited
  <2> QED
    BY <1>1, <1>2, <1>3, <2>1, Ended DEF TypeOK, Listed, Leaving
<1>5. CASE ~Refuses(req[r].list)
  <2> DEFINE q == Invited(req[r], req[r].list)
  <2>1. Step(r, q) /\ UNCHANGED refused
    BY <1>5 DEF FindInvited
  <2>2. /\ WellFormed(q)
        /\ q.op = "update" /\ q.cohort = req[r].cohort /\ q.touched = req[r].touched /\ q.step = "enrol"
        /\ q.known \cup (q.list \ q.todo) \subseteq accounts
        /\ q.todo \subseteq q.list
    BY <1>1, <1>2, <1>3, InvitedFields
  <2> HIDE DEF q
  <2>3. Goes(r, q) /\ req'[r] = q
    BY <1>1, <2>1 DEF Goes, Step, TypeOK
  <2>4. Stage(req[r]) /\ MembersHeld(req[r]) /\ ToUnenrol(req[r])
    BY <1>1 DEF Local
  <2>5. Stage(req[r])' /\ HaveAccounts(req[r])'
    BY <1>2, <2>2, <2>3, <2>4 DEF Stage, HaveAccounts, data
  <2>6. MembersHeld(req[r])' /\ ToUnenrol(req[r])' /\ Reenrols(req[r])' /\ JoinedFirst(req[r])'
    BY <1>2, <2>2, <2>3, <2>4 DEF MembersHeld, ToUnenrol, Reenrols, JoinedFirst, Removes, data
  <2> QED
    BY <1>1, <1>2, <2>1, <2>2, <2>3, <2>5, <2>6, UserStep DEF TypeOK, Local, data, Listed, Leaving
<1> QED
  BY <1>4, <1>5

LEMMA OfFindMembers ==
  ASSUME IInv, NEW r \in Requests, FindMembers(r)
  PROVE  IInv'
<1> DEFINE q == [req[r] EXCEPT !.step = "unenrol", !.todo = req[r].touched \cap enrolled]
<1>1. TypeOK /\ Local(req[r]) /\ req[r] \in RequestState /\ WellFormed(req[r])
  BY DEF IInv, TypeOK, WellFormed
<1>2. req[r].step = "find" /\ Step(r, q) /\ UNCHANGED <<mailer, data, history>>
  BY DEF FindMembers
<1>3. /\ q \in RequestState
      /\ q.op = req[r].op /\ q.cohort = req[r].cohort /\ q.touched = req[r].touched
      /\ q.step = "unenrol" /\ q.todo = req[r].touched \cap enrolled
      /\ q.list = req[r].list /\ q.stale = req[r].stale
  BY <1>1 DEF RequestState
<1> HIDE DEF q
<1>4. WellFormed(q)
  BY <1>1, <1>3 DEF WellFormed
<1>5. Goes(r, q) /\ req'[r] = q
  BY <1>1, <1>2 DEF Goes, Step, TypeOK
<1>6. Stage(req[r]) /\ MembersHeld(req[r]) /\ req[r].op = "delete"
  BY <1>1, <1>2 DEF Local, Stage
<1>7. Stage(req[r])' /\ HaveAccounts(req[r])'
  BY <1>2, <1>3, <1>5, <1>6 DEF Stage, HaveAccounts, data
<1>8. MembersHeld(req[r])' /\ ToUnenrol(req[r])' /\ Reenrols(req[r])' /\ JoinedFirst(req[r])'
  BY <1>2, <1>3, <1>5, <1>6 DEF MembersHeld, ToUnenrol, Reenrols, JoinedFirst, Removes, data, history
<1>9. \A u \in Users : Leaving(r, u) => u \in req[r].touched
  BY <1>1 DEF Leaving, WellFormed
<1> QED
  BY <1>1, <1>2, <1>3, <1>4, <1>5, <1>6, <1>7, <1>8, <1>9, UserStep
     DEF TypeOK, Local, data, history, Listed, Leaving
------------------------------------------------------------------------------
LEMMA SettledFields ==
  ASSUME NEW q, WellFormed(q)
  PROVE  /\ WellFormed(Settled(q))
         /\ \/ Settled(q) = q
            \/ Settled(q) = NoRequest /\ q.todo = {} /\ q.step = "removed"
BY Idle DEF Settled

LEMMA OfUnenrolUser ==
  ASSUME IInv, NEW r \in Requests, NEW u \in Users, UnenrolUser(r, u)
  PROVE  IInv'
<1> DEFINE q == [req[r] EXCEPT !.todo = @ \ {u}]
<1>1. TypeOK /\ Local(req[r])
  BY DEF IInv
<1>2. /\ WellFormed(q)
      /\ q.op = req[r].op /\ q.cohort = req[r].cohort /\ q.step = req[r].step
      /\ q.list = req[r].list /\ q.touched = req[r].touched /\ q.known = req[r].known
      /\ q.todo = req[r].todo \ {u}
  BY <1>1, OneLess
<1>3. /\ Goes(r, Settled(q))
      /\ q.step \in {"unenrol", "removed"} /\ u \in req[r].todo
      /\ enrolled' = enrolled \ {u}
      /\ UNCHANGED <<mailer, accounts, state, members, disturbed, shared, refused>>
  BY <1>2 DEF UnenrolUser, Goes, history
<1> HIDE DEF q
<1>4. /\ WellFormed(Settled(q))
      /\ \/ Settled(q) = q
         \/ Settled(q) = NoRequest /\ q.todo = {} /\ q.step = "removed"
  BY <1>2, SettledFields
<1>5. req'[r] = Settled(q)
  BY <1>1, <1>3, <1>4, Frame
<1>6. Stage(req[r]) /\ MembersHeld(req[r]) /\ ToUnenrol(req[r])
  BY <1>1 DEF Local
<1>7. Local(req[r])'
  <2>1. CASE Settled(q) = NoRequest
    BY <1>5, <2>1, Idle
       DEF Local, Stage, HaveAccounts, MembersHeld, ToUnenrol, Reenrols, JoinedFirst, Removes
  <2>2. CASE Settled(q) = q
    <3>1. Stage(req[r])' /\ HaveAccounts(req[r])'
      BY <1>2, <1>3, <1>5, <1>6, <2>2 DEF Stage, HaveAccounts
    <3>2. MembersHeld(req[r])' /\ ToUnenrol(req[r])'
      BY <1>2, <1>3, <1>5, <1>6, <2>2 DEF MembersHeld, ToUnenrol, Removes
    <3>3. Reenrols(req[r])' /\ JoinedFirst(req[r])'
      BY <1>2, <1>3, <1>5, <2>2 DEF Reenrols, JoinedFirst
    <3> QED
      BY <3>1, <3>2, <3>3 DEF Local
  <2> QED
    BY <1>4, <2>1, <2>2
<1>8. \A v \in enrolled' \ disturbed' :
        \/ Settled(q).op = "delete" /\ v \in Settled(q).todo
        \/ v \in enrolled /\ ~Listed(r, v) /\ ~Leaving(r, v)
  BY <1>2, <1>3, <1>4 DEF Listed, Leaving
<1>9. /\ \/ Settled(q).op = "none"
         \/ Settled(q).op = req[r].op /\ Settled(q).cohort = req[r].cohort /\ Settled(q).touched = req[r].touched
  BY <1>2, <1>4, Idle
<1> QED
  BY <1>1, <1>3, <1>4, <1>7, <1>8, <1>9, UserStep DEF TypeOK, Local

LEMMA OfUnenrolFails ==
  ASSUME IInv, NEW r \in Requests, NEW u \in Users, UnenrolFails(r, u)
  PROVE  IInv'
<1> DEFINE q == [req[r] EXCEPT !.todo = @ \ {u}]
<1>1. TypeOK /\ Local(req[r])
  BY DEF IInv
<1>2. /\ WellFormed(q)
      /\ q.op = req[r].op /\ q.cohort = req[r].cohort /\ q.step = req[r].step
      /\ q.list = req[r].list /\ q.touched = req[r].touched /\ q.known = req[r].known
      /\ q.todo = req[r].todo \ {u}
  BY <1>1, OneLess
<1>3. /\ Goes(r, Settled(q))
      /\ q.op = "delete" /\ u \in req[r].todo
      /\ disturbed' = disturbed \cup {u}
      /\ UNCHANGED <<mailer, accounts, enrolled, state, members, shared, refused>>
  BY <1>2 DEF UnenrolFails, Goes, data
<1> HIDE DEF q
<1>4. /\ WellFormed(Settled(q))
      /\ \/ Settled(q) = q
         \/ Settled(q) = NoRequest /\ q.todo = {} /\ q.step = "removed"
  BY <1>2, SettledFields
<1>5. req'[r] = Settled(q)
  BY <1>1, <1>3, <1>4, Frame
<1>6. Stage(req[r]) /\ MembersHeld(req[r]) /\ ToUnenrol(req[r])
  BY <1>1 DEF Local
<1>7. Local(req[r])'
  <2>1. CASE Settled(q) = NoRequest
    BY <1>5, <2>1, Idle
       DEF Local, Stage, HaveAccounts, MembersHeld, ToUnenrol, Reenrols, JoinedFirst, Removes
  <2>2. CASE Settled(q) = q
    <3>1. Stage(req[r])' /\ HaveAccounts(req[r])'
      BY <1>2, <1>3, <1>5, <1>6, <2>2 DEF Stage, HaveAccounts
    <3>2. MembersHeld(req[r])' /\ ToUnenrol(req[r])'
      BY <1>2, <1>3, <1>5, <1>6, <2>2 DEF MembersHeld, ToUnenrol, Removes
    <3>3. Reenrols(req[r])' /\ JoinedFirst(req[r])'
      BY <1>2, <1>3, <1>5, <2>2 DEF Reenrols, JoinedFirst
    <3> QED
      BY <3>1, <3>2, <3>3 DEF Local
  <2> QED
    BY <1>4, <2>1, <2>2
<1>8. \A v \in enrolled' \ disturbed' :
        \/ Settled(q).op = "delete" /\ v \in Settled(q).todo
        \/ v \in enrolled /\ ~Listed(r, v) /\ ~Leaving(r, v)
  BY <1>2, <1>3, <1>4 DEF Listed, Leaving
<1>9. /\ \/ Settled(q).op = "none"
         \/ Settled(q).op = req[r].op /\ Settled(q).cohort = req[r].cohort /\ Settled(q).touched = req[r].touched
  BY <1>2, <1>4, Idle
<1> QED
  BY <1>1, <1>3, <1>4, <1>7, <1>8, <1>9, UserStep DEF TypeOK, Local
------------------------------------------------------------------------------
(* A step of a request that changes its cohort, and ends or goes on as q.  *)
LEMMA CohortStep ==
  ASSUME IInv, NEW r \in Requests, NEW q, WellFormed(q), Step(r, q), Busy(r),
         \/ q.op = "none"
         \/ q.op = req[r].op /\ q.cohort = req[r].cohort /\ q.touched = req[r].touched,
         UNCHANGED <<mailer, accounts, enrolled, disturbed, shared, refused>>,
         NEW c \in Cohorts, c = req[r].cohort,
         state' \in [Cohorts -> {"new", "exists", "deleted"}],
         members' \in [Cohorts -> SUBSET accounts],
         \A d \in Cohorts \ {c} : state'[d] = state[d] /\ members'[d] = members[d],
         \/ req[r].op = "create"
         \/ /\ members'[c] \subseteq members[c] \cup req[r].touched
            /\ \/ state'[c] = state[c] /\ (Removes(req[r]) \/ members[c] \subseteq members'[c])
               \/ state'[c] = "deleted" /\ req[r].op = "delete",
         Local(req[r])',
         \A u \in enrolled \ disturbed :
           Listed(r, u) \/ Leaving(r, u) \/ (state[c] = "exists" /\ u \in members[c]) =>
             \/ state'[c] = "exists" /\ u \in members'[c]
             \/ q.op = "delete" /\ u \in q.todo
  PROVE  IInv'
<1>1. TypeOK /\ Exclusive /\ CreatesOne /\ Covered
  BY DEF IInv
<1>2. Goes(r, q)
  BY DEF Goes
<1>3. /\ req'[r] = q
      /\ \A s \in Requests \ {r} : Same(req'[s], req[s])
  BY <1>1, <1>2, Frame
<1>4. Exclusive' /\ CreatesOne'
  BY <1>1, <1>2, Kept
<1>5. \A s \in Requests \ {r} : Local(req[s])'
  BY <1>2, OthersOnCohort
<1>6. TypeOK'
  BY <1>1, <1>2, Frame DEF TypeOK, WellFormed
<1>7. ASSUME NEW u \in enrolled \ disturbed
      PROVE  IsMember(u)' \/ \E s \in Requests : Listed(s, u)' \/ Leaving(s, u)'
  <2>1. IsMember(u) \/ \E s \in Requests : Listed(s, u) \/ Leaving(s, u)
    BY <1>1, <1>7 DEF Covered
  <2>2. CASE Listed(r, u) \/ Leaving(r, u) \/ (state[c] = "exists" /\ u \in members[c])
    <3>1. \/ state'[c] = "exists" /\ u \in members'[c]
          \/ q.op = "delete" /\ u \in q.todo
      BY <2>2
    <3> QED
      BY <1>3, <3>1 DEF IsMember, Leaving
  <2>3. CASE IsMember(u) /\ ~(state[c] = "exists" /\ u \in members[c])
    BY <2>3 DEF IsMember
  <2>4. ASSUME NEW s \in Requests \ {r}, Listed(s, u) \/ Leaving(s, u)
        PROVE  Listed(s, u)' \/ Leaving(s, u)'
    BY <1>3, <2>4 DEF Listed, Leaving, Same
  <2> QED
    BY <2>1, <2>2, <2>3, <2>4
<1>8. Covered'
  BY <1>7 DEF Covered
<1> QED
  BY <1>4, <1>5, <1>6, <1>8 DEF IInv

LEMMA OfSaveCohort ==
  ASSUME IInv, NEW r \in Requests, SaveCohort(r)
  PROVE  IInv'
<1> DEFINE c == req[r].cohort
<1>1. TypeOK /\ Local(req[r])
  BY DEF IInv
<1>2. /\ req[r].op = "create" /\ req[r].step = "enrol" /\ req[r].todo = {}
      /\ state' = [state EXCEPT ![c] = "exists"]
      /\ members' = [members EXCEPT ![c] = req[r].list]
      /\ Step(r, NoRequest)
      /\ UNCHANGED <<mailer, accounts, enrolled, disturbed, shared, refused>>
  BY DEF SaveCohort, Invites, history
<1>3. c \in Cohorts /\ state[c] = "new" /\ req[r].list \subseteq accounts
  BY <1>1, <1>2 DEF Local, Stage, HaveAccounts
<1> HIDE DEF c
<1>4. /\ state' \in [Cohorts -> {"new", "exists", "deleted"}]
      /\ members' \in [Cohorts -> SUBSET accounts]
      /\ \A d \in Cohorts \ {c} : state'[d] = state[d] /\ members'[d] = members[d]
      /\ state'[c] = "exists" /\ members'[c] = req[r].list
  BY <1>1, <1>2, <1>3 DEF TypeOK
<1>5. req'[r] = NoRequest
  BY <1>1, <1>2 DEF Step, TypeOK
<1>6. Local(req[r])'
  BY <1>5, Idle DEF Local, Stage, HaveAccounts, MembersHeld, ToUnenrol, Reenrols, JoinedFirst, Removes
<1>7. Busy(r) /\ c = req[r].cohort
  BY <1>2 DEF Busy, c
<1> QED
  BY <1>2, <1>3, <1>4, <1>6, <1>7, Idle, CohortStep DEF Listed, Leaving

LEMMA OfUpdateCohort ==
  ASSUME IInv, NEW r \in Requests, UpdateCohort(r)
  PROVE  IInv'
<1> DEFINE c == req[r].cohort
<1>1. TypeOK /\ Local(req[r])
  BY DEF IInv
<1>2. /\ req[r].op = "update" /\ req[r].step = "enrol" /\ req[r].todo = {}
      /\ members' = IF state[c] = "exists" THEN [members EXCEPT ![c] = req[r].list] ELSE members
      /\ Step(r, NoRequest)
      /\ UNCHANGED <<mailer, accounts, enrolled, state, disturbed, shared, refused>>
  BY DEF UpdateCohort, Invites, history
<1>3. /\ c \in Cohorts /\ req[r].list \subseteq accounts
      /\ state[c] # "exists" => req[r].touched \subseteq disturbed
      /\ members[c] \cap enrolled \subseteq req[r].list \cup disturbed
      /\ req[r].list \subseteq req[r].touched
  BY <1>1, <1>2 DEF Local, Stage, HaveAccounts, Reenrols, TypeOK
<1> HIDE DEF c
<1>4. /\ members' \in [Cohorts -> SUBSET accounts]
      /\ \A d \in Cohorts \ {c} : state'[d] = state[d] /\ members'[d] = members[d]
      /\ members'[c] = IF state[c] = "exists" THEN req[r].list ELSE members[c]
  BY <1>1, <1>2, <1>3 DEF TypeOK
<1>5. req'[r] = NoRequest
  BY <1>1, <1>2 DEF Step, TypeOK
<1>6. Local(req[r])'
  BY <1>5, Idle DEF Local, Stage, HaveAccounts, MembersHeld, ToUnenrol, Reenrols, JoinedFirst, Removes
<1>7. Busy(r) /\ c = req[r].cohort /\ Removes(req[r]) /\ members'[c] \subseteq members[c] \cup req[r].touched
  BY <1>2, <1>3, <1>4 DEF Busy, c, Removes
<1>8. state' \in [Cohorts -> {"new", "exists", "deleted"}]
  BY <1>1, <1>2 DEF TypeOK
<1>9. \A u \in enrolled \ disturbed :
        Listed(r, u) \/ Leaving(r, u) \/ (state[c] = "exists" /\ u \in members[c]) =>
          state'[c] = "exists" /\ u \in members'[c]
  BY <1>2, <1>3, <1>4 DEF Listed, Leaving
<1> QED
  BY <1>2, <1>3, <1>4, <1>6, <1>7, <1>8, <1>9, Idle, CohortStep

LEMMA OfRemoveCohort ==
  ASSUME IInv, NEW r \in Requests, RemoveCohort(r)
  PROVE  IInv'
<1> DEFINE c == req[r].cohort
           b == [req[r] EXCEPT !.step = "removed"]
           q == Settled(b)
<1>1. TypeOK /\ Local(req[r]) /\ req[r] \in RequestState /\ WellFormed(req[r])
  BY DEF IInv, TypeOK, WellFormed
<1>2. /\ req[r].op = "delete" /\ req[r].step = "unenrol"
      /\ state' = [state EXCEPT ![c] = "deleted"]
      /\ members' = [members EXCEPT ![c] = {}]
      /\ Step(r, q)
      /\ UNCHANGED <<mailer, accounts, enrolled, disturbed, shared, refused>>
  BY DEF RemoveCohort, history
<1>3. /\ b \in RequestState
      /\ b.op = "delete" /\ b.cohort = c /\ b.touched = req[r].touched /\ b.step = "removed"
      /\ b.todo = req[r].todo /\ b.list = req[r].list /\ b.stale = req[r].stale
  BY <1>1, <1>2 DEF RequestState
<1>4. c \in Cohorts /\ members[c] \cap enrolled \subseteq req[r].todo \cup disturbed
  BY <1>1, <1>2 DEF Local, Stage, ToUnenrol, Removes
<1> HIDE DEF b
<1>5. WellFormed(b)
  BY <1>1, <1>3 DEF WellFormed
<1>6. WellFormed(q) /\ (q = b \/ (q = NoRequest /\ b.todo = {}))
  BY <1>5, SettledFields
<1> HIDE DEF q, c
<1>7. /\ state' \in [Cohorts -> {"new", "exists", "deleted"}]
      /\ members' \in [Cohorts -> SUBSET accounts]
      /\ \A d \in Cohorts \ {c} : state'[d] = state[d] /\ members'[d] = members[d]
      /\ state'[c] = "deleted" /\ members'[c] = {}
  BY <1>1, <1>2, <1>4 DEF TypeOK
<1>8. req'[r] = q
  BY <1>1, <1>2 DEF Step, TypeOK
<1>9. Local(req[r])'
  <2>1. CASE q = b
    BY <1>3, <1>4, <1>7, <1>8, <2>1
       DEF Local, Stage, HaveAccounts, MembersHeld, ToUnenrol, Reenrols, JoinedFirst, Removes
  <2>2. CASE q = NoRequest
    BY <1>8, <2>2, Idle
       DEF Local, Stage, HaveAccounts, MembersHeld, ToUnenrol, Reenrols, JoinedFirst, Removes
  <2> QED
    BY <1>6, <2>1, <2>2
<1>10. Busy(r) /\ c = req[r].cohort
  BY <1>2 DEF Busy, c
<1>11. \/ q.op = "none"
       \/ q.op = req[r].op /\ q.cohort = req[r].cohort /\ q.touched = req[r].touched
  BY <1>2, <1>3, <1>6, <1>10, Idle
<1>12. \A u \in enrolled \ disturbed :
         Listed(r, u) \/ Leaving(r, u) \/ (state[c] = "exists" /\ u \in members[c]) =>
           q.op = "delete" /\ u \in q.todo
  BY <1>2, <1>3, <1>4, <1>6 DEF Listed, Leaving
<1> QED
  BY <1>2, <1>4, <1>6, <1>7, <1>9, <1>10, <1>11, <1>12, CohortStep

LEMMA OfJoinCohort ==
  ASSUME IInv, NEW r \in Requests, JoinCohort(r)
  PROVE  IInv'
<1> DEFINE c == req[r].cohort
           q == [req[r] EXCEPT !.step = "enrol"]
<1>1. TypeOK /\ Local(req[r]) /\ req[r] \in RequestState /\ WellFormed(req[r])
  BY DEF IInv, TypeOK, WellFormed
<1>2. /\ req[r].step = "join"
      /\ UNCHANGED <<mailer, accounts, enrolled, state, disturbed, shared, refused>>
  BY DEF JoinCohort, history
<1>3. /\ req[r].op = "add" /\ c \in Cohorts /\ req[r].todo = req[r].touched /\ req[r].todo \subseteq req[r].known
      /\ req[r].known \cup (req[r].list \ req[r].todo) \subseteq accounts
      /\ state[c] # "new"
  BY <1>1, <1>2 DEF Local, Stage, HaveAccounts
<1>4. CASE state[c] # "exists"
  <2>1. Step(r, NoRequest) /\ UNCHANGED <<mailer, data>>
    BY <1>2, <1>4 DEF JoinCohort, data
  <2> QED
    BY <1>1, <1>2, <1>3, <2>1, Ended DEF TypeOK, Listed, Leaving
<1>5. CASE state[c] = "exists"
  <2>1. Step(r, q) /\ members' = [members EXCEPT ![c] = @ \cup req[r].todo]
    BY <1>2, <1>5 DEF JoinCohort
  <2>2. /\ q \in RequestState
        /\ q.op = "add" /\ q.cohort = c /\ q.touched = req[r].touched /\ q.step = "enrol"
        /\ q.todo = req[r].todo /\ q.list = req[r].list /\ q.stale = req[r].stale /\ q.known = req[r].known
    BY <1>1, <1>3 DEF RequestState
  <2> HIDE DEF q
  <2>3. WellFormed(q)
    BY <1>1, <2>2 DEF WellFormed
  <2>4. c = req[r].cohort
    OBVIOUS
  <2> HIDE DEF c
  <2>5. /\ state' \in [Cohorts -> {"new", "exists", "deleted"}]
        /\ members' \in [Cohorts -> SUBSET accounts]
        /\ \A d \in Cohorts \ {c} : state'[d] = state[d] /\ members'[d] = members[d]
        /\ state'[c] = state[c] /\ members'[c] = members[c] \cup req[r].touched
    BY <1>1, <1>2, <1>3, <2>1 DEF TypeOK
  <2>6. req'[r] = q
    BY <1>1, <2>1 DEF Step, TypeOK
  <2>7. Stage(req[r])' /\ HaveAccounts(req[r])'
    BY <1>2, <1>3, <2>2, <2>5, <2>6 DEF Stage, HaveAccounts
  <2>8. MembersHeld(req[r])' /\ ToUnenrol(req[r])' /\ Reenrols(req[r])' /\ JoinedFirst(req[r])'
    BY <1>2, <1>5, <2>2, <2>5, <2>6 DEF MembersHeld, ToUnenrol, Reenrols, JoinedFirst, Removes
  <2>9. \A u \in enrolled \ disturbed :
          Listed(r, u) \/ Leaving(r, u) \/ (state[c] = "exists" /\ u \in members[c]) =>
            state'[c] = "exists" /\ u \in members'[c]
    BY <1>3, <1>5, <2>5 DEF Listed, Leaving
  <2>10. Busy(r)
    BY <1>3 DEF Busy
  <2> QED
    BY <1>2, <1>3, <2>1, <2>2, <2>3, <2>4, <2>5, <2>7, <2>8, <2>9, <2>10, CohortStep DEF Local
<1> QED
  BY <1>4, <1>5

LEMMA OfCreateUser ==
  ASSUME IInv, NEW u \in Users, CreateUser(u)
  PROVE  IInv'
<1>1. /\ accounts' = accounts \cup {u}
      /\ UNCHANGED <<mailer, enrolled, state, members, req, disturbed, shared, refused>>
  BY DEF CreateUser, history
<1>2. TypeOK /\ Exclusive /\ CreatesOne /\ Covered /\ \A r \in Requests : Local(req[r])
  BY DEF IInv
<1>3. TypeOK'
  BY <1>1, <1>2 DEF TypeOK
<1>4. Exclusive' /\ CreatesOne' /\ Covered'
  BY <1>1, <1>2 DEF Exclusive, CreatesOne, Covered, Busy, IsMember, Listed, Leaving
<1>5. ASSUME NEW r \in Requests
      PROVE  Local(req[r])'
  <2>1. Stage(req[r]) /\ HaveAccounts(req[r]) /\ MembersHeld(req[r]) /\ ToUnenrol(req[r])
        /\ Reenrols(req[r]) /\ JoinedFirst(req[r])
    BY <1>2 DEF Local
  <2>2. Stage(req[r])' /\ HaveAccounts(req[r])'
    BY <1>1, <2>1 DEF Stage, HaveAccounts
  <2>3. MembersHeld(req[r])' /\ ToUnenrol(req[r])' /\ Reenrols(req[r])' /\ JoinedFirst(req[r])'
    BY <1>1, <2>1 DEF MembersHeld, ToUnenrol, Reenrols, JoinedFirst
  <2> QED
    BY <2>2, <2>3 DEF Local
<1> QED
  BY <1>3, <1>4, <1>5 DEF IInv
------------------------------------------------------------------------------
LEMMA InitInv == Init => IInv
<1> SUFFICES ASSUME Init PROVE IInv
  OBVIOUS
<1>1. \A r \in Requests : req[r] = NoRequest
  BY DEF Init
<1>2. TypeOK
  BY <1>1, Idle DEF Init, TypeOK, WellFormed
<1>3. Exclusive /\ CreatesOne /\ Covered
  BY <1>1, Idle DEF Init, Exclusive, CreatesOne, Covered, Busy
<1>4. ASSUME NEW r \in Requests
      PROVE  Local(req[r])
  BY <1>1, Idle DEF Local, Stage, HaveAccounts, MembersHeld, ToUnenrol, Reenrols, JoinedFirst, Removes
<1> QED
  BY <1>2, <1>3, <1>4 DEF IInv

LEMMA NextInv == IInv /\ [Next]_vars => IInv'
<1> SUFFICES ASSUME IInv, [Next]_vars PROVE IInv'
  OBVIOUS
<1>1. CASE UNCHANGED vars
  BY <1>1 DEF vars, data, history, IInv, TypeOK, Exclusive, CreatesOne, Covered, Busy, IsMember,
              Listed, Leaving, Local, Stage, HaveAccounts, MembersHeld, ToUnenrol, Reenrols, JoinedFirst
<1>2. ASSUME NEW r \in Requests, NEW c \in Cohorts, NEW list \in SUBSET Users,
             FindForCreate(r, c, list) \/ FindForUpdate(r, c, list)
      PROVE  IInv'
  BY <1>2, OfFindForCreate, OfFindForUpdate
<1>3. ASSUME NEW r \in Requests, NEW c \in Cohorts, NEW u \in Users,
             FindForDelete(r, c) \/ Authenticate(r, c, u)
      PROVE  IInv'
  BY <1>3, OfFindForDelete, OfAuthenticate
<1>4. ASSUME NEW r \in Requests, NEW u \in Users,
             EnrolKnown(r, u) \/ EnrolNew(r, u) \/ UnenrolUser(r, u) \/ UnenrolFails(r, u)
      PROVE  IInv'
  BY <1>4, OfEnrolKnown, OfEnrolNew, OfUnenrolUser, OfUnenrolFails
<1>5. ASSUME NEW r \in Requests,
             \/ SaveCohort(r) \/ FindInvited(r) \/ UpdateCohort(r) \/ FindMembers(r)
             \/ RemoveCohort(r) \/ JoinCohort(r) \/ Joined(r) \/ RequestFails(r)
      PROVE  IInv'
  BY <1>5, OfSaveCohort, OfFindInvited, OfUpdateCohort, OfFindMembers, OfRemoveCohort,
     OfJoinCohort, OfJoined, OfRequestFails
<1>6. ASSUME NEW r \in Requests, NEW c \in Cohorts, FindForDelete(r, c)
      PROVE  IInv'
  BY <1>6, OfFindForDelete
<1> QED
  BY <1>1, <1>2, <1>3, <1>4, <1>5, <1>6, OfCreateUser DEF Next

(* Who is enrolled, while no request works on it and none has failed or    *)
(* conflicted over it, is a member of a cohort of the course, whatever the *)
(* users, the cohorts and the requests at once (cohorts.js 107-532).       *)
THEOREM EnrolledMembers == Spec => []EnrolledAreMembers
<1>1. IInv => EnrolledAreMembers
  <2> SUFFICES ASSUME IInv, NEW u \in enrolled \ disturbed, ~InHand(u)
               PROVE  \E c \in Cohorts : state[c] = "exists" /\ u \in members[c]
    BY DEF EnrolledAreMembers
  <2>1. ASSUME NEW r \in Requests, Listed(r, u) \/ Leaving(r, u)
        PROVE  InHand(u)
    BY <2>1 DEF IInv, TypeOK, Listed, Leaving, InHand, Busy
  <2> QED
    BY <2>1 DEF IInv, Covered, IsMember
<1> QED
  BY <1>1, InitInv, NextInv, PTL DEF Spec

(* The types, and that only accounts are members or enrolled.              *)
THEOREM EnrolmentTypes == Spec => []TypeOK
<1>1. IInv => TypeOK
  BY DEF IInv
<1> QED
  BY <1>1, InitInv, NextInv, PTL DEF Spec
------------------------------------------------------------------------------
(***************************************************************************)
(* Who is a member is enrolled.  The users of whom that is promised are    *)
(* those that no request has disturbed, that were not shared by two        *)
(* cohorts, and whose list was not refused.                                *)
(***************************************************************************)
Clear == Users \ (disturbed \cup shared \cup refused)

Empty == \A c \in Cohorts : state[c] # "exists" => members[c] = {}
Gone == \A r \in Requests : req[r].step = "removed" => state[req[r].cohort] = "deleted"

(* How far the request q has come with a clear user u; E are the enrolled  *)
(* users and M the members.  What was read of the user still holds, whom   *)
(* the request is through with is enrolled, and who is to be taken out of  *)
(* its cohort is in no other.                                              *)
Phase(q, u, E, M) ==
  /\ q.step \in {"join", "enrol"} /\ u \in q.read => u \in E
  /\ q.step = "enrol" /\ u \notin q.todo /\ (q.op = "add" \/ u \in q.list) => u \in E
  /\ q.op = "delete" \/ (q.op = "update" /\ u \notin q.list) =>
       \A d \in Cohorts \ {q.cohort} : u \notin M[d]
Phases ==
  \A r \in Requests : \A u \in req[r].touched \cap Clear :
    Busy(r) => Phase(req[r], u, enrolled, members)

(* Requests by which a member can be without enrolment.                    *)
Awaited(q, u) ==
  u \in q.touched /\ (Removes(q) \/ (q.op = "add" /\ q.step = "enrol" /\ u \in q.todo))
Member(u) == \E c \in Cohorts : u \in members[c]
Owed == \A u \in Clear : Member(u) => u \in enrolled \/ \E r \in Requests : Awaited(req[r], u)

Enrols == Empty /\ Gone /\ Phases /\ Owed

(* A step of the request r, which goes on as q.                            *)
Proceeds(r, q) ==
  /\ Busy(r) /\ WellFormed(q) /\ Goes(r, q)
  /\ \/ q.op = "none"
     \/ q.op = req[r].op /\ q.cohort = req[r].cohort /\ q.touched = req[r].touched
  /\ disturbed \subseteq disturbed' /\ shared \subseteq shared' /\ refused \subseteq refused'
  /\ \A c \in Cohorts \ {req[r].cohort} : members'[c] = members[c] /\ state'[c] = state[c]
  /\ members'[req[r].cohort] \subseteq members[req[r].cohort] \cup req[r].touched
  /\ state[req[r].cohort] = "deleted" => state'[req[r].cohort] = "deleted"
  /\ state'[req[r].cohort] # "exists" => members'[req[r].cohort] = {}
  /\ enrolled \subseteq enrolled' \/ Removes(req[r])
  /\ enrolled \subseteq enrolled' \cup req[r].touched
  /\ q.step = "removed" => state'[q.cohort] = "deleted"

(* It is to know how far it has come, and a member it works on is enrolled *)
(* or awaited, or was none of its members before.                          *)
LEMMA ProceedsEnrols ==
  ASSUME IInv, Enrols, NEW r \in Requests, NEW q, Proceeds(r, q),
         \A u \in Users : u \in q.touched /\ u \in Clear' => Phase(q, u, enrolled', members'),
         \A u \in Users : u \in req[r].touched /\ u \in Clear' /\ Member(u)' =>
           \/ u \in enrolled' \/ Awaited(q, u)
           \/ Member(u) /\ ~Awaited(req[r], u) /\ (u \in enrolled => u \in enrolled')
  PROVE  Enrols'
<1>1. TypeOK /\ Exclusive /\ \A s \in Requests : Local(req[s])
  BY DEF IInv
<1>2. /\ req'[r] = q
      /\ \A s \in Requests \ {r} : Same(req'[s], req[s])
      /\ \A s \in Requests : WellFormed(req'[s])
  BY <1>1, Frame DEF Proceeds
<1>3. Clear' \subseteq Clear
  BY DEF Clear, Proceeds
<1>4. req[r].cohort \in Cohorts
  BY <1>1 DEF Local, Stage, Proceeds, Busy
<1>5. ASSUME NEW s \in Requests \ {r}, Busy(s),
             NEW u \in Clear, u \in req[s].touched, u \in req[r].touched
      PROVE  /\ ~Removes(req[r])
             /\ ~Removes(req[s])
  <2>1. u \notin disturbed
    BY DEF Clear
  <2>2. Busy(r)
    BY DEF Proceeds
  <2>3. ~Removes(req[s])
    BY <1>1, <1>5, <2>1, <2>2 DEF Exclusive
  <2>4. ~Removes(req[r])
    BY <1>1, <1>5, <2>1 DEF Exclusive
  <2> QED
    BY <2>3, <2>4
<1>6. Empty'
  BY DEF Enrols, Empty, Proceeds
<1>7. Gone'
  BY <1>1, <1>2 DEF Enrols, Gone, Proceeds, Same, Local, Stage
<1>8. Phases'
  <2> SUFFICES ASSUME NEW s \in Requests, NEW u \in req'[s].touched, u \in Clear', Busy(s)'
               PROVE  Phase(req'[s], u, enrolled', members')
    BY DEF Phases
  <2>1. u \in Users
    BY DEF Clear
  <2>2. CASE s = r
    BY <1>2, <2>1, <2>2
  <2>3. CASE s # r
    <3>1. Same(req'[s], req[s]) /\ u \in req[s].touched /\ u \in Clear /\ Busy(s)
      BY <1>2, <1>3, <2>3 DEF Same, Busy
    <3>2. Phase(req[s], u, enrolled, members)
      BY <3>1 DEF Enrols, Phases
    <3>3. u \in enrolled => u \in enrolled'
      BY <1>5, <2>3, <3>1 DEF Proceeds
    <3>4. Removes(req[s]) => \A d \in Cohorts : u \in members'[d] => u \in members[d]
      BY <1>5, <2>3, <3>1 DEF Proceeds
    <3> QED
      BY <3>1, <3>2, <3>3, <3>4 DEF Phase, Same, Removes
  <2> QED
    BY <2>2, <2>3
<1>9. Owed'
  <2> SUFFICES ASSUME NEW u \in Clear', Member(u)', u \notin enrolled'
               PROVE  \E s \in Requests : Awaited(req'[s], u)
    BY DEF Owed
  <2>1. u \in Users /\ u \in Clear
    BY <1>3 DEF Clear
  <2>2. ASSUME Member(u), ~Awaited(req[r], u), u \in enrolled => u \in enrolled'
        PROVE  \E s \in Requests : Awaited(req'[s], u)
    <3>1. PICK s \in Requests : Awaited(req[s], u)
      BY <2>1, <2>2 DEF Enrols, Owed
    <3>2. s # r
      BY <2>2, <3>1
    <3> QED
      BY <1>2, <3>1, <3>2 DEF Awaited, Same, Removes
  <2>3. CASE u \in req[r].touched
    BY <1>2, <2>1, <2>2, <2>3
  <2>4. CASE u \notin req[r].touched
    <3>1. Member(u)
      BY <2>4 DEF Member, Proceeds
    <3>2. ~Awaited(req[r], u)
      BY <2>4 DEF Awaited
    <3>3. u \in enrolled => u \in enrolled'
      BY <2>4 DEF Proceeds
    <3> QED
      BY <2>2, <3>1, <3>2, <3>3
  <2> QED
    BY <2>3, <2>4
<1> QED
  BY <1>6, <1>7, <1>8, <1>9 DEF Enrols

(* A request that starts, with what it has read of the users it works on.  *)
LEMMA StartsEnrols ==
  ASSUME IInv, Enrols, NEW r \in Requests, NEW q, WellFormed(q), Start(r, q),
         UNCHANGED data, shared \subseteq shared', refused \subseteq refused', q.step # "removed",
         \A u \in Users : u \in q.touched /\ u \in Clear' => Phase(q, u, enrolled, members)
  PROVE  Enrols'
<1>1. TypeOK /\ UNCHANGED <<enrolled, state, members>>
  BY DEF IInv, data
<1>2. /\ req'[r] = q /\ disturbed \subseteq disturbed' /\ req[r].op = "none"
      /\ \A s \in Requests \ {r} : req'[s] = req[s]
  BY <1>1 DEF Start, TypeOK, Busy
<1>3. Clear' \subseteq Clear
  BY <1>2 DEF Clear
<1>4. Empty' /\ Gone'
  BY <1>1, <1>2 DEF Enrols, Empty, Gone
<1>5. Phases'
  BY <1>1, <1>2, <1>3 DEF Enrols, Phases, Clear, Busy
<1>6. Owed'
  <2> SUFFICES ASSUME NEW u \in Clear', Member(u)', u \notin enrolled'
               PROVE  \E s \in Requests : Awaited(req'[s], u)
    BY DEF Owed
  <2>1. PICK s \in Requests : Awaited(req[s], u)
    BY <1>1, <1>3 DEF Enrols, Owed, Member
  <2>2. s # r
    BY <1>2, <2>1 DEF Awaited, Removes
  <2> QED
    BY <1>2, <2>1, <2>2
<1> QED
  BY <1>4, <1>5, <1>6 DEF Enrols
------------------------------------------------------------------------------
(* The steps that save one user, who is enrolled ...                       *)
LEMMA EnrolStep ==
  ASSUME IInv, Enrols, NEW r \in Requests, NEW u \in Users, req[r].step = "enrol",
         NEW q, q = [req[r] EXCEPT !.todo = @ \ {u}], Goes(r, q),
         UNCHANGED <<state, members, history>>, enrolled \subseteq enrolled',
         enrolled' \subseteq enrolled \cup {u}, u \in req[r].todo,
         u \in Clear => u \in enrolled'
  PROVE  Enrols'
<1>1. /\ WellFormed(q)
      /\ q.op = req[r].op /\ q.cohort = req[r].cohort /\ q.step = req[r].step
      /\ q.list = req[r].list /\ q.touched = req[r].touched
      /\ q.todo = req[r].todo \ {u} /\ q.read = req[r].read
  BY OneLess DEF IInv
<1>2. Stage(req[r]) /\ u \in req[r].touched
  BY DEF IInv, TypeOK, Local
<1>3. Busy(r) /\ req[r].cohort \in Cohorts
  BY <1>2 DEF Stage, Busy
<1>4. Clear' = Clear /\ \A v \in Users : Member(v)' = Member(v)
  BY DEF Clear, Member, history
<1>5. Proceeds(r, q)
  BY <1>1, <1>2, <1>3 DEF Proceeds, history, Enrols, Empty, Gone
<1>6. ASSUME NEW v \in Users, v \in q.touched, v \in Clear'
      PROVE  Phase(q, v, enrolled', members')
  <2>1. Phase(req[r], v, enrolled, members)
    BY <1>1, <1>3, <1>4, <1>6 DEF Enrols, Phases
  <2> QED
    BY <1>1, <1>4, <1>6, <2>1 DEF Phase
<1>7. ASSUME NEW v \in Users, v \in req[r].touched, v \in Clear', Member(v)'
      PROVE  \/ v \in enrolled' \/ Awaited(q, v)
             \/ Member(v) /\ ~Awaited(req[r], v) /\ (v \in enrolled => v \in enrolled')
  BY <1>1, <1>4, <1>7 DEF Awaited, Removes
<1> QED
  BY <1>5, <1>6, <1>7, ProceedsEnrols

LEMMA EnrolKnownEnrols ==
  ASSUME IInv, Enrols, NEW r \in Requests, NEW u \in Users, EnrolKnown(r, u)
  PROVE  Enrols'
<1> DEFINE q == [req[r] EXCEPT !.todo = @ \ {u}]
<1>1. /\ req[r].step = "enrol" /\ u \in req[r].todo
      /\ UNCHANGED <<state, members, history>>
  BY DEF EnrolKnown
<1>2. \/ u \in req[r].read /\ Step(r, q) /\ enrolled' = enrolled
      \/ Saved(r, q, u) /\ enrolled' = enrolled \cup {u}
  BY DEF EnrolKnown
<1>3. ASSUME u \in req[r].read, u \in Clear
      PROVE  u \in enrolled
  <2>1. u \in req[r].touched /\ Busy(r)
    BY <1>1 DEF IInv, TypeOK, Local, Stage, Busy
  <2> QED
    BY <1>1, <1>3, <2>1 DEF Enrols, Phases, Phase
<1>4. Goes(r, q) /\ enrolled \subseteq enrolled' /\ enrolled' \subseteq enrolled \cup {u}
  BY <1>2 DEF Goes
<1>5. u \in Clear => u \in enrolled'
  BY <1>2, <1>3
<1> HIDE DEF q
<1> QED
  BY <1>1, <1>4, <1>5, EnrolStep DEF q

LEMMA EnrolNewEnrols ==
  ASSUME IInv, Enrols, NEW r \in Requests, NEW u \in Users, EnrolNew(r, u)
  PROVE  Enrols'
BY EnrolStep DEF EnrolNew, Goes

(* ... or is to be taken out, whether that succeeds or not.                *)
LEMMA LeaveStep ==
  ASSUME IInv, Enrols, NEW r \in Requests, NEW u \in Users, Busy(r), Removes(req[r]),
         req[r].step \notin {"join", "enrol"}, u \in req[r].todo,
         NEW q, q = [req[r] EXCEPT !.todo = @ \ {u}], Goes(r, Settled(q)),
         UNCHANGED <<state, members, shared, refused>>, disturbed \subseteq disturbed',
         enrolled' \subseteq enrolled, enrolled \subseteq enrolled' \cup {u}
  PROVE  Enrols'
<1>1. /\ WellFormed(q)
      /\ q.op = req[r].op /\ q.cohort = req[r].cohort /\ q.step = req[r].step
      /\ q.list = req[r].list /\ q.touched = req[r].touched
  BY OneLess DEF IInv
<1>2. /\ WellFormed(Settled(q))
      /\ Settled(q) = q \/ (Settled(q) = NoRequest /\ q.step = "removed")
  BY <1>1, SettledFields
<1>3. NoRequest.touched = {} /\ NoRequest.op = "none" /\ NoRequest.step = "none"
  BY DEF NoRequest
<1>4. Stage(req[r]) /\ u \in req[r].touched
  BY DEF IInv, TypeOK, Local
<1>5. req[r].cohort \in Cohorts
  BY <1>4 DEF Stage, Busy
<1>6. Clear' \subseteq Clear /\ \A v \in Users : Member(v)' = Member(v)
  BY DEF Clear, Member
<1>7. ASSUME NEW v \in Users, v \in req[r].touched, v \in Clear'
      PROVE  Phase(req[r], v, enrolled, members)
  BY <1>6, <1>7 DEF Enrols, Phases
<1>8. Proceeds(r, Settled(q))
  BY <1>1, <1>2, <1>3, <1>4, <1>5 DEF Proceeds, Enrols, Empty, Gone
<1>9. ASSUME NEW v \in Users, v \in Settled(q).touched, v \in Clear'
      PROVE  Phase(Settled(q), v, enrolled', members')
  <2>1. Settled(q) = q /\ Phase(req[r], v, enrolled, members)
    BY <1>1, <1>2, <1>3, <1>7, <1>9
  <2> QED
    BY <1>1, <2>1 DEF Phase
<1>10. ASSUME NEW v \in Users, v \in req[r].touched, v \in Clear', Member(v)'
       PROVE  Awaited(Settled(q), v)
  <2>1. CASE Settled(q) = q
    BY <1>1, <1>10, <2>1 DEF Awaited, Removes
  <2>2. CASE q.step = "removed"
    <3>1. req[r].op = "delete" /\ state[req[r].cohort] = "deleted"
      BY <1>1, <1>4, <2>2 DEF Stage, Enrols, Gone
    <3>2. members[req[r].cohort] = {}
      BY <1>5, <3>1 DEF Enrols, Empty
    <3>3. \A d \in Cohorts \ {req[r].cohort} : v \notin members[d]
      BY <1>7, <1>10, <3>1 DEF Phase
    <3> QED
      BY <1>6, <1>10, <3>2, <3>3 DEF Member
  <2> QED
    BY <1>2, <2>1, <2>2
<1> QED
  BY <1>2, <1>8, <1>9, <1>10, ProceedsEnrols

LEMMA UnenrolUserEnrols ==
  ASSUME IInv, Enrols, NEW r \in Requests, NEW u \in Users, UnenrolUser(r, u)
  PROVE  Enrols'
<1> DEFINE q == [req[r] EXCEPT !.todo = @ \ {u}]
<1>1. /\ req[r].step \in {"unenrol", "removed"} /\ u \in req[r].todo
      /\ Goes(r, Settled(q)) /\ enrolled' = enrolled \ {u}
      /\ UNCHANGED <<state, members, disturbed, shared, refused>>
  BY DEF UnenrolUser, Goes, history
<1>2. Busy(r) /\ Removes(req[r])
  BY <1>1 DEF IInv, Local, Stage, Busy, Removes
<1> HIDE DEF q
<1> QED
  BY <1>1, <1>2, LeaveStep DEF q

LEMMA UnenrolFailsEnrols ==
  ASSUME IInv, Enrols, NEW r \in Requests, NEW u \in Users, UnenrolFails(r, u)
  PROVE  Enrols'
<1> DEFINE q == [req[r] EXCEPT !.todo = @ \ {u}]
<1>1. /\ req[r].op = "delete" /\ u \in req[r].todo
      /\ Goes(r, Settled(q)) /\ disturbed \subseteq disturbed'
      /\ UNCHANGED <<state, members, enrolled, shared, refused>>
  BY DEF UnenrolFails, Goes, data
<1>2. Busy(r) /\ Removes(req[r]) /\ req[r].step \notin {"join", "enrol"}
  BY <1>1 DEF IInv, Local, Stage, Busy, Removes
<1> HIDE DEF q
<1> QED
  BY <1>1, <1>2, LeaveStep DEF q
------------------------------------------------------------------------------
(* The steps that end a request, with its cohort changed or not.           *)
LEMMA EndsEnrols ==
  ASSUME IInv, Enrols, NEW r \in Requests, Busy(r), Step(r, NoRequest),
         disturbed \subseteq disturbed', shared \subseteq shared', refused \subseteq refused',
         enrolled' = enrolled,
         \A c \in Cohorts \ {req[r].cohort} : members'[c] = members[c] /\ state'[c] = state[c],
         members'[req[r].cohort] \subseteq members[req[r].cohort] \cup req[r].touched,
         state[req[r].cohort] = "deleted" => state'[req[r].cohort] = "deleted",
         state'[req[r].cohort] # "exists" => members'[req[r].cohort] = {},
         \A u \in Users : u \in req[r].touched /\ u \in Clear' /\ Member(u)' =>
           u \in enrolled \/ (Member(u) /\ ~Awaited(req[r], u))
  PROVE  Enrols'
<1>1. /\ NoRequest.touched = {} /\ NoRequest.op = "none" /\ NoRequest.step = "none"
      /\ WellFormed(NoRequest)
  BY Idle DEF NoRequest
<1>2. Proceeds(r, NoRequest)
  BY <1>1 DEF Proceeds, Goes
<1> QED
  BY <1>1, <1>2, ProceedsEnrols

LEMMA RequestFailsEnrols ==
  ASSUME IInv, Enrols, NEW r \in Requests, RequestFails(r)
  PROVE  Enrols'
<1>1. /\ Busy(r) /\ Step(r, NoRequest) /\ disturbed' = disturbed \cup req[r].touched
      /\ UNCHANGED <<enrolled, state, members, shared, refused>>
  BY DEF RequestFails, data
<1>2. req[r].cohort \in Cohorts
  BY <1>1 DEF IInv, Local, Stage, Busy
<1>3. \A u \in Users : u \in req[r].touched => u \notin Clear'
  BY <1>1 DEF Clear
<1> QED
  BY <1>1, <1>2, <1>3, EndsEnrols DEF Enrols, Empty

LEMMA JoinedEnrols ==
  ASSUME IInv, Enrols, NEW r \in Requests, Joined(r)
  PROVE  Enrols'
<1>1. /\ req[r].op = "add" /\ Busy(r) /\ Step(r, NoRequest) /\ req[r].todo = {}
      /\ UNCHANGED <<enrolled, state, members, disturbed, shared, refused>>
  BY DEF Joined, Invites, Busy, data, history
<1>2. req[r].cohort \in Cohorts
  BY <1>1 DEF IInv, Local, Stage, Busy
<1>3. \A u \in Users : ~Awaited(req[r], u) /\ Member(u)' = Member(u)
  BY <1>1 DEF Awaited, Removes, Member
<1> QED
  BY <1>1, <1>2, <1>3, EndsEnrols DEF Enrols, Empty

LEMMA SaveCohortEnrols ==
  ASSUME IInv, Enrols, NEW r \in Requests, SaveCohort(r)
  PROVE  Enrols'
<1> DEFINE c == req[r].cohort
<1>1. /\ req[r].op = "create" /\ req[r].step = "enrol" /\ req[r].todo = {}
      /\ state' = [state EXCEPT ![c] = "exists"]
      /\ members' = [members EXCEPT ![c] = req[r].list]
      /\ Step(r, NoRequest)
      /\ UNCHANGED <<enrolled, disturbed, shared, refused>>
  BY DEF SaveCohort, Invites, history
<1>2. /\ TypeOK /\ c \in Cohorts /\ state[c] = "new" /\ Busy(r)
      /\ req[r].list \subseteq req[r].touched
  BY <1>1 DEF IInv, Local, Stage, Busy, TypeOK
<1>3. /\ \A d \in Cohorts \ {c} : state'[d] = state[d] /\ members'[d] = members[d]
      /\ state'[c] = "exists" /\ members'[c] = req[r].list
  BY <1>1, <1>2 DEF TypeOK
<1>4. ASSUME NEW u \in Users, u \in req[r].touched, u \in Clear', Member(u)'
      PROVE  u \in enrolled \/ (Member(u) /\ ~Awaited(req[r], u))
  <2>1. CASE u \in req[r].list
    <3>1. u \in Clear
      BY <1>1, <1>4 DEF Clear
    <3> QED
      BY <1>1, <1>2, <1>4, <2>1, <3>1 DEF Enrols, Phases, Phase
  <2>2. CASE u \notin req[r].list
    <3>1. Member(u)
      BY <1>2, <1>3, <1>4, <2>2 DEF Member
    <3> QED
      BY <1>1, <3>1 DEF Awaited, Removes
  <2> QED
    BY <2>1, <2>2
<1> QED
  BY <1>1, <1>2, <1>3, <1>4, EndsEnrols

LEMMA UpdateCohortEnrols ==
  ASSUME IInv, Enrols, NEW r \in Requests, UpdateCohort(r)
  PROVE  Enrols'
<1> DEFINE c == req[r].cohort
<1>1. /\ req[r].op = "update" /\ req[r].step = "enrol" /\ req[r].todo = {}
      /\ members' = IF state[c] = "exists" THEN [members EXCEPT ![c] = req[r].list] ELSE members
      /\ Step(r, NoRequest)
      /\ UNCHANGED <<enrolled, state, disturbed, shared, refused>>
  BY DEF UpdateCohort, Invites, history
<1>2. /\ TypeOK /\ c \in Cohorts /\ Busy(r) /\ req[r].list \subseteq req[r].touched
      /\ state[c] # "exists" => req[r].touched \subseteq disturbed
  BY <1>1 DEF IInv, Local, Stage, Busy, TypeOK
<1>3. /\ \A d \in Cohorts \ {c} : state'[d] = state[d] /\ members'[d] = members[d]
      /\ members'[c] = IF state[c] = "exists" THEN req[r].list ELSE members[c]
      /\ state'[c] = state[c]
  BY <1>1, <1>2 DEF TypeOK
<1>4. state[c] # "exists" => members[c] = {}
  BY <1>2 DEF Enrols, Empty
<1>5. ASSUME NEW u \in Users, u \in req[r].touched, u \in Clear', Member(u)'
      PROVE  u \in enrolled
  <2>1. u \in Clear
    BY <1>1, <1>5 DEF Clear
  <2>2. state[c] = "exists"
    BY <1>2, <1>5, <2>1 DEF Clear
  <2>3. Phase(req[r], u, enrolled, members)
    BY <1>2, <1>5, <2>1 DEF Enrols, Phases
  <2>4. u \in req[r].list
    BY <1>1, <1>2, <1>3, <1>5, <2>2, <2>3 DEF Phase, Member
  <2> QED
    BY <1>1, <2>3, <2>4 DEF Phase
<1> QED
  BY <1>1, <1>2, <1>3, <1>4, <1>5, EndsEnrols
------------------------------------------------------------------------------
(* The other steps of a request that goes on.                              *)
LEMMA FindInvitedEnrols ==
  ASSUME IInv, Enrols, NEW r \in Requests, FindInvited(r)
  PROVE  Enrols'
<1>1. /\ req[r].op = "update" /\ req[r].step = "unenrol"
      /\ UNCHANGED <<enrolled, state, members, disturbed, shared>>
  BY DEF FindInvited, data
<1>2. /\ TypeOK /\ WellFormed(req[r]) /\ req[r].list \subseteq req[r].touched
      /\ Busy(r) /\ req[r].cohort \in Cohorts
      /\ state[req[r].cohort] # "exists" => members[req[r].cohort] = {}
  BY <1>1 DEF IInv, TypeOK, WellFormed, Local, Stage, Busy, Enrols, Empty
<1>3. CASE Refuses(req[r].list)
  <2>1. Step(r, NoRequest) /\ refused' = refused \cup req[r].touched
    BY <1>3 DEF FindInvited
  <2>2. \A u \in Users : u \in req[r].touched => u \notin Clear'
    BY <2>1 DEF Clear
  <2> QED
    BY <1>1, <1>2, <2>1, <2>2, EndsEnrols
<1>4. CASE ~Refuses(req[r].list)
  <2> DEFINE q == Invited(req[r], req[r].list)
  <2>1. Goes(r, q) /\ UNCHANGED refused
    BY <1>4 DEF FindInvited, Goes
  <2>2. /\ WellFormed(q)
        /\ q.op = "update" /\ q.cohort = req[r].cohort /\ q.touched = req[r].touched /\ q.step = "enrol"
        /\ q.list = req[r].list /\ q.todo = q.list /\ q.read \subseteq enrolled
    BY <1>1, <1>2, <1>4, InvitedFields
  <2> HIDE DEF q
  <2>3. Proceeds(r, q)
    BY <1>1, <1>2, <2>1, <2>2 DEF Proceeds
  <2>4. Clear' = Clear
    BY <1>1, <2>1 DEF Clear
  <2>5. ASSUME NEW u \in Users, u \in q.touched, u \in Clear'
        PROVE  Phase(q, u, enrolled', members')
    <3>1. Phase(req[r], u, enrolled, members)
      BY <1>2, <2>2, <2>4, <2>5 DEF Enrols, Phases
    <3> QED
      BY <1>1, <2>2, <3>1 DEF Phase
  <2>6. \A u \in req[r].touched : Awaited(q, u)
    BY <2>2 DEF Awaited, Removes
  <2> QED
    BY <2>3, <2>5, <2>6, ProceedsEnrols
<1> QED
  BY <1>3, <1>4

LEMMA FindMembersEnrols ==
  ASSUME IInv, Enrols, NEW r \in Requests, FindMembers(r)
  PROVE  Enrols'
<1> DEFINE q == [req[r] EXCEPT !.step = "unenrol", !.todo = req[r].touched \cap enrolled]
<1>1. /\ req[r].step = "find" /\ Goes(r, q)
      /\ UNCHANGED <<enrolled, state, members, disturbed, shared, refused>>
  BY DEF FindMembers, Goes, data, history
<1>2. /\ TypeOK /\ WellFormed(req[r]) /\ req[r] \in RequestState /\ req[r].op = "delete"
      /\ Busy(r) /\ req[r].cohort \in Cohorts
      /\ state[req[r].cohort] # "exists" => members[req[r].cohort] = {}
  BY <1>1 DEF IInv, TypeOK, WellFormed, Local, Stage, Busy, Enrols, Empty
<1>3. /\ q \in RequestState
      /\ q.op = "delete" /\ q.cohort = req[r].cohort /\ q.touched = req[r].touched
      /\ q.step = "unenrol" /\ q.todo = req[r].touched \cap enrolled
      /\ q.list = req[r].list /\ q.stale = req[r].stale
  BY <1>2 DEF RequestState
<1> HIDE DEF q
<1>4. WellFormed(q)
  BY <1>2, <1>3 DEF WellFormed
<1>5. Proceeds(r, q)
  BY <1>1, <1>2, <1>3, <1>4 DEF Proceeds
<1>6. Clear' = Clear
  BY <1>1 DEF Clear
<1>7. ASSUME NEW u \in Users, u \in q.touched, u \in Clear'
      PROVE  Phase(q, u, enrolled', members')
  <2>1. Phase(req[r], u, enrolled, members)
    BY <1>2, <1>3, <1>6, <1>7 DEF Enrols, Phases
  <2> QED
    BY <1>1, <1>2, <1>3, <2>1 DEF Phase
<1>8. \A u \in req[r].touched : Awaited(q, u)
  BY <1>3 DEF Awaited, Removes
<1> QED
  BY <1>5, <1>7, <1>8, ProceedsEnrols

LEMMA RemoveCohortEnrols ==
  ASSUME IInv, Enrols, NEW r \in Requests, RemoveCohort(r)
  PROVE  Enrols'
<1> DEFINE c == req[r].cohort
           b == [req[r] EXCEPT !.step = "removed"]
           q == Settled(b)
<1>1. /\ req[r].op = "delete" /\ req[r].step = "unenrol"
      /\ state' = [state EXCEPT ![c] = "deleted"]
      /\ members' = [members EXCEPT ![c] = {}]
      /\ Goes(r, q)
      /\ UNCHANGED <<enrolled, disturbed, shared, refused>>
  BY DEF RemoveCohort, Goes, history
<1>2. TypeOK /\ WellFormed(req[r]) /\ req[r] \in RequestState /\ Busy(r) /\ c \in Cohorts
  BY <1>1 DEF IInv, TypeOK, WellFormed, Local, Stage, Busy
<1>3. /\ b \in RequestState
      /\ b.op = "delete" /\ b.cohort = c /\ b.touched = req[r].touched /\ b.step = "removed"
      /\ b.todo = req[r].todo /\ b.list = req[r].list /\ b.stale = req[r].stale
  BY <1>1, <1>2 DEF RequestState
<1> HIDE DEF b
<1>4. WellFormed(b)
  BY <1>2, <1>3 DEF WellFormed
<1>5. /\ WellFormed(q) /\ (q = b \/ q = NoRequest)
      /\ NoRequest.touched = {} /\ NoRequest.op = "none" /\ NoRequest.step = "none"
  BY <1>4, SettledFields DEF NoRequest
<1> HIDE DEF q
<1>6. /\ \A d \in Cohorts \ {c} : state'[d] = state[d] /\ members'[d] = members[d]
      /\ state'[c] = "deleted" /\ members'[c] = {}
  BY <1>1, <1>2 DEF TypeOK
<1>7. Proceeds(r, q)
  BY <1>1, <1>2, <1>3, <1>5, <1>6 DEF Proceeds
<1>8. Clear' = Clear
  BY <1>1 DEF Clear
<1>9. ASSUME NEW u \in Users, u \in req[r].touched, u \in Clear'
      PROVE  \A d \in Cohorts \ {c} : u \notin members[d]
  BY <1>1, <1>2, <1>8, <1>9 DEF Enrols, Phases, Phase
<1>10. ASSUME NEW u \in Users, u \in q.touched, u \in Clear'
       PROVE  Phase(q, u, enrolled', members')
  BY <1>3, <1>5, <1>6, <1>9, <1>10 DEF Phase
<1>11. ASSUME NEW u \in Users, u \in req[r].touched, u \in Clear'
       PROVE  ~Member(u)'
  BY <1>6, <1>9, <1>11 DEF Member
<1> QED
  BY <1>7, <1>10, <1>11, ProceedsEnrols

LEMMA JoinCohortEnrols ==
  ASSUME IInv, Enrols, NEW r \in Requests, JoinCohort(r)
  PROVE  Enrols'
<1> DEFINE c == req[r].cohort
           q == [req[r] EXCEPT !.step = "enrol"]
<1>1. /\ req[r].step = "join"
      /\ UNCHANGED <<enrolled, state, disturbed, shared, refused>>
  BY DEF JoinCohort, history
<1>2. /\ TypeOK /\ WellFormed(req[r]) /\ req[r] \in RequestState
      /\ Busy(r) /\ c \in Cohorts /\ req[r].op = "add" /\ req[r].todo = req[r].touched
      /\ state[c] # "exists" => members[c] = {}
  BY <1>1 DEF IInv, TypeOK, WellFormed, Local, Stage, Busy, Enrols, Empty
<1>3. CASE state[c] # "exists"
  <2>1. Step(r, NoRequest) /\ UNCHANGED members
    BY <1>1, <1>3 DEF JoinCohort
  <2>2. \A u \in Users : ~Awaited(req[r], u) /\ Member(u)' = Member(u)
    BY <1>1, <1>2, <2>1 DEF Awaited, Removes, Member
  <2> QED
    BY <1>1, <1>2, <2>1, <2>2, EndsEnrols
<1>4. CASE state[c] = "exists"
  <2>1. Goes(r, q) /\ members' = [members EXCEPT ![c] = @ \cup req[r].todo]
    BY <1>1, <1>4 DEF JoinCohort, Goes
  <2>2. /\ q \in RequestState
        /\ q.op = "add" /\ q.cohort = c /\ q.touched = req[r].touched /\ q.step = "enrol"
        /\ q.todo = req[r].todo /\ q.list = req[r].list /\ q.stale = req[r].stale
        /\ q.read = req[r].read
    BY <1>2 DEF RequestState
  <2> HIDE DEF q
  <2>3. WellFormed(q)
    BY <1>2, <2>2 DEF WellFormed
  <2>4. /\ \A d \in Cohorts \ {c} : members'[d] = members[d]
        /\ members'[c] = members[c] \cup req[r].touched
    BY <1>2, <2>1 DEF TypeOK
  <2>5. Proceeds(r, q)
    BY <1>1, <1>2, <1>4, <2>1, <2>2, <2>3, <2>4 DEF Proceeds
  <2>6. Clear' = Clear
    BY <1>1 DEF Clear
  <2>7. ASSUME NEW u \in Users, u \in q.touched, u \in Clear'
        PROVE  Phase(q, u, enrolled', members')
    BY <1>1, <1>2, <2>2, <2>6, <2>7 DEF Enrols, Phases, Phase
  <2>8. \A u \in req[r].touched : Awaited(q, u)
    BY <1>2, <2>2 DEF Awaited
  <2> QED
    BY <2>5, <2>7, <2>8, ProceedsEnrols
<1> QED
  BY <1>3, <1>4
------------------------------------------------------------------------------
LEMMA FindForCreateEnrols ==
  ASSUME IInv, Enrols, NEW r \in Requests, NEW c \in Cohorts, NEW list \in SUBSET Users,
         FindForCreate(r, c, list)
  PROVE  Enrols'
<1> DEFINE b == Request("create", c, "enrol", list, {}, list)
           q == Invited(b, list)
<1>1. WellFormed(b) /\ b.op = "create" /\ b.cohort = c /\ b.touched = list
  BY DEF WellFormed, RequestState, Request
<1> HIDE DEF b
<1>2. /\ WellFormed(q) /\ q.op = "create" /\ q.step = "enrol" /\ q.touched = list
      /\ ~Refuses(list) => q.todo = list
      /\ q.read \subseteq enrolled
  BY <1>1, InvitedFields
<1>3. /\ Start(r, q) /\ UNCHANGED <<data, shared>>
      /\ refused' = IF Refuses(list) THEN refused \cup list ELSE refused
  BY DEF FindForCreate, b
<1> HIDE DEF q
<1>4. ASSUME NEW u \in Users, u \in q.touched, u \in Clear'
      PROVE  Phase(q, u, enrolled, members)
  <2>1. ~Refuses(list)
    BY <1>2, <1>3, <1>4 DEF Clear
  <2> QED
    BY <1>2, <1>4, <2>1 DEF Phase
<1> QED
  BY <1>2, <1>3, <1>4, StartsEnrols

(* Who is to be taken out, and is clear, is in no other cohort.            *)
LEMMA Unshared ==
  ASSUME Enrols, NEW c, NEW u, u \notin shared',
         InOther(u, c) => u \in shared'
  PROVE  \A d \in Cohorts \ {c} : u \notin members[d]
BY DEF InOther, Enrols, Empty

LEMMA FindForUpdateEnrols ==
  ASSUME IInv, Enrols, NEW r \in Requests, NEW c \in Cohorts, NEW list \in SUBSET Users,
         FindForUpdate(r, c, list)
  PROVE  Enrols'
<1> DEFINE q == Request("update", c, "unenrol", list, members[c] \cap enrolled, members[c] \cup list)
<1>1. members[c] \subseteq Users
  BY DEF IInv, TypeOK
<1>2. /\ WellFormed(q) /\ q.op = "update" /\ q.cohort = c /\ q.step = "unenrol"
      /\ q.list = list /\ q.touched = members[c] \cup list
  BY <1>1 DEF WellFormed, RequestState, Request
<1>3. /\ Start(r, q) /\ UNCHANGED <<data, refused>>
      /\ shared' = shared \cup {u \in members[c] \ list : InOther(u, c)}
  BY DEF FindForUpdate
<1> HIDE DEF q
<1>4. ASSUME NEW u \in Users, u \in q.touched, u \in Clear'
      PROVE  Phase(q, u, enrolled, members)
  <2>1. ASSUME u \notin q.list
        PROVE  \A d \in Cohorts \ {c} : u \notin members[d]
    BY <1>2, <1>3, <1>4, <2>1, Unshared DEF Clear
  <2> QED
    BY <1>2, <2>1 DEF Phase
<1> QED
  BY <1>2, <1>3, <1>4, StartsEnrols

LEMMA FindForDeleteEnrols ==
  ASSUME IInv, Enrols, NEW r \in Requests, NEW c \in Cohorts, FindForDelete(r, c)
  PROVE  Enrols'
<1> DEFINE q == Request("delete", c, "find", {}, {}, members[c])
<1>1. members[c] \subseteq Users
  BY DEF IInv, TypeOK
<1>2. WellFormed(q) /\ q.op = "delete" /\ q.cohort = c /\ q.step = "find" /\ q.touched = members[c]
  BY <1>1 DEF WellFormed, RequestState, Request
<1>3. /\ Start(r, q) /\ UNCHANGED <<data, refused>>
      /\ shared' = shared \cup {u \in members[c] : InOther(u, c)}
  BY DEF FindForDelete
<1> HIDE DEF q
<1>4. ASSUME NEW u \in Users, u \in q.touched, u \in Clear'
      PROVE  Phase(q, u, enrolled, members)
  <2>1. \A d \in Cohorts \ {c} : u \notin members[d]
    BY <1>2, <1>3, <1>4, Unshared DEF Clear
  <2> QED
    BY <1>2, <2>1 DEF Phase
<1> QED
  BY <1>2, <1>3, <1>4, StartsEnrols

LEMMA AuthenticateEnrols ==
  ASSUME IInv, Enrols, NEW r \in Requests, NEW c \in Cohorts, NEW u \in Users, Authenticate(r, c, u)
  PROVE  Enrols'
<1> DEFINE q == Request("add", c, "join", {}, {u}, {u})
<1>1. WellFormed(q) /\ q.op = "add" /\ q.step = "join" /\ q.read \subseteq enrolled
  BY DEF WellFormed, RequestState, Request
<1>2. Start(r, q) /\ UNCHANGED <<data, shared, refused>>
  BY DEF Authenticate
<1> HIDE DEF q
<1>3. \A v \in Users : v \in q.touched /\ v \in Clear' => Phase(q, v, enrolled, members)
  BY <1>1 DEF Phase
<1> QED
  BY <1>1, <1>2, <1>3, StartsEnrols
------------------------------------------------------------------------------
LEMMA InitEnrols == Init => Enrols
<1>1. NoRequest.op = "none" /\ NoRequest.step = "none"
  BY DEF NoRequest
<1> QED
  BY <1>1 DEF Init, Enrols, Empty, Gone, Phases, Owed, Member, Busy

LEMMA NextEnrols == IInv /\ Enrols /\ [Next]_vars => Enrols'
<1> SUFFICES ASSUME IInv, Enrols, [Next]_vars PROVE Enrols'
  OBVIOUS
<1>1. CASE UNCHANGED <<enrolled, state, members, req, history>>
  BY <1>1 DEF history, Enrols, Empty, Gone, Phases, Owed, Member, Clear, Busy
<1>2. ASSUME NEW r \in Requests, NEW c \in Cohorts, NEW list \in SUBSET Users,
             FindForCreate(r, c, list) \/ FindForUpdate(r, c, list)
      PROVE  Enrols'
  BY <1>2, FindForCreateEnrols, FindForUpdateEnrols
<1>3. ASSUME NEW r \in Requests, NEW c \in Cohorts, FindForDelete(r, c)
      PROVE  Enrols'
  BY <1>3, FindForDeleteEnrols
<1>4. ASSUME NEW r \in Requests, NEW c \in Cohorts, NEW u \in Users, Authenticate(r, c, u)
      PROVE  Enrols'
  BY <1>4, AuthenticateEnrols
<1>5. ASSUME NEW r \in Requests, NEW u \in Users,
             EnrolKnown(r, u) \/ EnrolNew(r, u) \/ UnenrolUser(r, u) \/ UnenrolFails(r, u)
      PROVE  Enrols'
  BY <1>5, EnrolKnownEnrols, EnrolNewEnrols, UnenrolUserEnrols, UnenrolFailsEnrols
<1>6. ASSUME NEW r \in Requests,
             \/ SaveCohort(r) \/ FindInvited(r) \/ UpdateCohort(r) \/ FindMembers(r)
             \/ RemoveCohort(r) \/ JoinCohort(r) \/ Joined(r) \/ RequestFails(r)
      PROVE  Enrols'
  BY <1>6, SaveCohortEnrols, FindInvitedEnrols, UpdateCohortEnrols, FindMembersEnrols,
     RemoveCohortEnrols, JoinCohortEnrols, JoinedEnrols, RequestFailsEnrols
<1>7. ASSUME NEW u \in Users, CreateUser(u)
      PROVE  Enrols'
  BY <1>1, <1>7 DEF CreateUser
<1>8. CASE UNCHANGED vars
  BY <1>1, <1>8 DEF vars, data
<1> QED
  BY <1>2, <1>3, <1>4, <1>5, <1>6, <1>7, <1>8 DEF Next

(* Who is a member of a cohort is enrolled in the course, while no request *)
(* works on the user, none has failed or conflicted over it, it was not    *)
(* taken out of one of two cohorts, and its list was not refused, whatever *)
(* the users, the cohorts and the requests at once (cohorts.js 107-532,    *)
(* send_cohort_invitations.js 112-114).                                    *)
THEOREM MembersEnrolled == Spec => []MembersAreEnrolled
<1>1. IInv /\ Enrols => MembersAreEnrolled
  <2> SUFFICES ASSUME IInv, Enrols, NEW c \in Cohorts, NEW u \in members[c],
                      u \notin disturbed \cup shared \cup refused, ~InHand(u)
               PROVE  u \in enrolled
    BY DEF MembersAreEnrolled
  <2>1. u \in Clear /\ Member(u)
    BY DEF IInv, TypeOK, Clear, Member
  <2>2. \A r \in Requests : ~Awaited(req[r], u)
    BY DEF Awaited, Removes, InHand, Busy
  <2> QED
    BY <2>1, <2>2 DEF Enrols, Owed
<1>2. Init => IInv /\ Enrols
  BY InitInv, InitEnrols
<1>3. IInv /\ Enrols /\ [Next]_vars => (IInv /\ Enrols)'
  BY NextInv, NextEnrols
<1> QED
  BY <1>1, <1>2, <1>3, PTL DEF Spec
==============================================================================
