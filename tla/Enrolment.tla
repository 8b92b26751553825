------------------------------ MODULE Enrolment ------------------------------
(***************************************************************************)
(* The cohorts of a course and the enrolment of their members              *)
(* (lib/cohorts.js, lib/utils/send_cohort_invitations.js).  That a user is *)
(* enrolled is kept twice: a cohort lists its members, and the document of *)
(* the user lists the courses it is enrolled in.  A request reads and      *)
(* saves these documents one by one and waits for the database each time;  *)
(* nothing makes its saves one transaction.                                *)
(*                                                                         *)
(* One course is modelled, that is not deleted; accounts are not deleted   *)
(* either.  The invitations are left out: they are events of module        *)
(* Scheduler.                                                              *)
(***************************************************************************)
EXTENDS FiniteSets

CONSTANTS
  Users,    \* e-mail addresses, each of at most one account
  Cohorts,  \* cohorts that may be created
  Requests  \* requests that can be in progress at once

VARIABLES
  mailer,    \* the e-mail service is configured (mailer.active)
  accounts,  \* addresses with an account
  enrolled,  \* users with the course among their enrolledNamespaces
  state,     \* state[c]: the cohort c is "new" (not created), "exists" or is "deleted"
  members,   \* members[c]: the members the cohort c lists
  req,       \* req[r]: what the request r knows and has still to do
  disturbed, \* history: users a failed request or two conflicting ones worked on
  shared,    \* history: users taken out of one cohort while they were in another
  refused    \* history: users of a list that was refused for want of a mailer

data == <<accounts, enrolled, state, members>>
history == <<disturbed, shared, refused>>
vars == <<mailer, data, req, history>>

(* cohort and list: what the request asks for; todo: the users it has yet  *)
(* to save; known, read: those it found an account of, and found enrolled; *)
(* stale: users in todo that another has saved since; touched: all users   *)
(* it works on.                                                            *)
RequestState ==
  [op : {"none", "create", "update", "delete", "add"}, cohort : Cohorts \cup {"none"},
   step : {"none", "find", "unenrol", "removed", "join", "enrol"},
   list : SUBSET Users, todo : SUBSET Users, known : SUBSET Users, read : SUBSET Users,
   stale : SUBSET Users, touched : SUBSET Users]
Request(op, c, step, list, todo, touched) ==
  [op |-> op, cohort |-> c, step |-> step, list |-> list, todo |-> todo,
   known |-> todo, read |-> todo \cap enrolled, stale |-> {}, touched |-> touched]
NoRequest == [op |-> "none", cohort |-> "none", step |-> "none", list |-> {}, todo |-> {},
              known |-> {}, read |-> {}, stale |-> {}, touched |-> {}]

Init ==
  /\ mailer \in BOOLEAN
  /\ accounts = {}
  /\ enrolled = {}
  /\ state = [c \in Cohorts |-> "new"]
  /\ members = [c \in Cohorts |-> {}]
  /\ req = [r \in Requests |-> NoRequest]
  /\ disturbed = {}
  /\ shared = {}
  /\ refused = {}

Busy(r) == req[r].op # "none"
InHand(u) == \E r \in Requests : Busy(r) /\ u \in req[r].touched

(* Requests conflict when one of them takes users out of a cohort: over    *)
(* the users of both, and over all their users on the same cohort.         *)
Removes(q) == q.op \in {"update", "delete"}
Conflicts(q) ==
  UNION {IF q.cohort = req[r].cohort THEN q.touched \cup req[r].touched
                                     ELSE q.touched \cap req[r].touched :
           r \in {s \in Requests : Busy(s) /\ (Removes(q) \/ Removes(req[s]))}}

Start(r, q) ==
  /\ ~Busy(r)
  /\ req' = [req EXCEPT ![r] = q]
  /\ disturbed' = disturbed \cup Conflicts(q)

Step(r, q) == req' = [req EXCEPT ![r] = q]

(* The request r goes on as q after it has saved the user u, which makes   *)
(* what the others have read of u out of date.                             *)
Saved(r, q, u) ==
  req' = [s \in Requests |->
            IF s = r THEN q
            ELSE IF req[s].step \in {"unenrol", "removed"} /\ u \in req[s].todo
                 THEN [req[s] EXCEPT !.stale = @ \cup {u}]
                 ELSE req[s]]

(* delete_cohort is over when both the saves and the removal are.          *)
Settled(q) == IF q.step = "removed" /\ q.todo = {} THEN NoRequest ELSE q

InOther(u, c) == \E d \in Cohorts \ {c} : state[d] = "exists" /\ u \in members[d]
------------------------------------------------------------------------------
(* sendCohortInvitations *)

Refuses(list) == ~(list \subseteq accounts) /\ ~mailer

(* Mutant: only users who are not yet members are enrolled. *)
InvitedNew(q, list) ==
  LET known == list \cap accounts
  IN [q EXCEPT !.step = "enrol", !.known = known, !.read = known \cap enrolled,
               !.list = IF Refuses(list) THEN known ELSE list,
               !.todo = IF Refuses(list) THEN {} ELSE list \ members[q.cohort]]

(* The accounts of the list are found; without a mailer a list with an     *)
(* address that has none is cut down to the others, and none is enrolled.  *)
Invited(q, list) ==
  LET known == list \cap accounts
  IN [q EXCEPT !.step = "enrol", !.known = known, !.read = known \cap enrolled,
               !.list = IF Refuses(list) THEN known ELSE list,
               !.todo = IF Refuses(list) THEN {} ELSE list]

(* user.save() of an account that was found: $addToSet, or nothing when    *)
(* the course was there as it was read.                                    *)
EnrolKnown(r, u) ==
  LET q == [req[r] EXCEPT !.todo = @ \ {u}] IN
  /\ req[r].step = "enrol" /\ u \in req[r].todo \cap req[r].known
  /\ IF u \in req[r].read
     THEN Step(r, q) /\ UNCHANGED enrolled
     ELSE Saved(r, q, u) /\ enrolled' = enrolled \cup {u}
  /\ UNCHANGED <<mailer, accounts, state, members, history>>

(* user.save() of a new account, which fails when there is one meanwhile.  *)
EnrolNew(r, u) ==
  /\ req[r].step = "enrol" /\ u \in req[r].todo \ req[r].known
  /\ u \notin accounts
  /\ accounts' = accounts \cup {u}
  /\ enrolled' = enrolled \cup {u}
  /\ Step(r, [req[r] EXCEPT !.todo = @ \ {u}])
  /\ UNCHANGED <<mailer, state, members, history>>

Invites(r) == req[r].step = "enrol" /\ req[r].todo = {}
------------------------------------------------------------------------------
(* create_cohort *)

FindForCreate(r, c, list) ==
  /\ state[c] = "new" /\ \A s \in Requests : Busy(s) => req[s].cohort # c
  /\ Start(r, Invited(Request("create", c, "enrol", list, {}, list), list))
  /\ refused' = IF Refuses(list) THEN refused \cup list ELSE refused
  /\ UNCHANGED <<mailer, data, shared>>

(* cohort.save() *)
SaveCohort(r) ==
  LET c == req[r].cohort IN
  /\ req[r].op = "create" /\ Invites(r)
  /\ state' = [state EXCEPT ![c] = "exists"]
  /\ members' = [members EXCEPT ![c] = req[r].list]
  /\ Step(r, NoRequest)
  /\ UNCHANGED <<mailer, accounts, enrolled, history>>
------------------------------------------------------------------------------
(* update_cohort *)

(* Mutant: the members are not taken out of the course first. *)
FindForUpdateKeeps(r, c, list) ==
  /\ state[c] = "exists"
  /\ Start(r, Request("update", c, "unenrol", list, {}, members[c] \cup list))
  /\ shared' = shared \cup {u \in members[c] : InOther(u, c)}
  /\ UNCHANGED <<mailer, data, refused>>

(* The cohort is read with the documents of its members.                   *)
FindForUpdate(r, c, list) ==
  /\ state[c] = "exists"
  /\ Start(r, Request("update", c, "unenrol", list, members[c] \cap enrolled, members[c] \cup list))
  /\ shared' = shared \cup {u \in members[c] \ list : InOther(u, c)}
  /\ UNCHANGED <<mailer, data, refused>>

(* user.save() after splice writes the whole array, provided the document  *)
(* is as it was read.                                                      *)
UnenrolUser(r, u) ==
  LET q == [req[r] EXCEPT !.todo = @ \ {u}] IN
  /\ req[r].step \in {"unenrol", "removed"} /\ u \in req[r].todo \ req[r].stale
  /\ enrolled' = enrolled \ {u}
  /\ Saved(r, Settled(q), u)
  /\ UNCHANGED <<mailer, accounts, state, members, history>>

(* The members are taken out; the users of the new list are found.  A list *)
(* that is refused ends the request.                                       *)
FindInvited(r) ==
  /\ req[r].op = "update" /\ req[r].step = "unenrol" /\ req[r].todo = {}
  /\ IF Refuses(req[r].list)
     THEN Step(r, NoRequest) /\ refused' = refused \cup req[r].touched
     ELSE Step(r, Invited(req[r], req[r].list)) /\ UNCHANGED refused
  /\ UNCHANGED <<mailer, data, disturbed, shared>>

(* cohort.updateOne() *)
UpdateCohort(r) ==
  LET c == req[r].cohort IN
  /\ req[r].op = "update" /\ Invites(r)
  /\ members' = IF state[c] = "exists" THEN [members EXCEPT ![c] = req[r].list] ELSE members
  /\ Step(r, NoRequest)
  /\ UNCHANGED <<mailer, accounts, enrolled, state, history>>
------------------------------------------------------------------------------
(* delete_cohort *)

FindForDelete(r, c) ==
  /\ state[c] = "exists"
  /\ Start(r, Request("delete", c, "find", {}, {}, members[c]))
  /\ shared' = shared \cup {u \in members[c] : InOther(u, c)}
  /\ UNCHANGED <<mailer, data, refused>>

(* The documents of the members are read, and their saves are sent ...     *)
FindMembers(r) ==
  /\ req[r].step = "find"
  /\ Step(r, [req[r] EXCEPT !.step = "unenrol", !.todo = req[r].touched \cap enrolled])
  /\ UNCHANGED <<mailer, data, history>>

(* ... and not waited for: cohort.remove() is sent at the same time.       *)
RemoveCohort(r) ==
  LET q == req[r] IN
  /\ q.op = "delete" /\ q.step = "unenrol"
  /\ state' = [state EXCEPT ![q.cohort] = "deleted"]
  /\ members' = [members EXCEPT ![q.cohort] = {}]
  /\ Step(r, Settled([q EXCEPT !.step = "removed"]))
  /\ UNCHANGED <<mailer, accounts, enrolled, history>>

(* One of these saves fails, its document being out of date or otherwise.  *)
UnenrolFails(r, u) ==
  LET q == [req[r] EXCEPT !.todo = @ \ {u}] IN
  /\ req[r].op = "delete" /\ u \in req[r].todo
  /\ Step(r, Settled(q))
  /\ disturbed' = disturbed \cup {u}
  /\ UNCHANGED <<mailer, data, shared, refused>>
------------------------------------------------------------------------------
(* add_to_cohort *)

(* The user of the request is read as it is authenticated.                 *)
Authenticate(r, c, u) ==
  /\ u \in accounts /\ state[c] # "new"
  /\ Start(r, Request("add", c, "join", {}, {u}, {u}))
  /\ UNCHANGED <<mailer, data, shared, refused>>

(* Mutant: the members are written as they were read. *)
JoinCohortAlone(r) ==
  LET q == req[r] IN
  /\ q.step = "join"
  /\ IF state[q.cohort] = "exists"
     THEN /\ members' = [members EXCEPT ![q.cohort] = q.todo]
          /\ Step(r, [q EXCEPT !.step = "enrol"])
     ELSE Step(r, NoRequest) /\ UNCHANGED members
  /\ UNCHANGED <<mailer, accounts, enrolled, state, history>>

(* Cohort.findOneAndUpdate(); the request ends when there is no cohort.    *)
JoinCohort(r) ==
  LET q == req[r] IN
  /\ q.step = "join"
  /\ IF state[q.cohort] = "exists"
     THEN /\ members' = [members EXCEPT ![q.cohort] = @ \cup q.todo]
          /\ Step(r, [q EXCEPT !.step = "enrol"])
     ELSE Step(r, NoRequest) /\ UNCHANGED members
  /\ UNCHANGED <<mailer, accounts, enrolled, state, history>>

Joined(r) ==
  /\ req[r].op = "add" /\ Invites(r)
  /\ Step(r, NoRequest)
  /\ UNCHANGED <<mailer, data, history>>
------------------------------------------------------------------------------
(* create_user *)
CreateUser(u) ==
  /\ u \notin accounts
  /\ accounts' = accounts \cup {u}
  /\ UNCHANGED <<mailer, enrolled, state, members, req, history>>

(* A call to the database fails, or the server stops.                      *)
RequestFails(r) ==
  /\ Busy(r)
  /\ Step(r, NoRequest)
  /\ disturbed' = disturbed \cup req[r].touched
  /\ UNCHANGED <<mailer, data, shared, refused>>

Next ==
  \/ \E r \in Requests, c \in Cohorts, list \in SUBSET Users :
       FindForCreate(r, c, list) \/ FindForUpdate(r, c, list)
  \/ \E r \in Requests, c \in Cohorts : FindForDelete(r, c)
  \/ \E r \in Requests, c \in Cohorts, u \in Users : Authenticate(r, c, u)
  \/ \E r \in Requests, u \in Users :
       EnrolKnown(r, u) \/ EnrolNew(r, u) \/ UnenrolUser(r, u) \/ UnenrolFails(r, u)
  \/ \E r \in Requests :
       \/ SaveCohort(r) \/ FindInvited(r) \/ UpdateCohort(r) \/ FindMembers(r)
       \/ RemoveCohort(r) \/ JoinCohort(r) \/ Joined(r) \/ RequestFails(r)
  \/ \E u \in Users : CreateUser(u)

Spec == Init /\ [][Next]_vars
------------------------------------------------------------------------------
TypeOK ==
  /\ mailer \in BOOLEAN
  /\ accounts \subseteq Users /\ enrolled \subseteq accounts
  /\ state \in [Cohorts -> {"new", "exists", "deleted"}]
  /\ members \in [Cohorts -> SUBSET accounts]
  /\ req \in [Requests -> RequestState]
  /\ \A r \in Requests :
       req[r].todo \cup req[r].list \cup req[r].stale \subseteq req[r].touched
  /\ disturbed \cup shared \cup refused \subseteq Users

(* A user who is enrolled in the course is a member of one of its cohorts, *)
(* once no request works on that user any more; unless one failed, or two  *)
(* conflicted.  Users can join at the same time as others do, be invited   *)
(* into several cohorts at once, and be taken out of them                  *)
(* (cohorts.js 137-143, 377-391, 435-443, 505-526).                        *)
EnrolledAreMembers ==
  \A u \in enrolled \ disturbed :
    InHand(u) \/ \E c \in Cohorts : state[c] = "exists" /\ u \in members[c]

(* A member of a cohort is enrolled in the course, with the same           *)
(* exceptions, and two more: who is taken out of one of two cohorts is     *)
(* taken out of the course, and so are the members of a cohort whose new   *)
(* list is refused for want of a mailer; nor are the members of a new      *)
(* cohort enrolled when its list is (send_cohort_invitations.js 112-114).  *)
MembersAreEnrolled ==
  \A c \in Cohorts : \A u \in members[c] \ (disturbed \cup shared \cup refused) :
    InHand(u) \/ u \in enrolled
==============================================================================
