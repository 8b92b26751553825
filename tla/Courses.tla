------------------------------- MODULE Courses -------------------------------
(***************************************************************************)
(* The courses and their owners (lib/namespaces.js, and sanitize_user of   *)
(* lib/users.js).  That a user owns a course is kept twice: the document   *)
(* of the course lists its owners, and the document of the user lists the  *)
(* courses it owns.  A request reads these documents, saves them one by    *)
(* one and waits for the database in between.  A course is added to the    *)
(* list of a user by $addToSet; to take one out the whole list is written, *)
(* as it was read, whatever has been saved since.                          *)
(*                                                                         *)
(* A course keeps its title, accounts are not deleted, and the lessons of  *)
(* a course are the matter of module Lessons: those deleted here have none.*)
(***************************************************************************)
EXTENDS FiniteSets

CONSTANTS
  Users,    \* e-mail addresses, each of at most one account
  Courses,  \* courses that may be created, each with its title
  Requests  \* requests that can be in progress at once

ASSUME CoursesAssumption == "none" \notin Courses

VARIABLES
  mailer,    \* the e-mail service is configured (mailer.active)
  accounts,  \* addresses with an account
  owned,     \* owned[u]: the ownedNamespaces of the user u
  state,     \* state[c]: the course c is "new" (not created), "exists" or is "deleted"
  owners,    \* owners[c]: the owners the course c lists
  directory, \* courses with a directory for their lessons
  req,       \* req[r]: what the request r knows and has still to do
  disturbed, \* history: users a failed request or two conflicting ones worked on
  stranded   \* history: owners taken out for a list none of which has an account

data == <<accounts, owned, state, owners, directory>>
vars == <<mailer, data, req, disturbed, stranded>>

(* list: the owners asked for; known: those an account was found of; todo: *)
(* users to be saved in turn; sent: users whose save is under way; read:   *)
(* the lists of courses as they were read; check: courses sanitize_user    *)
(* has yet to look up; touched: all users the request works on.            *)
RequestState ==
  [op : {"none", "create", "update", "delete", "sanitize"}, course : Courses \cup {"none"},
   step : {"none", "save", "add", "new", "find", "remove", "drop", "check", "over"},
   list : SUBSET Users, known : SUBSET Users, todo : SUBSET Users, sent : SUBSET Users,
   read : [Users -> SUBSET Courses], check : SUBSET Courses, touched : SUBSET Users]
ReadOf(touched) == [u \in Users |-> IF u \in touched THEN owned[u] ELSE {}]
Request(op, c, step, list, touched) ==
  [op |-> op, course |-> c, step |-> step, list |-> list, known |-> list \cap accounts,
   todo |-> {}, sent |-> {}, read |-> ReadOf(touched), check |-> {}, touched |-> touched]
NoRequest ==
  [op |-> "none", course |-> "none", step |-> "none", list |-> {}, known |-> {}, todo |-> {},
   sent |-> {}, read |-> [u \in Users |-> {}], check |-> {}, touched |-> {}]

Init ==
  /\ mailer \in BOOLEAN
  /\ accounts = {}
  /\ owned = [u \in Users |-> {}]
  /\ state = [c \in Courses |-> "new"]
  /\ owners = [c \in Courses |-> {}]
  /\ directory = {}
  /\ req = [r \in Requests |-> NoRequest]
  /\ disturbed = {}
  /\ stranded = {}

Busy(r) == req[r].op # "none"
InHand(u) == \E r \in Requests : Busy(r) /\ u \in req[r].touched

(* Two requests that create courses do not disturb each other.  Others     *)
(* conflict over the users of both, and over all when they work on the     *)
(* same course.                                                            *)
Conflicts(q) ==
  UNION {IF q.course # "none" /\ q.course = req[r].course
         THEN q.touched \cup req[r].touched
         ELSE q.touched \cap req[r].touched :
           r \in {s \in Requests : Busy(s) /\ ~(q.op = "create" /\ req[s].op = "create")}}

Start(r, q) ==
  /\ ~Busy(r)
  /\ req' = [req EXCEPT ![r] = q]
  /\ disturbed' = disturbed \cup Conflicts(q)
  /\ UNCHANGED <<mailer, data, stranded>>

(* A request is over when its last step is, and the saves it has not       *)
(* waited for are.                                                         *)
Settled(q) ==
  IF q.step # "over" THEN q
  ELSE IF q.sent = {} THEN NoRequest
  ELSE [NoRequest EXCEPT !.op = q.op, !.course = q.course, !.step = "over",
                         !.sent = q.sent, !.touched = q.touched]
Step(r, q) == req' = [req EXCEPT ![r] = Settled(q)]

(* A request that fails goes no further.  update_namespace alone has saves *)
(* under way that it does not wait for.                                    *)
Fail(r) ==
  Step(r, [req[r] EXCEPT !.step = "over", !.sent = IF req[r].op = "update" THEN @ ELSE {}])

Goto(r, step) == Step(r, [req[r] EXCEPT !.step = step])
At(r, op, step) == req[r].op = op /\ req[r].step = step
------------------------------------------------------------------------------
(* Owners: what create_namespace and update_namespace share *)

(* Mutant: the list of courses is written as it was read. *)
AddOwnedWhole(r, u) ==
  LET q == req[r] IN
  /\ u \in q.sent
  /\ owned' = [owned EXCEPT ![u] = q.read[u] \cup {q.course}]
  /\ Step(r, [q EXCEPT !.sent = @ \ {u}])
  /\ UNCHANGED <<mailer, accounts, state, owners, directory, disturbed, stranded>>

(* owner.save() after addToSet                                             *)
AddOwned(r, u) ==
  LET q == req[r] IN
  /\ u \in q.sent
  /\ owned' = [owned EXCEPT ![u] = @ \cup {q.course}]
  /\ Step(r, [q EXCEPT !.sent = @ \ {u}])
  /\ UNCHANGED <<mailer, accounts, state, owners, directory, disturbed, stranded>>

(* It fails without ending the request, which is update_namespace (for     *)
(* create_namespace, see RequestFails).                                    *)
AddOwnedFails(r, u) ==
  LET q == req[r] IN
  /\ q.op = "update" /\ u \in q.sent
  /\ Step(r, [q EXCEPT !.sent = @ \ {u}])
  /\ disturbed' = disturbed \cup {u}
  /\ UNCHANGED <<mailer, data, stranded>>

(* user.save() of a new account, which fails when there is one meanwhile.  *)
NewOwner(r, u) ==
  LET q == req[r] IN
  /\ q.step = "new" /\ u \in q.todo \ accounts
  /\ accounts' = accounts \cup {u}
  /\ owned' = [owned EXCEPT ![u] = {q.course}]
  /\ Step(r, [q EXCEPT !.todo = @ \ {u}])
  /\ UNCHANGED <<mailer, state, owners, directory, disturbed, stranded>>

(* Mutant: only the owners that had an account are listed. *)
ListKnownOwners(r) ==
  LET q == req[r] IN
  /\ q.step = "new" /\ q.todo = {}
  /\ owners' = IF state[q.course] = "exists" THEN [owners EXCEPT ![q.course] = q.known]
                                             ELSE owners
  /\ Goto(r, "over")
  /\ UNCHANGED <<mailer, accounts, owned, state, directory, disturbed, stranded>>

(* namespace.updateOne(), without effect when the course is gone           *)
ListOwners(r) ==
  LET q == req[r] IN
  /\ q.step = "new" /\ q.todo = {}
  /\ owners' = IF state[q.course] = "exists" THEN [owners EXCEPT ![q.course] = q.list]
                                             ELSE owners
  /\ Goto(r, "over")
  /\ UNCHANGED <<mailer, accounts, owned, state, directory, disturbed, stranded>>
------------------------------------------------------------------------------
(* create_namespace *)

FindForCreate(r, c, list) ==
  /\ state[c] = "new" /\ \A s \in Requests : req[s].course # c
  /\ Start(r, Request("create", c, "save", list, list))

(* namespace.save(), refused when there is no owner; then the owners are   *)
(* saved.                                                                  *)
SaveCourse(r) ==
  LET q == req[r] IN
  /\ At(r, "create", "save")
  /\ IF q.known = {}
     THEN Goto(r, "over") /\ UNCHANGED <<state, owners>>
     ELSE /\ state' = [state EXCEPT ![q.course] = "exists"]
          /\ owners' = [owners EXCEPT ![q.course] = q.known]
          /\ Step(r, [q EXCEPT !.step = "add", !.sent = q.known])
  /\ UNCHANGED <<mailer, accounts, owned, directory, disturbed, stranded>>

(* The directory is made; the owners without an account get one.           *)
MakeDirectory(r) ==
  LET q == req[r] IN
  /\ At(r, "create", "add") /\ q.sent = {}
  /\ directory' = directory \cup {q.course}
  /\ Step(r, [q EXCEPT !.step = "new", !.todo = q.list \ q.known])
  /\ UNCHANGED <<mailer, accounts, owned, state, owners, disturbed, stranded>>

(* mkdir fails: the course stays, with the owners found.                   *)
MakeDirectoryFails(r) ==
  /\ At(r, "create", "add") /\ req[r].sent = {}
  /\ Goto(r, "over")
  /\ UNCHANGED <<mailer, data, disturbed, stranded>>
------------------------------------------------------------------------------
(* Taking a course out of the lists of its owners *)

(* removeOwnedNamespaceFromUsers: user.updateOne() of the list as read.    *)
RemoveOwned(r, u) ==
  LET q == req[r] IN
  /\ q.step = "remove" /\ u \in q.todo
  /\ owned' = [owned EXCEPT ![u] = q.read[u] \ {q.course}]
  /\ Step(r, [q EXCEPT !.todo = @ \ {u}])
  /\ UNCHANGED <<mailer, accounts, state, owners, directory, disturbed, stranded>>
------------------------------------------------------------------------------
(* update_namespace *)

(* The course is read with its owners, and the accounts of the new ones.   *)
(* A list with an address that has none is refused without a mailer.       *)
FindForUpdate(r, c, list) ==
  /\ state[c] = "exists"
  /\ list \subseteq accounts \/ mailer
  /\ Start(r, [Request("update", c, "remove", list, owners[c] \cup list)
                 EXCEPT !.todo = owners[c] \ list])

(* Mutant: the request goes on when none of the owners has an account. *)
AddOwnersUnchecked(r) ==
  LET q == req[r] IN
  /\ At(r, "update", "remove") /\ q.todo = {}
  /\ Step(r, [q EXCEPT !.step = "new", !.todo = q.list \ q.known,
                       !.sent = {u \in q.known : q.course \notin q.read[u]}])
  /\ UNCHANGED <<mailer, data, disturbed, stranded>>

(* The former owners are out.  owners[ 0 ].organization throws when none   *)
(* of the new ones has an account; otherwise the saves of those who have   *)
(* are sent and not waited for.                                            *)
AddOwners(r) ==
  LET q == req[r] IN
  /\ At(r, "update", "remove") /\ q.todo = {}
  /\ IF q.known = {}
     THEN Goto(r, "over") /\ stranded' = stranded \cup q.touched
     ELSE /\ Step(r, [q EXCEPT !.step = "new", !.todo = q.list \ q.known,
                               !.sent = {u \in q.known : q.course \notin q.read[u]}])
          /\ UNCHANGED stranded
  /\ UNCHANGED <<mailer, data, disturbed>>
------------------------------------------------------------------------------
(* delete_namespace *)

FindForDelete(r, c) ==
  /\ state[c] = "exists"
  /\ Start(r, Request("delete", c, "find", {}, owners[c]))

(* The owners are read after the course and the count of its lessons.      *)
FindOwners(r) ==
  /\ At(r, "delete", "find")
  /\ Step(r, [req[r] EXCEPT !.step = "remove", !.todo = req[r].touched,
                              !.read = ReadOf(req[r].touched)])
  /\ UNCHANGED <<mailer, data, disturbed, stranded>>

(* Mutant: whether the directory could be removed is not waited for. *)
RemoveDirectoryQuietly(r) ==
  LET q == req[r] IN
  /\ At(r, "delete", "remove") /\ q.todo = {}
  /\ directory' \in {directory, directory \ {q.course}}
  /\ Goto(r, "drop")
  /\ UNCHANGED <<mailer, accounts, owned, state, owners, disturbed, stranded>>

(* rmdir; without a directory the request ends by RequestFails.            *)
RemoveDirectory(r) ==
  LET q == req[r] IN
  /\ At(r, "delete", "remove") /\ q.todo = {}
  /\ q.course \in directory
  /\ directory' = directory \ {q.course}
  /\ Goto(r, "drop")
  /\ UNCHANGED <<mailer, accounts, owned, state, owners, disturbed, stranded>>

(* namespace.remove()                                                      *)
RemoveCourse(r) ==
  LET q == req[r] IN
  /\ At(r, "delete", "drop")
  /\ state' = [state EXCEPT ![q.course] = "deleted"]
  /\ owners' = [owners EXCEPT ![q.course] = {}]
  /\ Goto(r, "over")
  /\ UNCHANGED <<mailer, accounts, owned, directory, disturbed, stranded>>
------------------------------------------------------------------------------
(* sanitize_user *)

FindForSanitize(r, u) ==
  /\ u \in accounts
  /\ Start(r, [Request("sanitize", "none", "check", {}, {u}) EXCEPT !.check = owned[u]])

(* Namespace.exists() for one course after the other                       *)
CheckCourse(r, c) ==
  LET q == req[r] IN
  /\ At(r, "sanitize", "check") /\ c \in q.check
  /\ Step(r, [q EXCEPT !.check = @ \ {c},
       !.read = IF state[c] = "exists" THEN @ ELSE [u \in Users |-> @[u] \ {c}],
       !.todo = IF state[c] = "exists" THEN @ ELSE q.touched])
  /\ UNCHANGED <<mailer, data, disturbed, stranded>>

(* user.updateOne(), when a course was missing                             *)
Sanitize(r) ==
  LET q == req[r] IN
  /\ At(r, "sanitize", "check") /\ q.check = {}
  /\ owned' = [u \in Users |-> IF u \in q.todo THEN q.read[u] ELSE owned[u]]
  /\ Goto(r, "over")
  /\ UNCHANGED <<mailer, accounts, state, owners, directory, disturbed, stranded>>
------------------------------------------------------------------------------
(* create_user *)
CreateUser(u) ==
  /\ u \notin accounts
  /\ accounts' = accounts \cup {u}
  /\ UNCHANGED <<mailer, owned, state, owners, directory, req, disturbed, stranded>>

(* A call to the database or the file system fails.  Saves that were sent  *)
(* are still under way.                                                    *)
RequestFails(r) ==
  /\ Busy(r) /\ req[r].step # "over"
  /\ Fail(r)
  /\ disturbed' = disturbed \cup req[r].touched
  /\ UNCHANGED <<mailer, data, stranded>>

Next ==
  \/ \E r \in Requests, c \in Courses, list \in SUBSET Users :
       FindForCreate(r, c, list) \/ FindForUpdate(r, c, list)
  \/ \E r \in Requests, c \in Courses : FindForDelete(r, c) \/ CheckCourse(r, c)
  \/ \E r \in Requests, u \in Users :
       \/ FindForSanitize(r, u) \/ AddOwned(r, u) \/ AddOwnedFails(r, u)
       \/ NewOwner(r, u) \/ RemoveOwned(r, u)
  \/ \E r \in Requests :
       \/ SaveCourse(r) \/ MakeDirectory(r) \/ MakeDirectoryFails(r) \/ ListOwners(r)
       \/ AddOwners(r) \/ FindOwners(r) \/ RemoveDirectory(r) \/ RemoveCourse(r)
       \/ Sanitize(r) \/ RequestFails(r)
  \/ \E u \in Users : CreateUser(u)

Spec == Init /\ [][Next]_vars
------------------------------------------------------------------------------
TypeOK ==
  /\ mailer \in BOOLEAN
  /\ accounts \subseteq Users
  /\ owned \in [Users -> SUBSET Courses]
  /\ \A u \in Users \ accounts : owned[u] = {}
  /\ state \in [Courses -> {"new", "exists", "deleted"}]
  /\ owners \in [Courses -> SUBSET accounts]
  /\ directory \subseteq Courses
  /\ req \in [Requests -> RequestState]
  /\ \A r \in Requests : req[r].todo \cup req[r].sent \cup req[r].list \subseteq req[r].touched
  /\ disturbed \cup stranded \subseteq Users

(* Who is listed as an owner of a course has it in the own list, by which  *)
(* the dashboard goes, once no request works on that user any more; unless *)
(* one failed, two conflicted, or the owners were to be replaced by users  *)
(* none of whom has an account (namespaces.js 79-97, 208-339, 518-523).    *)
OwnersHaveCourse ==
  \A c \in Courses : \A u \in owners[c] \ (disturbed \cup stranded) :
    InHand(u) \/ c \in owned[u]

(* A course in the list of a user exists and lists the user as its owner,  *)
(* with the first two exceptions: who was taken out keeps nothing, a       *)
(* course that is gone is in no list (namespaces.js 386-413, 486-611).     *)
OwnedAreOwners ==
  \A u \in Users \ disturbed : \A c \in owned[u] :
    InHand(u) \/ (state[c] = "exists" /\ u \in owners[c])

(* A course always has an owner, whatever overlaps and fails: the lists    *)
(* that would leave it none end their requests before they are saved       *)
(* (models/namespace.js 108-116, namespaces.js 523).                       *)
AlwaysOwned == \A c \in Courses : state[c] = "exists" => owners[c] # {}

(* A course that is gone leaves no directory, which would stand in the way *)
(* of a new course of its title (namespaces.js 410-412).                   *)
NoLeftoverDirectory == \A c \in directory : state[c] = "exists"
==============================================================================
