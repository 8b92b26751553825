---------------------------- MODULE CoursesProofs ----------------------------
(***************************************************************************)
(* A course always has an owner, and leaves no directory when it goes, for *)
(* any number of users, courses and requests, and any that fail.  The      *)
(* first invariant, IInv, says beyond that what a request at each step     *)
(* knows of its course and of the accounts of the users it is about to     *)
(* save, and that no other request creates or drops a course while one     *)
(* creates it.  The second, Tidy, is about the two lists of who owns what. *)
(***************************************************************************)
EXTENDS Courses, TLAPS

Creating(q) == q.step \in {"save", "add"}
Ending(q) == Creating(q) \/ q.step = "drop"

(* Whom a request has to save has an account.                              *)
Stage(q, A) ==
  /\ q.todo \cup q.sent \cup q.list \subseteq q.touched
  /\ q.known \subseteq q.list \cap A
  /\ q.sent \subseteq A
  /\ q.sent # {} => q.op \in {"create", "update"}
  /\ q.op \in {"create", "update", "delete"} => q.course \in Courses
  /\ Creating(q) => q.op = "create"
  /\ q.step = "new" =>
       /\ q.op \in {"create", "update"} /\ q.known # {}
       /\ q.list \subseteq A \cup q.todo
  /\ q.step = "remove" => q.op \in {"update", "delete"}
  /\ q.step \in {"find", "drop"} => q.op = "delete"
  /\ q.step = "remove" => q.todo \subseteq A
  /\ q.op \in {"delete", "sanitize"} => q.touched \subseteq A
  /\ q.op = "sanitize" => q.step \in {"check", "over"}

(* What it knows of its course: S is the state of the courses, D those     *)
(* with a directory.                                                       *)
Known(q, S, D) ==
  /\ q.step = "save" => S[q.course] = "new"
  /\ q.step = "add" => S[q.course] = "exists" /\ q.course \notin D /\ q.known # {}
  /\ q.step = "drop" => q.course \notin D

Local(q, A, S, D) == q \in RequestState /\ Stage(q, A) /\ Known(q, S, D)

(* While a request creates a course no other creates or drops it.          *)
Alone ==
  \A r, s \in Requests :
    r # s /\ Creating(req[r]) /\ Ending(req[s]) => req[r].course # req[s].course

DataOK ==
  /\ mailer \in BOOLEAN
  /\ accounts \subseteq Users
  /\ owned \in [Users -> SUBSET Courses]
  /\ \A u \in Users \ accounts : owned[u] = {}
  /\ state \in [Courses -> {"new", "exists", "deleted"}]
  /\ owners \in [Courses -> SUBSET accounts]
  /\ directory \subseteq Courses
  /\ disturbed \cup stranded \subseteq Users

RequestsOK ==
  /\ req \in [Requests -> RequestState]
  /\ \A r \in Requests : Local(req[r], accounts, state, directory)
  /\ Alone

IInv == DataOK /\ RequestsOK /\ AlwaysOwned /\ NoLeftoverDirectory
------------------------------------------------------------------------------
(* A request that is over, or none at all, says nothing of its course.     *)
LEMMA SettledLocal ==
  ASSUME NEW A \in SUBSET Users, NEW S, NEW D, NEW q, Local(q, A, S, D)
  PROVE  /\ Local(Settled(q), A, S, D)
         /\ Ending(Settled(q)) => Settled(q) = q
<1> USE DEF Local, Stage, Known, Creating, Ending
<1>1. CASE q.step # "over"
  BY <1>1 DEF Settled
<1>2. CASE q.step = "over" /\ q.sent = {}
  BY <1>2 DEF Settled, NoRequest, RequestState
<1>3. CASE q.step = "over" /\ q.sent # {}
  <2> DEFINE p == [NoRequest EXCEPT !.op = q.op, !.course = q.course, !.step = "over",
                                    !.sent = q.sent, !.touched = q.touched]
  <2>1. Settled(q) = p
    BY <1>3 DEF Settled
  <2>2. /\ p.op = q.op /\ p.course = q.course /\ p.step = "over" /\ p.list = {}
        /\ p.known = {} /\ p.todo = {} /\ p.sent = q.sent /\ p.touched = q.touched
        /\ p \in RequestState
    BY DEF NoRequest, RequestState
  <2> HIDE DEF p
  <2> QED
    BY <1>3, <2>1, <2>2
<1> QED
  BY <1>1, <1>2, <1>3

(* What one request does not spoil for another: accounts are only added,   *)
(* and the course the other creates or drops is left alone.                *)
LEMMA OthersLocal ==
  ASSUME NEW A, NEW S, NEW D, NEW B, NEW T, NEW E, NEW q, Local(q, A, S, D), A \subseteq B,
         Creating(q) => T[q.course] = S[q.course],
         Ending(q) => (q.course \in E => q.course \in D)
  PROVE  Local(q, B, T, E)
BY DEF Local, Stage, Known, Creating, Ending

(* A step of the request r that leaves it q, and keeps what the others     *)
(* know of their courses.                                                  *)
Goes(r, q) ==
  /\ Step(r, q)
  /\ Local(q, accounts', state', directory')
  /\ accounts \subseteq accounts' /\ accounts' \subseteq Users
  /\ \A s \in Requests \ {r} :
       /\ Creating(req[s]) => state'[req[s].course] = state[req[s].course]
       /\ Ending(req[s]) => (req[s].course \in directory' => req[s].course \in directory)
       /\ Creating(q) /\ Ending(req[s]) => q.course # req[s].course
       /\ Ending(q) /\ Creating(req[s]) => q.course # req[s].course

LEMMA RequestsKept ==
  ASSUME RequestsOK, NEW r \in Requests, NEW q, Goes(r, q)
  PROVE  RequestsOK'
<1> DEFINE p == Settled(q)
<1>1. req' = [req EXCEPT ![r] = p] /\ req \in [Requests -> RequestState]
  BY DEF Goes, Step, RequestsOK
<1>2. Local(p, accounts', state', directory') /\ (Ending(p) => p = q)
  BY SettledLocal DEF Goes
<1> HIDE DEF p
<1>3. p \in RequestState
  BY <1>2 DEF Local
<1>4. ASSUME NEW s \in Requests \ {r}
      PROVE  Local(req[s], accounts', state', directory')
  <2>1. Local(req[s], accounts, state, directory)
    BY DEF RequestsOK
  <2> QED
    BY <2>1, OthersLocal DEF Goes
<1>5. \A s \in Requests : req'[s] = IF s = r THEN p ELSE req[s]
  BY <1>1
<1>6. req' \in [Requests -> RequestState]
  BY <1>1, <1>3
<1>7. \A s \in Requests : Local(req'[s], accounts', state', directory')
  BY <1>2, <1>4, <1>5
<1>8. Alone'
  <2>1. ASSUME NEW s \in Requests, NEW t \in Requests, s # t,
               Creating(req'[s]), Ending(req'[t])
        PROVE  req'[s].course # req'[t].course
    <3>1. CASE s = r
      <4>1. Creating(p) /\ p = q /\ Ending(req[t]) /\ req'[t] = req[t] /\ req'[s] = p
        BY <1>2, <1>5, <2>1, <3>1 DEF Ending
      <4> QED
        BY <2>1, <3>1, <4>1 DEF Goes
    <3>2. CASE t = r
      <4>1. Ending(p) /\ p = q /\ Creating(req[s]) /\ req'[s] = req[s] /\ req'[t] = p
        BY <1>2, <1>5, <2>1, <3>2
      <4> QED
        BY <2>1, <3>2, <4>1 DEF Goes
    <3>3. CASE s # r /\ t # r
      BY <1>5, <2>1, <3>3 DEF RequestsOK, Alone
    <3> QED
      BY <3>1, <3>2, <3>3
  <2> QED
    BY <2>1 DEF Alone, Creating, Ending
<1> QED
  BY <1>6, <1>7, <1>8 DEF RequestsOK

(* A step that leaves the courses, their owners and directories alone, and *)
(* begins neither to create nor to drop a course.                          *)
LEMMA Quiet ==
  ASSUME IInv, NEW r \in Requests, NEW q, Step(r, q),
         Local(q, accounts', state, directory),
         Ending(q) => q.step = req[r].step /\ q.course = req[r].course,
         accounts \subseteq accounts', UNCHANGED <<state, owners, directory>>, DataOK'
  PROVE  IInv'
<1>1. Goes(r, q)
  BY DEF Goes, IInv, RequestsOK, Alone, DataOK, Ending, Creating
<1>2. RequestsOK'
  BY <1>1, RequestsKept DEF IInv
<1> QED
  BY <1>2 DEF IInv, AlwaysOwned, NoLeftoverDirectory

(* A request may always go no further.                                     *)
LEMMA OverLocal ==
  ASSUME NEW A, NEW S, NEW D, NEW B, NEW T, NEW E, NEW p, Local(p, A, S, D), A \subseteq B,
         NEW sent, sent \subseteq p.sent
  PROVE  /\ Local([p EXCEPT !.step = "over", !.sent = sent], B, T, E)
         /\ Local([p EXCEPT !.step = "over"], B, T, E)
         /\ ~Ending([p EXCEPT !.step = "over"])
         /\ ~Ending([p EXCEPT !.step = "over", !.sent = sent])
<1>1. p \in RequestState
  BY DEF Local
<1>2. ASSUME NEW new \in SUBSET p.sent, NEW q, q = [p EXCEPT !.step = "over", !.sent = new]
      PROVE  Local(q, B, T, E) /\ ~Ending(q)
  <2>1. /\ q.op = p.op /\ q.course = p.course /\ q.step = "over" /\ q.list = p.list
        /\ q.known = p.known /\ q.todo = p.todo /\ q.sent = new /\ q.touched = p.touched
        /\ q \in RequestState
    BY <1>1, <1>2 DEF RequestState
  <2> QED
    BY <2>1 DEF Local, Stage, Known, Creating, Ending
<1>3. [p EXCEPT !.step = "over"] = [p EXCEPT !.step = "over", !.sent = p.sent]
  BY <1>1 DEF RequestState
<1> QED
  BY <1>2, <1>3

LEMMA Found ==
  ASSUME IInv, NEW r \in Requests
  PROVE  /\ req[r] \in RequestState /\ Stage(req[r], accounts)
         /\ Known(req[r], state, directory)
         /\ Local(req[r], accounts, state, directory)
BY DEF IInv, RequestsOK, Local
------------------------------------------------------------------------------
(* One lemma for each action *)

LEMMA OfAddOwned ==
  ASSUME IInv, NEW r \in Requests, NEW u \in Users, AddOwned(r, u)
  PROVE  IInv'
<1> DEFINE q == [req[r] EXCEPT !.sent = @ \ {u}]
<1>1. /\ q.op = req[r].op /\ q.course = req[r].course /\ q.step = req[r].step
      /\ q.list = req[r].list /\ q.known = req[r].known /\ q.todo = req[r].todo
      /\ q.sent = req[r].sent \ {u} /\ q.touched = req[r].touched /\ q \in RequestState
  BY Found DEF RequestState
<1>2. Step(r, q) /\ u \in req[r].sent /\ owned' = [owned EXCEPT ![u] = @ \cup {req[r].course}]
  BY DEF AddOwned
<1>3. UNCHANGED <<mailer, accounts, state, owners, directory, disturbed, stranded>>
  BY DEF AddOwned
<1> HIDE DEF q
<1>4. Local(q, accounts', state, directory)
  BY <1>1, <1>2, <1>3, Found DEF Local, Stage, Known, Creating
<1>5. DataOK'
  BY <1>2, <1>3, Found DEF IInv, DataOK, Stage
<1> QED
  BY <1>1, <1>2, <1>3, <1>4, <1>5, Quiet

LEMMA OfAddOwnedFails ==
  ASSUME IInv, NEW r \in Requests, NEW u \in Users, AddOwnedFails(r, u)
  PROVE  IInv'
<1> DEFINE q == [req[r] EXCEPT !.sent = @ \ {u}]
<1>1. /\ q.op = req[r].op /\ q.course = req[r].course /\ q.step = req[r].step
      /\ q.list = req[r].list /\ q.known = req[r].known /\ q.todo = req[r].todo
      /\ q.sent = req[r].sent \ {u} /\ q.touched = req[r].touched /\ q \in RequestState
  BY Found DEF RequestState
<1>2. Step(r, q) /\ u \in req[r].sent /\ disturbed' = disturbed \cup {u}
  BY DEF AddOwnedFails
<1>3. UNCHANGED <<mailer, accounts, owned, state, owners, directory, stranded>>
  BY DEF AddOwnedFails, data
<1> HIDE DEF q
<1>4. Local(q, accounts', state, directory)
  BY <1>1, <1>2, <1>3, Found DEF Local, Stage, Known, Creating
<1>5. DataOK'
  BY <1>2, <1>3 DEF IInv, DataOK
<1> QED
  BY <1>1, <1>2, <1>3, <1>4, <1>5, Quiet

LEMMA OfNewOwner ==
  ASSUME IInv, NEW r \in Requests, NEW u \in Users, NewOwner(r, u)
  PROVE  IInv'
<1> DEFINE q == [req[r] EXCEPT !.todo = @ \ {u}]
<1>1. /\ q.op = req[r].op /\ q.course = req[r].course /\ q.step = req[r].step
      /\ q.list = req[r].list /\ q.known = req[r].known /\ q.todo = req[r].todo \ {u}
      /\ q.sent = req[r].sent /\ q.touched = req[r].touched /\ q \in RequestState
  BY Found DEF RequestState
<1>2. /\ Step(r, q) /\ req[r].step = "new" /\ u \notin accounts
      /\ accounts' = accounts \cup {u} /\ owned' = [owned EXCEPT ![u] = {req[r].course}]
  BY DEF NewOwner
<1>3. UNCHANGED <<mailer, state, owners, directory, disturbed, stranded>>
  BY DEF NewOwner
<1> HIDE DEF q
<1>4. Local(q, accounts', state, directory)
  BY <1>1, <1>2, <1>3, Found DEF Local, Stage, Known, Creating
<1>5. DataOK'
  <2>1. req[r].course \in Courses
    BY <1>2, Found DEF Stage
  <2>2. /\ owned' \in [Users -> SUBSET Courses]
        /\ \A v \in Users \ accounts' : owned'[v] = {}
    BY <1>2, <2>1 DEF IInv, DataOK
  <2> QED
    BY <1>2, <1>3, <2>2 DEF IInv, DataOK
<1> QED
  BY <1>1, <1>2, <1>3, <1>4, <1>5, Quiet

LEMMA OfRemoveOwned ==
  ASSUME IInv, NEW r \in Requests, NEW u \in Users, RemoveOwned(r, u)
  PROVE  IInv'
<1> DEFINE q == [req[r] EXCEPT !.todo = @ \ {u}]
<1>1. /\ q.op = req[r].op /\ q.course = req[r].course /\ q.step = req[r].step
      /\ q.list = req[r].list /\ q.known = req[r].known /\ q.todo = req[r].todo \ {u}
      /\ q.sent = req[r].sent /\ q.touched = req[r].touched /\ q \in RequestState
      /\ req[r].read \in [Users -> SUBSET Courses]
  BY Found DEF RequestState
<1>2. /\ Step(r, q) /\ req[r].step = "remove" /\ u \in req[r].todo
      /\ owned' = [owned EXCEPT ![u] = req[r].read[u] \ {req[r].course}]
  BY DEF RemoveOwned
<1>3. UNCHANGED <<mailer, accounts, state, owners, directory, disturbed, stranded>>
  BY DEF RemoveOwned
<1> HIDE DEF q
<1>4. Local(q, accounts', state, directory)
  BY <1>1, <1>2, <1>3, Found DEF Local, Stage, Known, Creating
<1>5. DataOK'
  <2>1. u \in accounts
    BY <1>2, Found DEF Stage
  <2>2. /\ owned' \in [Users -> SUBSET Courses]
        /\ \A v \in Users \ accounts : owned'[v] = {}
    BY <1>1, <1>2, <2>1 DEF IInv, DataOK
  <2> QED
    BY <1>2, <1>3, <2>2 DEF IInv, DataOK
<1> QED
  BY <1>1, <1>2, <1>3, <1>4, <1>5, Quiet

(* A request that goes no further, of an action that changes at most whom  *)
(* the exceptions name.                                                    *)
LEMMA Ends ==
  ASSUME IInv, NEW r \in Requests, Goto(r, "over") \/ Fail(r), accounts' = accounts, DataOK',
         UNCHANGED <<state, owners, directory>>
  PROVE  IInv'
<1> DEFINE sent == IF req[r].op = "update" THEN req[r].sent ELSE {}
           p == [req[r] EXCEPT !.step = "over"]
           q == [req[r] EXCEPT !.step = "over", !.sent = sent]
<1>1. Local(p, accounts', state, directory) /\ Local(q, accounts', state, directory)
  BY Found, OverLocal
<1>2. ~Ending(p) /\ ~Ending(q)
  BY Found, OverLocal
<1>3. Step(r, p) \/ Step(r, q)
  <2>1. q = [req[r] EXCEPT !.step = "over",
                           !.sent = IF req[r].op = "update" THEN @ ELSE {}]
    BY Found DEF RequestState
  <2> QED
    BY <2>1 DEF Goto, Fail
<1> HIDE DEF p, q
<1> QED
  BY <1>1, <1>2, <1>3, Quiet

LEMMA OfFailures ==
  ASSUME IInv, NEW r \in Requests, RequestFails(r) \/ MakeDirectoryFails(r)
  PROVE  IInv'
<1>1. Goto(r, "over") \/ Fail(r)
  BY DEF RequestFails, MakeDirectoryFails
<1>2. /\ UNCHANGED <<mailer, accounts, owned, state, owners, directory, stranded>>
      /\ disturbed' \in {disturbed, disturbed \cup req[r].touched}
  BY DEF RequestFails, MakeDirectoryFails, data
<1>3. req[r].touched \subseteq Users
  BY Found DEF RequestState
<1>4. DataOK'
  BY <1>2, <1>3 DEF IInv, DataOK
<1> QED
  BY <1>1, <1>2, <1>4, Ends

(* A request that starts; nobody else works on a course it creates.        *)
LEMMA Starts ==
  ASSUME IInv, NEW r \in Requests, NEW q, Start(r, q), q.step # "over",
         Local(q, accounts, state, directory),
         Ending(q) => \A s \in Requests : req[s].course # q.course
  PROVE  IInv'
<1>1. /\ req' = [req EXCEPT ![r] = q] /\ disturbed' = disturbed \cup Conflicts(q)
      /\ UNCHANGED <<mailer, accounts, owned, state, owners, directory, stranded>>
  BY DEF Start, data
<1>2. Step(r, q)
  BY <1>1 DEF Step, Settled
<1>3. accounts' \subseteq Users
  BY <1>1 DEF IInv, DataOK
<1>4. Goes(r, q)
  BY <1>1, <1>2, <1>3 DEF Goes, Ending, Creating
<1>5. Conflicts(q) \subseteq Users
  <2>1. q.touched \subseteq Users /\ \A s \in Requests : req[s].touched \subseteq Users
    BY DEF Local, IInv, RequestsOK, RequestState
  <2>2. ASSUME NEW s \in Requests
        PROVE  (IF q.course # "none" /\ q.course = req[s].course
                THEN q.touched \cup req[s].touched
                ELSE q.touched \cap req[s].touched) \subseteq Users
    BY <2>1
  <2> QED
    BY <2>2 DEF Conflicts
<1>6. DataOK'
  BY <1>1, <1>5 DEF IInv, DataOK
<1>7. RequestsOK'
  BY <1>4, RequestsKept DEF IInv
<1> QED
  BY <1>1, <1>6, <1>7 DEF IInv, AlwaysOwned, NoLeftoverDirectory

(* A request that starts has read the lists of courses.                    *)
LEMMA ReadLists ==
  ASSUME IInv, NEW touched
  PROVE  ReadOf(touched) \in [Users -> SUBSET Courses]
BY DEF IInv, DataOK, ReadOf

LEMMA OfFindForCreate ==
  ASSUME IInv, NEW r \in Requests, NEW c \in Courses, NEW list \in SUBSET Users,
         FindForCreate(r, c, list)
  PROVE  IInv'
<1> DEFINE q == Request("create", c, "save", list, list)
<1>1. /\ q \in RequestState /\ q.op = "create" /\ q.course = c /\ q.step = "save"
      /\ q.list = list /\ q.known = list \cap accounts /\ q.todo = {}
      /\ q.sent = {} /\ q.touched = list
  BY ReadLists DEF Request, RequestState
<1>2. Start(r, q) /\ state[c] = "new" /\ \A s \in Requests : req[s].course # c
  BY DEF FindForCreate
<1> HIDE DEF q
<1>3. Local(q, accounts, state, directory)
  BY <1>1, <1>2 DEF Local, Stage, Known, Creating
<1> QED
  BY <1>1, <1>2, <1>3, Starts

LEMMA OfFindForUpdate ==
  ASSUME IInv, NEW r \in Requests, NEW c \in Courses, NEW list \in SUBSET Users,
         FindForUpdate(r, c, list)
  PROVE  IInv'
<1> DEFINE touched == owners[c] \cup list
           p == Request("update", c, "remove", list, touched)
           q == [p EXCEPT !.todo = owners[c] \ list]
<1>1. owners[c] \subseteq accounts /\ accounts \subseteq Users
  BY DEF IInv, DataOK
<1>2. /\ p \in RequestState /\ p.op = "update" /\ p.course = c /\ p.step = "remove"
      /\ p.list = list /\ p.known = list \cap accounts /\ p.sent = {} /\ p.touched = touched
  BY <1>1, ReadLists DEF Request, RequestState
<1>3. Start(r, q)
  BY DEF FindForUpdate
<1> HIDE DEF p
<1>4. /\ q \in RequestState /\ q.op = "update" /\ q.course = c /\ q.step = "remove"
      /\ q.list = list /\ q.known = list \cap accounts /\ q.todo = owners[c] \ list
      /\ q.sent = {} /\ q.touched = touched
  BY <1>1, <1>2 DEF RequestState
<1> HIDE DEF q
<1>5. Local(q, accounts, state, directory) /\ ~Ending(q)
  BY <1>1, <1>4 DEF Local, Stage, Known, Creating, Ending
<1> QED
  BY <1>3, <1>4, <1>5, Starts

LEMMA OfFindForDelete ==
  ASSUME IInv, NEW r \in Requests, NEW c \in Courses, FindForDelete(r, c)
  PROVE  IInv'
<1> DEFINE q == Request("delete", c, "find", {}, owners[c])
<1>1. owners[c] \subseteq accounts /\ accounts \subseteq Users
  BY DEF IInv, DataOK
<1>2. /\ q \in RequestState /\ q.op = "delete" /\ q.course = c /\ q.step = "find"
      /\ q.list = {} /\ q.known = {} /\ q.todo = {} /\ q.sent = {} /\ q.touched = owners[c]
  BY <1>1, ReadLists DEF Request, RequestState
<1>3. Start(r, q)
  BY DEF FindForDelete
<1> HIDE DEF q
<1>4. Local(q, accounts, state, directory) /\ ~Ending(q)
  BY <1>1, <1>2 DEF Local, Stage, Known, Creating, Ending
<1> QED
  BY <1>2, <1>3, <1>4, Starts

LEMMA OfFindForSanitize ==
  ASSUME IInv, NEW r \in Requests, NEW u \in Users, FindForSanitize(r, u)
  PROVE  IInv'
<1> DEFINE p == Request("sanitize", "none", "check", {}, {u})
           q == [p EXCEPT !.check = owned[u]]
<1>1. u \in accounts /\ owned[u] \subseteq Courses
  BY DEF IInv, DataOK, FindForSanitize
<1>2. /\ p \in RequestState /\ p.op = "sanitize" /\ p.step = "check"
      /\ p.list = {} /\ p.known = {} /\ p.todo = {} /\ p.sent = {} /\ p.touched = {u}
  BY ReadLists DEF Request, RequestState
<1>3. Start(r, q)
  BY DEF FindForSanitize
<1> HIDE DEF p
<1>4. /\ q \in RequestState /\ q.op = "sanitize" /\ q.step = "check"
      /\ q.list = {} /\ q.known = {} /\ q.todo = {} /\ q.sent = {} /\ q.touched = {u}
  BY <1>1, <1>2 DEF RequestState
<1> HIDE DEF q
<1>5. Local(q, accounts, state, directory) /\ ~Ending(q)
  BY <1>1, <1>4 DEF Local, Stage, Known, Creating, Ending
<1> QED
  BY <1>3, <1>4, <1>5, Starts

LEMMA OfAddOwners ==
  ASSUME IInv, NEW r \in Requests, AddOwners(r)
  PROVE  IInv'
<1> DEFINE sent == {u \in req[r].known : req[r].course \notin req[r].read[u]}
           todo == req[r].list \ req[r].known
           q == [req[r] EXCEPT !.step = "new", !.todo = todo, !.sent = sent]
<1>1. /\ req[r].op = "update" /\ UNCHANGED <<mailer, accounts, owned, state, owners, directory>>
      /\ disturbed' = disturbed
  BY DEF AddOwners, At, data
<1>2. CASE req[r].known = {}
  <2>1. Goto(r, "over") /\ stranded' = stranded \cup req[r].touched
    BY <1>2 DEF AddOwners
  <2>2. req[r].touched \subseteq Users
    BY Found DEF RequestState
  <2>3. DataOK'
    BY <1>1, <2>1, <2>2 DEF IInv, DataOK
  <2> QED
    BY <1>1, <2>1, <2>3, Ends
<1>3. CASE req[r].known # {}
  <2>1. Step(r, q) /\ stranded' = stranded
    BY <1>3 DEF AddOwners
  <2>2. sent \subseteq req[r].known /\ todo \subseteq req[r].list
    OBVIOUS
  <2>3. sent \in SUBSET Users /\ todo \in SUBSET Users
    BY <2>2, Found DEF RequestState
  <2>4. req[r].list \subseteq accounts \cup todo
    BY Found DEF Stage
  <2> HIDE DEF sent, todo
  <2>5. /\ q.op = req[r].op /\ q.course = req[r].course /\ q.step = "new"
        /\ q.list = req[r].list /\ q.known = req[r].known /\ q.todo = todo
        /\ q.sent = sent /\ q.touched = req[r].touched /\ q \in RequestState
    BY <2>3, Found DEF RequestState
  <2> HIDE DEF q
  <2>6. Local(q, accounts', state, directory) /\ ~Ending(q)
    BY <1>1, <1>3, <2>2, <2>4, <2>5, Found DEF Local, Stage, Known, Creating, Ending
  <2>7. DataOK'
    BY <1>1, <2>1 DEF IInv, DataOK
  <2> QED
    BY <1>1, <2>1, <2>6, <2>7, Quiet
<1> QED
  BY <1>2, <1>3

LEMMA OfFindOwners ==
  ASSUME IInv, NEW r \in Requests, FindOwners(r)
  PROVE  IInv'
<1> DEFINE read == ReadOf(req[r].touched)
           q == [req[r] EXCEPT !.step = "remove", !.todo = req[r].touched, !.read = read]
<1>1. /\ req[r].op = "delete" /\ Step(r, q)
      /\ UNCHANGED <<mailer, accounts, owned, state, owners, directory, disturbed, stranded>>
  BY DEF FindOwners, At, data
<1>2. read \in [Users -> SUBSET Courses]
  BY ReadLists
<1> HIDE DEF read
<1>3. /\ q.op = req[r].op /\ q.course = req[r].course /\ q.step = "remove"
      /\ q.list = req[r].list /\ q.known = req[r].known /\ q.todo = req[r].touched
      /\ q.sent = req[r].sent /\ q.touched = req[r].touched /\ q \in RequestState
  BY <1>2, Found DEF RequestState
<1> HIDE DEF q
<1>4. Local(q, accounts', state, directory) /\ ~Ending(q)
  BY <1>1, <1>3, Found DEF Local, Stage, Known, Creating, Ending
<1>5. DataOK'
  BY <1>1 DEF IInv, DataOK
<1> QED
  BY <1>1, <1>4, <1>5, Quiet

LEMMA OfCheckCourse ==
  ASSUME IInv, NEW r \in Requests, NEW c \in Courses, CheckCourse(r, c)
  PROVE  IInv'
<1> DEFINE check == req[r].check \ {c}
           read == IF state[c] = "exists" THEN req[r].read
                   ELSE [u \in Users |-> req[r].read[u] \ {c}]
           todo == IF state[c] = "exists" THEN req[r].todo ELSE req[r].touched
           q == [req[r] EXCEPT !.check = check, !.read = read, !.todo = todo]
<1>1. req[r].op = "sanitize" /\ req[r].step = "check"
  BY DEF CheckCourse, At
<1>2. UNCHANGED <<mailer, accounts, owned, state, owners, directory, disturbed, stranded>>
  BY DEF CheckCourse, data
<1>3. Step(r, q)
  <2>1. q = [req[r] EXCEPT !.check = @ \ {c},
       !.read = IF state[c] = "exists" THEN @ ELSE [u \in Users |-> @[u] \ {c}],
       !.todo = IF state[c] = "exists" THEN @ ELSE req[r].touched]
    BY Found DEF RequestState
  <2> QED
    BY <2>1 DEF CheckCourse
<1>4. read \in [Users -> SUBSET Courses] /\ todo \in SUBSET Users /\ check \in SUBSET Courses
  BY Found DEF RequestState
<1>5. todo \subseteq req[r].touched
  BY Found DEF Stage
<1> HIDE DEF check, read, todo
<1>6. /\ q.op = req[r].op /\ q.course = req[r].course /\ q.step = req[r].step
      /\ q.list = req[r].list /\ q.known = req[r].known /\ q.todo = todo
      /\ q.sent = req[r].sent /\ q.touched = req[r].touched /\ q \in RequestState
  BY <1>4, Found DEF RequestState
<1> HIDE DEF q
<1>7. Local(q, accounts', state, directory) /\ ~Ending(q)
  BY <1>1, <1>2, <1>5, <1>6, Found DEF Local, Stage, Known, Creating, Ending
<1>8. DataOK'
  BY <1>2 DEF IInv, DataOK
<1> QED
  BY <1>2, <1>3, <1>7, <1>8, Quiet

LEMMA OfSanitize ==
  ASSUME IInv, NEW r \in Requests, Sanitize(r)
  PROVE  IInv'
<1>1. /\ req[r].op = "sanitize" /\ Goto(r, "over")
      /\ owned' = [u \in Users |-> IF u \in req[r].todo THEN req[r].read[u] ELSE owned[u]]
      /\ UNCHANGED <<mailer, accounts, state, owners, directory, disturbed, stranded>>
  BY DEF Sanitize, At
<1>2. req[r].todo \subseteq accounts /\ req[r].read \in [Users -> SUBSET Courses]
  BY <1>1, Found DEF Stage, RequestState
<1>3. DataOK'
  BY <1>1, <1>2 DEF IInv, DataOK
<1> QED
  BY <1>1, <1>3, Ends

LEMMA OfListOwners ==
  ASSUME IInv, NEW r \in Requests, ListOwners(r)
  PROVE  IInv'
<1> DEFINE p == [req[r] EXCEPT !.step = "over"]
<1>1. /\ req[r].step = "new" /\ req[r].todo = {} /\ Step(r, p)
      /\ owners' = IF state[req[r].course] = "exists"
                   THEN [owners EXCEPT ![req[r].course] = req[r].list] ELSE owners
      /\ UNCHANGED <<mailer, accounts, owned, state, directory, disturbed, stranded>>
  BY DEF ListOwners, Goto
<1>2. req[r].list \subseteq accounts /\ req[r].list # {} /\ req[r].course \in Courses
  BY <1>1, Found DEF Stage
<1>3. Local(p, accounts', state', directory') /\ ~Ending(p)
  BY <1>1, Found, OverLocal
<1> HIDE DEF p
<1>4. Goes(r, p)
  BY <1>1, <1>3 DEF Goes, Ending, IInv, DataOK
<1>5. DataOK'
  BY <1>1, <1>2 DEF IInv, DataOK
<1>6. AlwaysOwned' /\ NoLeftoverDirectory'
  BY <1>1, <1>2 DEF IInv, DataOK, AlwaysOwned, NoLeftoverDirectory
<1> QED
  BY <1>4, <1>5, <1>6, RequestsKept DEF IInv

LEMMA OfSaveCourse ==
  ASSUME IInv, NEW r \in Requests, SaveCourse(r)
  PROVE  IInv'
<1> DEFINE q == [req[r] EXCEPT !.step = "add", !.sent = req[r].known]
           c == req[r].course
<1>1. /\ req[r].op = "create" /\ req[r].step = "save"
      /\ UNCHANGED <<mailer, accounts, owned, directory, disturbed, stranded>>
  BY DEF SaveCourse, At
<1>2. CASE req[r].known = {}
  <2>1. Goto(r, "over") /\ UNCHANGED <<state, owners>>
    BY <1>2 DEF SaveCourse
  <2>2. DataOK'
    BY <1>1, <2>1 DEF IInv, DataOK
  <2> QED
    BY <1>1, <2>1, <2>2, Ends
<1>3. CASE req[r].known # {}
  <2>1. /\ Step(r, q) /\ state' = [state EXCEPT ![c] = "exists"]
        /\ owners' = [owners EXCEPT ![c] = req[r].known]
    BY <1>3 DEF SaveCourse
  <2>2. c \in Courses /\ state[c] = "new" /\ req[r].known \subseteq accounts
    BY <1>1, Found DEF Stage, Known
  <2>3. c \notin directory
    BY <2>2 DEF IInv, NoLeftoverDirectory
  <2>4. state'[c] = "exists"
    BY <2>1, <2>2 DEF IInv, DataOK
  <2>5. /\ q.op = req[r].op /\ q.course = c /\ q.step = "add"
        /\ q.list = req[r].list /\ q.known = req[r].known /\ q.todo = req[r].todo
        /\ q.sent = req[r].known /\ q.touched = req[r].touched /\ q \in RequestState
    BY Found DEF RequestState
  <2> HIDE DEF q
  <2>6. Local(q, accounts', state', directory')
    BY <1>1, <1>3, <2>2, <2>3, <2>4, <2>5, Found DEF Local, Stage, Known, Creating
  <2>7. \A s \in Requests \ {r} : Ending(req[s]) => req[s].course # c
    BY <1>1 DEF IInv, RequestsOK, Alone, Creating
  <2>8. Goes(r, q)
    BY <1>1, <2>1, <2>2, <2>5, <2>6, <2>7 DEF Goes, Ending, IInv, DataOK
  <2>9. DataOK'
    BY <1>1, <2>1, <2>2 DEF IInv, DataOK
  <2>10. AlwaysOwned' /\ NoLeftoverDirectory'
    BY <1>1, <1>3, <2>1, <2>2 DEF IInv, DataOK, AlwaysOwned, NoLeftoverDirectory
  <2> QED
    BY <2>8, <2>9, <2>10, RequestsKept DEF IInv
<1> QED
  BY <1>2, <1>3

LEMMA OfMakeDirectory ==
  ASSUME IInv, NEW r \in Requests, MakeDirectory(r)
  PROVE  IInv'
<1> DEFINE todo == req[r].list \ req[r].known
           q == [req[r] EXCEPT !.step = "new", !.todo = todo]
           c == req[r].course
<1>1. /\ req[r].op = "create" /\ req[r].step = "add" /\ Step(r, q)
      /\ directory' = directory \cup {c}
      /\ UNCHANGED <<mailer, accounts, owned, state, owners, disturbed, stranded>>
  BY DEF MakeDirectory, At
<1>2. c \in Courses /\ state[c] = "exists" /\ req[r].known # {} /\ req[r].known \subseteq accounts
  BY <1>1, Found DEF Stage, Known
<1>3. todo \in SUBSET Users /\ todo \subseteq req[r].list /\ req[r].list \subseteq accounts \cup todo
  BY <1>2, Found DEF RequestState
<1> HIDE DEF todo
<1>4. /\ q.op = req[r].op /\ q.course = c /\ q.step = "new"
      /\ q.list = req[r].list /\ q.known = req[r].known /\ q.todo = todo
      /\ q.sent = req[r].sent /\ q.touched = req[r].touched /\ q \in RequestState
  BY <1>3, Found DEF RequestState
<1> HIDE DEF q
<1>5. Local(q, accounts', state', directory') /\ ~Ending(q)
  BY <1>1, <1>2, <1>3, <1>4, Found DEF Local, Stage, Known, Creating, Ending
<1>6. \A s \in Requests \ {r} : Ending(req[s]) => req[s].course # c
  BY <1>1 DEF IInv, RequestsOK, Alone, Creating
<1>7. Goes(r, q)
  BY <1>1, <1>5, <1>6 DEF Goes, Ending, IInv, DataOK
<1>8. DataOK'
  BY <1>1, <1>2 DEF IInv, DataOK
<1>9. AlwaysOwned' /\ NoLeftoverDirectory'
  BY <1>1, <1>2 DEF IInv, AlwaysOwned, NoLeftoverDirectory
<1> QED
  BY <1>7, <1>8, <1>9, RequestsKept DEF IInv

LEMMA OfRemoveDirectory ==
  ASSUME IInv, NEW r \in Requests, RemoveDirectory(r)
  PROVE  IInv'
<1> DEFINE q == [req[r] EXCEPT !.step = "drop"]
           c == req[r].course
<1>1. /\ req[r].op = "delete" /\ Step(r, q)
      /\ c \in directory /\ directory' = directory \ {c}
      /\ UNCHANGED <<mailer, accounts, owned, state, owners, disturbed, stranded>>
  BY DEF RemoveDirectory, At, Goto
<1>2. /\ q.op = req[r].op /\ q.course = c /\ q.step = "drop"
      /\ q.list = req[r].list /\ q.known = req[r].known /\ q.todo = req[r].todo
      /\ q.sent = req[r].sent /\ q.touched = req[r].touched /\ q \in RequestState
  BY Found DEF RequestState
<1> HIDE DEF q
<1>3. Local(q, accounts', state', directory') /\ ~Creating(q)
  BY <1>1, <1>2, Found DEF Local, Stage, Known, Creating
<1>4. \A s \in Requests : Creating(req[s]) => req[s].course # c
  <2>1. state[c] = "exists"
    BY <1>1 DEF IInv, NoLeftoverDirectory
  <2> QED
    BY <1>1, <2>1, Found DEF Known, Creating
<1>5. Goes(r, q)
  BY <1>1, <1>2, <1>3, <1>4 DEF Goes, Ending, IInv, DataOK
<1>6. DataOK'
  BY <1>1 DEF IInv, DataOK
<1>7. AlwaysOwned' /\ NoLeftoverDirectory'
  BY <1>1 DEF IInv, AlwaysOwned, NoLeftoverDirectory
<1> QED
  BY <1>5, <1>6, <1>7, RequestsKept DEF IInv

LEMMA OfRemoveCourse ==
  ASSUME IInv, NEW r \in Requests, RemoveCourse(r)
  PROVE  IInv'
<1> DEFINE p == [req[r] EXCEPT !.step = "over"]
           c == req[r].course
<1>1. /\ req[r].op = "delete" /\ req[r].step = "drop" /\ Step(r, p)
      /\ state' = [state EXCEPT ![c] = "deleted"] /\ owners' = [owners EXCEPT ![c] = {}]
      /\ UNCHANGED <<mailer, accounts, owned, directory, disturbed, stranded>>
  BY DEF RemoveCourse, At, Goto
<1>2. c \in Courses /\ c \notin directory
  BY <1>1, Found DEF Stage, Known
<1>3. Local(p, accounts', state', directory') /\ ~Ending(p)
  BY <1>1, Found, OverLocal
<1> HIDE DEF p
<1>4. \A s \in Requests \ {r} : Creating(req[s]) => req[s].course # c
  BY <1>1 DEF IInv, RequestsOK, Alone, Ending
<1>5. Goes(r, p)
  BY <1>1, <1>2, <1>3, <1>4 DEF Goes, Ending, IInv, DataOK
<1>6. DataOK'
  BY <1>1, <1>2 DEF IInv, DataOK
<1>7. AlwaysOwned' /\ NoLeftoverDirectory'
  BY <1>1, <1>2 DEF IInv, DataOK, AlwaysOwned, NoLeftoverDirectory
<1> QED
  BY <1>5, <1>6, <1>7, RequestsKept DEF IInv

LEMMA OfCreateUser ==
  ASSUME IInv, NEW u \in Users, CreateUser(u)
  PROVE  IInv'
<1>1. /\ accounts' = accounts \cup {u}
      /\ UNCHANGED <<mailer, owned, state, owners, directory, req, disturbed, stranded>>
  BY DEF CreateUser
<1>2. DataOK'
  BY <1>1 DEF IInv, DataOK
<1>3. \A s \in Requests : Local(req[s], accounts', state, directory)
  BY <1>1, Found, OthersLocal
<1>4. RequestsOK'
  BY <1>1, <1>3 DEF IInv, RequestsOK, Alone
<1> QED
  BY <1>1, <1>2, <1>4 DEF IInv, AlwaysOwned, NoLeftoverDirectory
------------------------------------------------------------------------------
LEMMA InitIInv == Init => IInv
<1> SUFFICES ASSUME Init PROVE IInv
  OBVIOUS
<1>1. NoRequest \in RequestState
  BY DEF NoRequest, RequestState
<1>2. \A r \in Requests : Local(req[r], accounts, state, directory) /\ ~Creating(req[r])
  BY <1>1 DEF Init, Local, Stage, Known, Creating, NoRequest
<1>3. RequestsOK
  BY <1>1, <1>2 DEF Init, RequestsOK, Alone
<1> QED
  BY <1>3 DEF Init, IInv, DataOK, AlwaysOwned, NoLeftoverDirectory

LEMMA NextIInv == IInv /\ [Next]_vars => IInv'
<1> SUFFICES ASSUME IInv, [Next]_vars PROVE IInv'
  OBVIOUS
<1>1. CASE UNCHANGED vars
  BY <1>1 DEF vars, data, IInv, DataOK, RequestsOK, Alone, AlwaysOwned, NoLeftoverDirectory
<1>2. ASSUME NEW r \in Requests, NEW c \in Courses, NEW list \in SUBSET Users,
             FindForCreate(r, c, list) \/ FindForUpdate(r, c, list)
      PROVE  IInv'
  BY <1>2, OfFindForCreate, OfFindForUpdate
<1>3. ASSUME NEW r \in Requests, NEW c \in Courses, FindForDelete(r, c) \/ CheckCourse(r, c)
      PROVE  IInv'
  BY <1>3, OfFindForDelete, OfCheckCourse
<1>4. ASSUME NEW r \in Requests, NEW u \in Users,
             \/ FindForSanitize(r, u) \/ AddOwned(r, u) \/ AddOwnedFails(r, u)
             \/ NewOwner(r, u) \/ RemoveOwned(r, u)
      PROVE  IInv'
  BY <1>4, OfFindForSanitize, OfAddOwned, OfAddOwnedFails, OfNewOwner, OfRemoveOwned
<1>5. ASSUME NEW r \in Requests,
             \/ SaveCourse(r) \/ MakeDirectory(r) \/ MakeDirectoryFails(r) \/ ListOwners(r)
             \/ AddOwners(r) \/ FindOwners(r) \/ RemoveDirectory(r) \/ RemoveCourse(r)
             \/ Sanitize(r) \/ RequestFails(r)
      PROVE  IInv'
  BY <1>5, OfSaveCourse, OfMakeDirectory, OfFailures, OfListOwners, OfAddOwners,
     OfFindOwners, OfRemoveDirectory, OfRemoveCourse, OfSanitize
<1>6. ASSUME NEW u \in Users, CreateUser(u)
      PROVE  IInv'
  BY <1>6, OfCreateUser
<1> QED
  BY <1>1, <1>2, <1>3, <1>4, <1>5, <1>6 DEF Next

LEMMA Invariance == Spec => []IInv
<1> QED
  BY InitIInv, NextIInv, PTL DEF Spec

(* Every variable keeps its type: only users with an account own a course  *)
(* or are listed as its owners, and a request saves only users it works on *)
(* (models/namespace.js 82-106, models/user.js).                           *)
THEOREM CourseTypes == Spec => []TypeOK
<1>1. IInv => TypeOK
  BY DEF IInv, DataOK, RequestsOK, Local, Stage, TypeOK
<1> QED
  BY <1>1, Invariance, PTL

(* A course always has an owner, whatever overlaps and fails               *)
(* (models/namespace.js 108-116, namespaces.js 523).                       *)
THEOREM CoursesOwned == Spec => []AlwaysOwned
<1>1. IInv => AlwaysOwned
  BY DEF IInv
<1> QED
  BY <1>1, Invariance, PTL

(* A course that is gone leaves no directory (namespaces.js 410-412).      *)
THEOREM DirectoriesGone == Spec => []NoLeftoverDirectory
<1>1. IInv => NoLeftoverDirectory
  BY DEF IInv
<1> QED
  BY <1>1, Invariance, PTL
------------------------------------------------------------------------------
(***************************************************************************)
(* The two lists agree.  Of a user nobody has disturbed, they do for every *)
(* course that no request is working on for that user; and a request that  *)
(* works on the user knows at each step how far its course has come in the *)
(* user's list.  Requests that work on the same undisturbed user create    *)
(* courses, and different ones.                                            *)
(***************************************************************************)
Works(r, u) == Busy(r) /\ u \in req[r].touched

(* The steps of each kind of request, and when saves may be under way.     *)
Shape(q) ==
  /\ q.op = "none" => q = NoRequest
  /\ q.op = "create" => q.step \in {"save", "add", "new"} /\ (q.step # "add" => q.sent = {})
  /\ q.op = "update" => q.step \in {"remove", "new", "over"} /\ (q.step = "remove" => q.sent = {})
  /\ q.op = "delete" => q.step \in {"find", "remove", "drop"} /\ q.sent = {}
  /\ q.op = "sanitize" => q.step = "check" /\ q.course = "none" /\ q.sent = {}

(* How far the request q has come with the user u, who owns the courses    *)
(* own; S is the state of the courses, O their owners.                     *)
Phase(q, u, own, S, O) ==
  LET c == q.course IN
  /\ q.op = "create" /\ q.step = "save" => c \notin own
  /\ q.op = "create" /\ q.step = "add" =>
       /\ S[c] = "exists" /\ O[c] = q.known
       /\ u \in q.sent => u \in q.known
       /\ c \in own <=> u \in q.known \ q.sent
  /\ q.op = "create" /\ q.step = "new" =>
       /\ S[c] = "exists"
       /\ u \in q.todo => u \in q.list
       /\ c \in own <=> u \in q.list \ q.todo
  /\ q.op = "update" => S[c] = "exists"
  /\ q.op = "update" /\ q.step = "remove" =>
       /\ u \in q.todo \cup q.known => q.read[u] = own
       /\ u \notin q.todo \cup q.list => c \notin own
       /\ u \in q.list => u \notin q.todo /\ (c \in own => u \in O[c] /\ u \in q.known)
  /\ q.op = "update" /\ q.step = "new" =>
       /\ u \in q.todo => u \in q.list
       /\ u \in q.sent => u \in q.list \ q.todo
       /\ c \in own <=> u \in q.list \ (q.todo \cup q.sent)
  /\ q.op = "update" /\ q.step = "over" =>
       /\ u \in q.sent => u \in O[c]
       /\ c \in own <=> u \in O[c] \ q.sent
  /\ q.op = "delete" /\ q.step = "remove" =>
       /\ u \in q.todo => q.read[u] = own
       /\ u \notin q.todo => c \notin own
  /\ q.op = "delete" /\ q.step = "drop" => c \notin own
  /\ q.op = "sanitize" => u \notin q.todo /\ q.check \subseteq own

(* The lists agree, apart from the users T.                                *)
Agree(u, c, own, S, O, T) ==
  /\ c \in own => S[c] = "exists" /\ u \in O[c]
  /\ u \in O[c] \ T => c \in own
Agrees(u, c) == Agree(u, c, owned[u], state, owners, stranded)

Shapes == \A r \in Requests : Shape(req[r])
Apart ==
  \A u \in Users \ disturbed : \A r, s \in Requests :
    r # s /\ Works(r, u) =>
      /\ Works(s, u) => req[r].op = "create" /\ req[s].op = "create"
      /\ req[r].course # "none" => req[s].course # req[r].course
Covered ==
  \A r \in Requests :
    req[r].course # "none" => owners[req[r].course] \ disturbed \subseteq req[r].touched
Listed == \A c \in Courses : owners[c] # {} => state[c] = "exists"
Phases ==
  \A u \in Users \ disturbed : \A r \in Requests :
    Works(r, u) => Phase(req[r], u, owned[u], state, owners)
Agreed ==
  \A u \in Users \ disturbed : \A c \in Courses :
    (\A r \in Requests : Works(r, u) => req[r].course # c) => Agrees(u, c)

Tidy == Shapes /\ Apart /\ Covered /\ Listed /\ Phases /\ Agreed

(* A request that has started, and what it finds.                          *)
Begins(r, q) ==
  /\ Start(r, q) /\ Shape(q) /\ q.op # "none"
  /\ q.op = "create" => \A s \in Requests : req[s].course # q.course
  /\ q.course # "none" => q.course \in Courses /\ owners[q.course] \subseteq q.touched

LEMMA BeginsApart ==
  ASSUME IInv, Tidy, NEW r \in Requests, NEW q, Begins(r, q),
         NEW u \in Users, u \notin disturbed', NEW s \in Requests \ {r}, Busy(s)
  PROVE  /\ u \in q.touched /\ u \in req[s].touched =>
              q.op = "create" /\ req[s].op = "create"
         /\ u \in q.touched \cup req[s].touched =>
              q.course = "none" \/ req[s].course # q.course
<1>1. disturbed' = disturbed \cup Conflicts(q)
  BY DEF Begins, Start
<1> DEFINE T(x) == IF q.course # "none" /\ q.course = req[x].course
                   THEN q.touched \cup req[x].touched
                   ELSE q.touched \cap req[x].touched
<1>2. CASE q.op = "create" /\ req[s].op = "create"
  BY <1>2 DEF Begins
<1>3. CASE ~(q.op = "create" /\ req[s].op = "create")
  <2>1. T(s) \subseteq Conflicts(q)
    BY <1>3 DEF Conflicts
  <2>2. u \notin T(s)
    BY <1>1, <2>1
  <2> QED
    BY <2>2
<1> QED
  BY <1>2, <1>3

(* The lists agree on the course of the request.                           *)
LEMMA BeginsAgreed ==
  ASSUME IInv, Tidy, NEW r \in Requests, NEW q, Begins(r, q),
         NEW u \in Users, u \notin disturbed', u \in q.touched, q.course # "none"
  PROVE  Agrees(u, q.course)
<1>1. u \notin disturbed /\ ~Busy(r)
  BY DEF Begins, Start
<1>2. \A s \in Requests : Works(s, u) => req[s].course # q.course
  BY <1>1, BeginsApart DEF Works
<1> QED
  BY <1>1, <1>2 DEF Tidy, Agreed, Begins

LEMMA BeginsTidy ==
  ASSUME IInv, Tidy, NEW r \in Requests, NEW q, Begins(r, q), q \in RequestState,
         \A u \in Users : u \in q.touched /\ u \notin disturbed' =>
           Phase(q, u, owned[u], state, owners)
  PROVE  Tidy'
<1>1. /\ ~Busy(r) /\ req' = [req EXCEPT ![r] = q] /\ disturbed \subseteq disturbed'
      /\ UNCHANGED <<owned, state, owners, stranded>>
  BY DEF Begins, Start, data
<1>2. \A s \in Requests : req'[s] = IF s = r THEN q ELSE req[s]
  BY <1>1 DEF IInv, RequestsOK
<1>3. Shapes'
  BY <1>2 DEF Tidy, Shapes, Begins
<1>4. Apart'
  <2> SUFFICES ASSUME NEW u \in Users, u \notin disturbed', NEW a \in Requests, NEW b \in Requests,
                      a # b, Works(a, u)'
               PROVE  /\ Works(b, u)' => req'[a].op = "create" /\ req'[b].op = "create"
                      /\ req'[a].course # "none" => req'[b].course # req'[a].course
    BY DEF Apart
  <2>1. u \notin disturbed
    BY <1>1
  <2>2. CASE a = r
    <3>1. u \in q.touched /\ req'[a] = q /\ req'[b] = req[b] /\ (Works(b, u)' => Works(b, u))
      BY <1>2, <2>2 DEF Works, Busy
    <3>2. CASE Busy(b)
      BY <2>2, <3>1, <3>2, BeginsApart DEF Works
    <3>3. CASE ~Busy(b)
      <4>1. req[b].course = "none"
        BY <3>3 DEF Busy, Tidy, Shapes, Shape, NoRequest
      <4> QED
        BY <3>1, <3>3, <4>1 DEF Works
    <3> QED
      BY <3>2, <3>3
  <2>3. CASE b = r
    <3>1. req'[b] = q /\ req'[a] = req[a] /\ Works(a, u) /\ (Works(b, u)' => u \in q.touched)
      BY <1>2, <2>3 DEF Works, Busy
    <3> QED
      BY <2>3, <3>1, BeginsApart DEF Works
  <2>4. CASE a # r /\ b # r
    BY <1>2, <2>1, <2>4 DEF Tidy, Apart, Works, Busy
  <2> QED
    BY <2>2, <2>3, <2>4
<1>5. Covered'
  BY <1>1, <1>2 DEF Tidy, Covered, Begins
<1>6. Listed'
  BY <1>1 DEF Tidy, Listed
<1>7. Phases'
  BY <1>1, <1>2 DEF Tidy, Phases, Works, Busy
<1>8. Agreed'
  <2> SUFFICES ASSUME NEW u \in Users, u \notin disturbed', NEW c \in Courses,
                      \A s \in Requests : Works(s, u)' => req'[s].course # c
               PROVE  Agrees(u, c)
    BY <1>1 DEF Agreed, Agrees
  <2>1. \A s \in Requests : Works(s, u) => req[s].course # c
    BY <1>1, <1>2 DEF Works, Busy
  <2> QED
    BY <1>1, <2>1 DEF Tidy, Agreed
<1> QED
  BY <1>3, <1>4, <1>5, <1>6, <1>7, <1>8 DEF Tidy

(* A request in progress that goes to q, and what it may do to its course  *)
(* and to the users it works on.                                           *)
Proceeds(r, q) ==
  /\ Busy(r) /\ Step(r, q)
  /\ q.op = req[r].op /\ q.course = req[r].course /\ q.touched = req[r].touched
  /\ ~(q.step = "over" /\ q.sent = {}) => Shape(q)
  /\ disturbed \subseteq disturbed' /\ stranded \subseteq stranded'
  /\ \A c \in Courses \ {q.course} : state'[c] = state[c] /\ owners'[c] = owners[c]
  /\ q.course \in Courses =>
       /\ owners'[q.course] \subseteq owners[q.course] \cup q.touched
       /\ owners'[q.course] # {} => state'[q.course] = "exists"
  /\ \A u \in Users : u \notin disturbed' =>
       /\ u \notin q.touched => owned'[u] = owned[u]
       /\ q.op = "sanitize" => owned'[u] = owned[u]
       /\ \A c \in Courses \ {q.course} : c \in owned'[u] <=> c \in owned[u]

LEMMA AfterStep ==
  ASSUME IInv, Tidy, NEW r \in Requests, NEW q \in RequestState, Proceeds(r, q)
  PROVE  /\ \A s \in Requests \ {r} : req'[s] = req[s]
         /\ q.step = "over" /\ q.sent = {} => req'[r] = NoRequest
         /\ ~(q.step = "over" /\ q.sent = {}) =>
              /\ Busy(r)' /\ Shape(req'[r])
              /\ req'[r].op = q.op /\ req'[r].course = q.course /\ req'[r].touched = q.touched
              /\ q.step # "over" => req'[r] = q
              /\ q.step = "over" => req'[r].step = "over" /\ req'[r].sent = q.sent
<1>1. req' = [req EXCEPT ![r] = Settled(q)] /\ req \in [Requests -> RequestState]
  BY DEF Proceeds, Step, IInv, RequestsOK
<1>2. req'[r] = Settled(q) /\ \A s \in Requests \ {r} : req'[s] = req[s]
  BY <1>1
<1>3. q.op # "none"
  BY DEF Proceeds, Busy
<1>4. CASE q.step # "over"
  BY <1>2, <1>3, <1>4 DEF Settled, Busy, Proceeds
<1>5. CASE q.step = "over" /\ q.sent = {}
  BY <1>2, <1>5 DEF Settled
<1>6. CASE q.step = "over" /\ q.sent # {}
  <2> DEFINE p == [NoRequest EXCEPT !.op = q.op, !.course = q.course, !.step = "over",
                                    !.sent = q.sent, !.touched = q.touched]
  <2>1. req'[r] = p
    BY <1>2, <1>6 DEF Settled
  <2>2. /\ p.op = q.op /\ p.course = q.course /\ p.step = "over" /\ p.sent = q.sent
        /\ p.touched = q.touched
    BY DEF NoRequest
  <2>3. q.op = "update"
    BY <1>3, <1>6 DEF Proceeds, Shape, RequestState
  <2> HIDE DEF p
  <2> QED
    BY <1>2, <1>6, <2>1, <2>2, <2>3 DEF Busy, Shape
<1> QED
  BY <1>2, <1>4, <1>5, <1>6

(* It leaves the lists in order if it knows how far it has come or, when   *)
(* it is over, the lists agree.                                            *)
LEMMA ProceedsTidy ==
  ASSUME IInv, Tidy, NEW r \in Requests, NEW q \in RequestState, Proceeds(r, q),
         \A u \in Users : u \in q.touched /\ u \notin disturbed' =>
           IF q.step = "over" /\ q.sent = {}
           THEN q.course \in Courses =>
                  Agree(u, q.course, owned'[u], state', owners', stranded')
           ELSE Phase(q, u, owned'[u], state', owners')
  PROVE  Tidy'
<1> DEFINE done == q.step = "over" /\ q.sent = {}
           d == q.course
<1>1. /\ \A s \in Requests \ {r} : req'[s] = req[s]
      /\ done => req'[r] = NoRequest
      /\ ~done => /\ Busy(r)' /\ Shape(req'[r])
                  /\ req'[r].op = q.op /\ req'[r].course = d /\ req'[r].touched = q.touched
                  /\ q.step # "over" => req'[r] = q
                  /\ q.step = "over" => req'[r].step = "over" /\ req'[r].sent = q.sent
  BY AfterStep
<1>2. /\ Busy(r) /\ q.op = req[r].op /\ d = req[r].course /\ q.touched = req[r].touched
      /\ disturbed \subseteq disturbed' /\ stranded \subseteq stranded'
  BY DEF Proceeds
<1>3. NoRequest.op = "none" /\ NoRequest.course = "none"
  BY DEF NoRequest
<1>4. \A s \in Requests, u \in Users :
        Works(s, u)' => Works(s, u) /\ req'[s].op = req[s].op /\ req'[s].course = req[s].course
  BY <1>1, <1>2, <1>3 DEF Works, Busy
<1>5. \A s \in Requests : req'[s].course # "none" =>
        req'[s].course = req[s].course /\ req'[s].touched = req[s].touched
  BY <1>1, <1>2, <1>3
<1>6. Shapes'
  <2>1. Shape(NoRequest)
    BY DEF Shape, NoRequest
  <2> QED
    BY <1>1, <2>1 DEF Tidy, Shapes
<1>7. Apart'
  BY <1>2, <1>4, <1>5 DEF Tidy, Apart
<1>8. \A s \in Requests \ {r}, u \in Users :
        u \notin disturbed /\ u \in q.touched /\ d # "none" => req[s].course # d
  BY <1>2 DEF Tidy, Apart, Works
<1>9. d \in Courses => owners[d] \ disturbed \subseteq q.touched
  BY <1>2, CoursesAssumption DEF Tidy, Covered
<1>10. \A s \in Requests : req[s].course \in Courses \cup {"none"}
  BY DEF IInv, RequestsOK, RequestState
<1>11. Covered'
  <2> SUFFICES ASSUME NEW s \in Requests, req'[s].course # "none",
                      NEW u \in owners'[req'[s].course], u \notin disturbed'
               PROVE  u \in req'[s].touched
    BY DEF Covered
  <2>1. req'[s].course = req[s].course /\ req'[s].touched = req[s].touched
        /\ req[s].course \in Courses
    BY <1>5, <1>10
  <2>2. CASE req[s].course # d
    BY <1>2, <2>1, <2>2 DEF Proceeds, Tidy, Covered
  <2>3. CASE req[s].course = d
    <3>1. u \in owners[d] \/ u \in q.touched
      BY <2>1, <2>3 DEF Proceeds
    <3>2. u \in q.touched
      BY <1>2, <1>9, <2>1, <2>3, <3>1
    <3>3. u \in Users
      BY <3>2 DEF RequestState
    <3> QED
      BY <1>2, <1>8, <2>1, <2>3, <3>2, <3>3
  <2> QED
    BY <2>2, <2>3
<1>12. Listed'
  BY DEF Proceeds, Tidy, Listed
<1>13. Phases'
  <2> SUFFICES ASSUME NEW u \in Users, u \notin disturbed', NEW s \in Requests, Works(s, u)'
               PROVE  Phase(req'[s], u, owned'[u], state', owners')
    BY DEF Phases
  <2>1. CASE s = r
    <3>1. ~done /\ u \in q.touched
      BY <1>1, <1>3, <2>1 DEF Works, Busy
    <3>2. Phase(q, u, owned'[u], state', owners')
      BY <3>1
    <3>3. CASE q.step # "over"
      BY <1>1, <2>1, <3>1, <3>2, <3>3
    <3>4. CASE q.step = "over"
      <4>1. req'[r].op = q.op /\ req'[r].course = d /\ req'[r].step = q.step
            /\ req'[r].sent = q.sent /\ q.op = "update"
        BY <1>1, <1>2, <3>1, <3>4 DEF Proceeds, Shape, Busy, RequestState
      <4> QED
        BY <2>1, <3>2, <3>4, <4>1 DEF Phase
    <3> QED
      BY <3>3, <3>4
  <2>2. CASE s # r
    <3>1. Works(s, u) /\ req'[s] = req[s] /\ u \notin disturbed /\ req[s] \in RequestState
      BY <1>1, <1>2, <1>4, <2>2 DEF IInv, RequestsOK
    <3> DEFINE p == req[s]
    <3>2. Phase(p, u, owned[u], state, owners) /\ Shape(p)
      BY <3>1 DEF Tidy, Phases, Shapes
    <3>3. p.course # "none" => p.course # d
      BY <1>2, <2>2, <3>1 DEF Tidy, Apart
    <3>4. u \in q.touched => p.op = "create"
      BY <1>2, <2>2, <3>1 DEF Tidy, Apart, Works
    <3>5. p.op # "none" /\ (p.op # "sanitize" => p.course \in Courses)
      BY <3>1, Found DEF Works, Busy, Stage, RequestState
    <3>6. p.op # "sanitize" =>
            state'[p.course] = state[p.course] /\ owners'[p.course] = owners[p.course]
            /\ (p.course \in owned'[u] <=> p.course \in owned[u])
      BY <3>3, <3>5, CoursesAssumption DEF Proceeds
    <3>7. p.op # "create" => owned'[u] = owned[u]
      BY <3>4 DEF Proceeds
    <3> HIDE DEF p
    <3>8. Phase(p, u, owned'[u], state', owners')
      BY <3>2, <3>6, <3>7 DEF Phase
    <3> QED
      BY <3>1, <3>8 DEF p
  <2> QED
    BY <2>1, <2>2
<1>14. Agreed'
  <2> SUFFICES ASSUME NEW u \in Users, u \notin disturbed', NEW c \in Courses,
                      \A s \in Requests : Works(s, u)' => req'[s].course # c
               PROVE  Agrees(u, c)'
    BY DEF Agreed
  <2>1. u \notin disturbed
    BY <1>2
  <2>2. \A s \in Requests \ {r} : Works(s, u) => req[s].course # c
    BY <1>1 DEF Works, Busy
  <2>3. CASE c # d
    <3>1. Agrees(u, c)
      BY <1>2, <2>1, <2>2, <2>3 DEF Tidy, Agreed
    <3> QED
      BY <1>2, <2>3, <3>1 DEF Agrees, Agree, Proceeds
  <2>4. CASE c = d /\ u \notin q.touched
    <3>1. Agrees(u, c)
      BY <1>2, <2>1, <2>2, <2>4 DEF Tidy, Agreed, Works
    <3>2. u \notin owners[c] /\ u \notin owners'[c] /\ owned'[u] = owned[u]
      BY <1>9, <2>1, <2>4 DEF Proceeds
    <3> QED
      BY <3>1, <3>2 DEF Agrees, Agree
  <2>5. CASE c = d /\ u \in q.touched
    <3>1. done
      BY <1>1, <1>2, <2>5 DEF Works
    <3> QED
      BY <2>5, <3>1 DEF Agrees
  <2> QED
    BY <2>3, <2>4, <2>5
<1> QED
  BY <1>6, <1>7, <1>11, <1>12, <1>13, <1>14 DEF Tidy
------------------------------------------------------------------------------
LEMMA Knows ==
  ASSUME IInv, Tidy, NEW r \in Requests, Busy(r)
  PROVE  /\ req[r] \in RequestState /\ req[r].op # "none" /\ Shape(req[r])
         /\ Stage(req[r], accounts) /\ req[r].touched \subseteq Users
         /\ \A u \in Users : u \in req[r].touched /\ u \notin disturbed =>
              Phase(req[r], u, owned[u], state, owners)
         /\ req[r].course = "none" <=> req[r].op = "sanitize"
         /\ req[r].course \in Courses <=> req[r].op # "sanitize"
         /\ \A c \in Courses : owners[c] # {} => state[c] = "exists"
         /\ owned \in [Users -> SUBSET Courses] /\ owners \in [Courses -> SUBSET accounts]
         /\ state \in [Courses -> {"new", "exists", "deleted"}] /\ accounts \subseteq Users
<1>1. req[r] \in RequestState /\ Stage(req[r], accounts)
  BY Found
<1>2. Shape(req[r]) /\ req[r].op # "none"
  BY DEF Tidy, Shapes, Busy
<1>3. req[r].op \in {"create", "update", "delete", "sanitize"}
  BY <1>1, <1>2 DEF RequestState
<1>4. req[r].course = "none" <=> req[r].op = "sanitize"
  BY <1>1, <1>2, <1>3, CoursesAssumption DEF Stage, Shape
<1>5. req[r].course \in Courses <=> req[r].op # "sanitize"
  BY <1>1, <1>2, <1>3, CoursesAssumption DEF Stage, Shape
<1> QED
  BY <1>1, <1>2, <1>4, <1>5 DEF Tidy, Phases, Listed, Works, RequestState, IInv, DataOK

LEMMA TidyAddOwned ==
  ASSUME IInv, Tidy, NEW r \in Requests, NEW u \in Users, AddOwned(r, u) \/ AddOwnedFails(r, u)
  PROVE  Tidy'
<1> DEFINE p == req[r]
           q == [p EXCEPT !.sent = @ \ {u}]
           c == p.course
<1>1. u \in p.sent /\ Step(r, q) /\ Busy(r)
      /\ UNCHANGED <<state, owners, stranded>>
  <2>1. u \in p.sent /\ Step(r, q) /\ UNCHANGED <<state, owners, stranded>>
    BY DEF AddOwned, AddOwnedFails, data
  <2>2. Stage(p, accounts)
    BY Found
  <2> QED
    BY <2>1, <2>2 DEF Busy, Stage
<1>2. \/ owned' = [owned EXCEPT ![u] = @ \cup {c}] /\ disturbed' = disturbed
      \/ owned' = owned /\ disturbed' = disturbed \cup {u}
  BY DEF AddOwned, AddOwnedFails, data
<1>3. /\ p \in RequestState /\ Shape(p) /\ Stage(p, accounts) /\ p.op # "none"
      /\ \A x \in Users : x \in p.touched /\ x \notin disturbed =>
           Phase(p, x, owned[x], state, owners)
      /\ \A d \in Courses : owners[d] # {} => state[d] = "exists"
      /\ owned \in [Users -> SUBSET Courses]
  BY <1>1, Knows
<1>4. /\ q.op = p.op /\ q.course = c /\ q.step = p.step /\ q.list = p.list
      /\ q.known = p.known /\ q.todo = p.todo /\ q.sent = p.sent \ {u}
      /\ q.touched = p.touched /\ q.read = p.read /\ q.check = p.check /\ q \in RequestState
  BY <1>3 DEF RequestState
<1> HIDE DEF p, q, c
<1>5. /\ (p.op = "create" /\ p.step = "add") \/ (p.op = "update" /\ p.step \in {"new", "over"})
      /\ u \in p.touched /\ c \in Courses
  BY <1>1, <1>3 DEF Shape, Stage, RequestState, c
<1>6. \A x \in Users : x \notin disturbed' =>
        /\ x \notin disturbed
        /\ x # u => owned'[x] = owned[x]
        /\ x = u => owned'[x] = owned[x] \cup {c}
  BY <1>2, <1>3
<1>7. Proceeds(r, q)
  BY <1>1, <1>2, <1>3, <1>4, <1>5, <1>6 DEF Proceeds, Shape, p, c
<1>8. ASSUME NEW x \in Users, x \in q.touched, x \notin disturbed'
      PROVE  IF q.step = "over" /\ q.sent = {}
             THEN q.course \in Courses =>
                    Agree(x, q.course, owned'[x], state', owners', stranded')
             ELSE Phase(q, x, owned'[x], state', owners')
  <2>1. Phase(p, x, owned[x], state, owners)
    BY <1>3, <1>4, <1>6, <1>8
  <2>2. CASE p.step = "over" /\ q.sent = {}
    BY <1>1, <1>4, <1>5, <1>6, <1>8, <2>1, <2>2 DEF Phase, Agree, c
  <2>3. CASE ~(p.step = "over" /\ q.sent = {})
    <3>1. Phase(q, x, owned'[x], state', owners')
      BY <1>1, <1>4, <1>5, <1>6, <1>8, <2>1 DEF Phase, c
    <3> QED
      BY <1>4, <2>3, <3>1
  <2> QED
    BY <1>4, <2>2, <2>3
<1> QED
  BY <1>4, <1>7, <1>8, ProceedsTidy

LEMMA TidyNewOwner ==
  ASSUME IInv, Tidy, NEW r \in Requests, NEW u \in Users, NewOwner(r, u)
  PROVE  Tidy'
<1> DEFINE p == req[r]
           q == [p EXCEPT !.todo = @ \ {u}]
           c == p.course
<1>1. /\ p.step = "new" /\ u \in p.todo /\ u \notin accounts /\ Step(r, q)
      /\ owned' = [owned EXCEPT ![u] = {c}]
      /\ UNCHANGED <<state, owners, disturbed, stranded>>
  BY DEF NewOwner
<1>2. Busy(r)
  BY <1>1, Found DEF Stage, Busy
<1>3. /\ p \in RequestState /\ Shape(p) /\ Stage(p, accounts) /\ p.op # "none"
      /\ \A x \in Users : x \in p.touched /\ x \notin disturbed =>
           Phase(p, x, owned[x], state, owners)
      /\ \A d \in Courses : owners[d] # {} => state[d] = "exists"
      /\ owned \in [Users -> SUBSET Courses]
  BY <1>2, Knows
<1>4. /\ q.op = p.op /\ q.course = c /\ q.step = p.step /\ q.list = p.list
      /\ q.known = p.known /\ q.todo = p.todo \ {u} /\ q.sent = p.sent
      /\ q.touched = p.touched /\ q.read = p.read /\ q.check = p.check /\ q \in RequestState
  BY <1>3 DEF RequestState
<1>5. owned[u] = {}
  BY <1>1 DEF IInv, DataOK
<1> HIDE DEF p, q, c
<1>6. p.op \in {"create", "update"} /\ u \in p.touched /\ c \in Courses
  BY <1>1, <1>3 DEF Stage, c
<1>7. \A x \in Users : owned'[x] = IF x = u THEN owned[x] \cup {c} ELSE owned[x]
  BY <1>1, <1>3, <1>5
<1>8. Proceeds(r, q)
  BY <1>1, <1>2, <1>3, <1>4, <1>6, <1>7 DEF Proceeds, Shape, p, c
<1>9. ASSUME NEW x \in Users, x \in q.touched, x \notin disturbed'
      PROVE  Phase(q, x, owned'[x], state', owners')
  <2>1. Phase(p, x, owned[x], state, owners)
    BY <1>1, <1>3, <1>4, <1>9
  <2>2. p.step = "new" /\ u \in p.todo /\ UNCHANGED <<state, owners>>
    BY <1>1
  <2>3. x # u => owned'[x] = owned[x]
    BY <1>7
  <2>4. x = u => c \in owned'[x]
    BY <1>7
  <2>5. CASE x = u
    BY <1>4, <1>6, <2>1, <2>2, <2>4, <2>5 DEF Phase, c
  <2>6. CASE x # u
    BY <1>4, <1>6, <2>1, <2>2, <2>3, <2>6 DEF Phase, c
  <2> QED
    BY <2>5, <2>6
<1>10. q.step # "over"
  BY <1>1, <1>4
<1> QED
  BY <1>4, <1>8, <1>9, <1>10, ProceedsTidy

(* A request that fails promises nothing any more of those it worked on.   *)
LEMMA TidyRequestFails ==
  ASSUME IInv, Tidy, NEW r \in Requests, RequestFails(r)
  PROVE  Tidy'
<1> DEFINE p == req[r]
           sent == IF p.op = "update" THEN p.sent ELSE {}
           q == [p EXCEPT !.step = "over", !.sent = sent]
           c == p.course
<1>1. /\ disturbed' = disturbed \cup p.touched
      /\ UNCHANGED <<owned, state, owners, stranded>>
  BY DEF RequestFails, data
<1>2. Busy(r)
  BY DEF RequestFails
<1>3. /\ p \in RequestState /\ Shape(p) /\ Stage(p, accounts) /\ p.op # "none"
      /\ \A x \in Users : x \in p.touched /\ x \notin disturbed =>
           Phase(p, x, owned[x], state, owners)
      /\ \A d \in Courses : owners[d] # {} => state[d] = "exists"
      /\ owned \in [Users -> SUBSET Courses]
      /\ owners \in [Courses -> SUBSET accounts]
      /\ state \in [Courses -> {"new", "exists", "deleted"}]
      /\ p.op # "sanitize" <=> c \in Courses
  BY <1>2, Knows
<1>4. Step(r, q)
  <2>1. q = [req[r] EXCEPT !.step = "over",
                           !.sent = IF req[r].op = "update" THEN @ ELSE {}]
    BY <1>3 DEF RequestState
  <2> QED
    BY <2>1 DEF RequestFails, Fail
<1>5. /\ q.op = p.op /\ q.course = c /\ q.step = "over" /\ q.touched = p.touched
      /\ q.sent = sent /\ q \in RequestState
  BY <1>3 DEF RequestState
<1>6. q.sent # {} => Shape(q)
  BY <1>3, <1>5 DEF Shape
<1> HIDE DEF p, q, c
<1>7. Proceeds(r, q)
  BY <1>1, <1>2, <1>3, <1>4, <1>5, <1>6 DEF Proceeds, p, c
<1> QED
  BY <1>1, <1>5, <1>7, ProceedsTidy

LEMMA TidyRemoveOwned ==
  ASSUME IInv, Tidy, NEW r \in Requests, NEW u \in Users, RemoveOwned(r, u)
  PROVE  Tidy'
<1> DEFINE p == req[r]
           q == [p EXCEPT !.todo = @ \ {u}]
           c == p.course
<1>1. /\ p.step = "remove" /\ u \in p.todo /\ Step(r, q)
      /\ owned' = [owned EXCEPT ![u] = p.read[u] \ {c}]
      /\ UNCHANGED <<state, owners, disturbed, stranded>>
  BY DEF RemoveOwned
<1>2. Busy(r)
  BY <1>1, Found DEF Stage, Busy
<1>3. /\ p \in RequestState /\ Shape(p) /\ Stage(p, accounts) /\ p.op # "none"
      /\ \A x \in Users : x \in p.touched /\ x \notin disturbed =>
           Phase(p, x, owned[x], state, owners)
      /\ \A d \in Courses : owners[d] # {} => state[d] = "exists"
      /\ owned \in [Users -> SUBSET Courses]
      /\ owners \in [Courses -> SUBSET accounts]
      /\ state \in [Courses -> {"new", "exists", "deleted"}]
      /\ p.op # "sanitize" <=> c \in Courses
  BY <1>2, Knows
<1>4. /\ q.op = p.op /\ q.course = c /\ q.step = p.step /\ q.list = p.list
      /\ q.known = p.known /\ q.todo = p.todo \ {u} /\ q.sent = p.sent
      /\ q.touched = p.touched /\ q.read = p.read /\ q.check = p.check /\ q \in RequestState
  BY <1>3 DEF RequestState
<1> HIDE DEF p, q, c
<1>5. p.op \in {"update", "delete"} /\ u \in p.touched /\ c \in Courses
  BY <1>1, <1>3 DEF Stage
<1>6. \A x \in Users : x # u => owned'[x] = owned[x]
  BY <1>1, <1>3
<1>7. u \notin disturbed => owned'[u] = owned[u] \ {c}
  <2>1. u \notin disturbed => p.read[u] = owned[u]
    BY <1>1, <1>3, <1>5 DEF Phase
  <2> QED
    BY <1>1, <1>3, <2>1
<1>8. Proceeds(r, q)
  BY <1>1, <1>2, <1>3, <1>4, <1>5, <1>6, <1>7 DEF Proceeds, Shape, p, c
<1>9. ASSUME NEW x \in Users, x \in q.touched, x \notin disturbed'
      PROVE  Phase(q, x, owned'[x], state', owners')
  <2>1. Phase(p, x, owned[x], state, owners)
    BY <1>1, <1>3, <1>4, <1>9
  <2>2. p.step = "remove" /\ u \in p.todo /\ UNCHANGED <<state, owners>>
    BY <1>1
  <2>3. CASE x # u
    <3>1. owned'[x] = owned[x]
      BY <1>6, <2>3
    <3> QED
      BY <1>4, <1>5, <2>1, <2>2, <2>3, <3>1 DEF Phase, c
  <2>4. CASE x = u
    <3>1. c \notin owned'[x]
      BY <1>1, <1>7, <1>9, <2>4
    <3>2. x \notin q.list \/ p.op = "delete"
      BY <1>4, <1>5, <2>1, <2>2, <2>4 DEF Phase, c
    <3>3. x \notin p.known \/ p.op = "delete"
      BY <1>3, <1>4, <3>2 DEF Stage
    <3> QED
      BY <1>4, <1>5, <2>1, <2>2, <2>4, <3>1, <3>2, <3>3 DEF Phase, c
  <2> QED
    BY <2>3, <2>4
<1>10. q.step # "over"
  BY <1>1, <1>4
<1> QED
  BY <1>4, <1>8, <1>9, <1>10, ProceedsTidy

LEMMA TidyListOwners ==
  ASSUME IInv, Tidy, NEW r \in Requests, ListOwners(r)
  PROVE  Tidy'
<1> DEFINE p == req[r]
           q == [p EXCEPT !.step = "over"]
           c == p.course
<1>1. /\ p.step = "new" /\ p.todo = {} /\ Step(r, q)
      /\ owners' = IF state[c] = "exists" THEN [owners EXCEPT ![c] = p.list] ELSE owners
      /\ UNCHANGED <<owned, state, disturbed, stranded>>
  BY DEF ListOwners, Goto
<1>2. Busy(r)
  BY <1>1, Found DEF Stage, Busy
<1>3. /\ p \in RequestState /\ Shape(p) /\ Stage(p, accounts) /\ p.op # "none"
      /\ \A x \in Users : x \in p.touched /\ x \notin disturbed =>
           Phase(p, x, owned[x], state, owners)
      /\ \A d \in Courses : owners[d] # {} => state[d] = "exists"
      /\ owned \in [Users -> SUBSET Courses]
      /\ owners \in [Courses -> SUBSET accounts]
      /\ state \in [Courses -> {"new", "exists", "deleted"}]
      /\ p.op # "sanitize" <=> c \in Courses
  BY <1>2, Knows
<1>4. /\ q.op = p.op /\ q.course = c /\ q.step = "over" /\ q.list = p.list
      /\ q.known = p.known /\ q.todo = p.todo /\ q.sent = p.sent
      /\ q.touched = p.touched /\ q.read = p.read /\ q.check = p.check /\ q \in RequestState
  BY <1>3 DEF RequestState
<1> HIDE DEF p, q, c
<1>5. /\ p.op \in {"create", "update"} /\ p.list \subseteq p.touched /\ c \in Courses
      /\ p.op = "create" => p.sent = {}
  BY <1>1, <1>3 DEF Stage, Shape
<1>6. owners'[c] = IF state[c] = "exists" THEN p.list ELSE owners[c]
  BY <1>1, <1>3, <1>5
<1>7. \A d \in Courses \ {c} : owners'[d] = owners[d]
  BY <1>1, <1>3, <1>5
<1>8. Proceeds(r, q)
  BY <1>1, <1>2, <1>3, <1>4, <1>5, <1>6, <1>7 DEF Proceeds, Shape, p, c
<1>9. ASSUME NEW x \in Users, x \in q.touched, x \notin disturbed'
      PROVE  IF q.step = "over" /\ q.sent = {}
             THEN q.course \in Courses =>
                    Agree(x, q.course, owned'[x], state', owners', stranded')
             ELSE Phase(q, x, owned'[x], state', owners')
  <2>1. Phase(p, x, owned[x], state, owners)
    BY <1>1, <1>3, <1>4, <1>9
  <2>2. /\ state'[c] = "exists" /\ owners'[c] = p.list
        /\ x \in p.sent => x \in p.list
        /\ c \in owned'[x] <=> x \in p.list \ p.sent
    BY <1>1, <1>5, <1>6, <2>1 DEF Phase, c
  <2>3. CASE p.sent = {}
    BY <1>4, <2>2, <2>3 DEF Agree
  <2>4. CASE p.sent # {}
    BY <1>4, <1>5, <2>2, <2>4 DEF Phase
  <2> QED
    BY <1>4, <2>3, <2>4
<1> QED
  BY <1>4, <1>8, <1>9, ProceedsTidy

LEMMA TidySaveCourse ==
  ASSUME IInv, Tidy, NEW r \in Requests, SaveCourse(r)
  PROVE  Tidy'
<1> DEFINE p == req[r]
           c == p.course
           q == IF p.known = {} THEN [p EXCEPT !.step = "over"]
                ELSE [p EXCEPT !.step = "add", !.sent = p.known]
<1>1. /\ p.op = "create" /\ p.step = "save" /\ Step(r, q)
      /\ p.known = {} => UNCHANGED <<state, owners>>
      /\ p.known # {} => /\ state' = [state EXCEPT ![c] = "exists"]
                         /\ owners' = [owners EXCEPT ![c] = p.known]
      /\ UNCHANGED <<owned, disturbed, stranded>>
  BY DEF SaveCourse, At, Goto
<1>2. Busy(r)
  BY <1>1 DEF Busy
<1>3. /\ p \in RequestState /\ Shape(p) /\ Stage(p, accounts) /\ p.op # "none"
      /\ \A x \in Users : x \in p.touched /\ x \notin disturbed =>
           Phase(p, x, owned[x], state, owners)
      /\ \A d \in Courses : owners[d] # {} => state[d] = "exists"
      /\ owned \in [Users -> SUBSET Courses]
      /\ owners \in [Courses -> SUBSET accounts]
      /\ state \in [Courses -> {"new", "exists", "deleted"}]
      /\ p.op # "sanitize" <=> c \in Courses
  BY <1>2, Knows
<1>4. /\ q.op = p.op /\ q.course = c /\ q.touched = p.touched /\ q.known = p.known
      /\ q.step = IF p.known = {} THEN "over" ELSE "add"
      /\ q.sent = IF p.known = {} THEN p.sent ELSE p.known
      /\ q \in RequestState
  BY <1>3 DEF RequestState
<1> HIDE DEF p, q, c
<1>5. p.sent = {} /\ c \in Courses /\ p.known \subseteq p.touched /\ state[c] = "new"
  BY <1>1, <1>3, Found DEF Stage, Shape, Known, p, c
<1>6. owners[c] = {}
  BY <1>3, <1>5
<1>7. \A d \in Courses \ {c} : owners'[d] = owners[d] /\ state'[d] = state[d]
  BY <1>1, <1>3, <1>5
<1>8. p.known # {} => owners'[c] = p.known /\ state'[c] = "exists"
  BY <1>1, <1>3, <1>5
<1>9. p.known = {} => owners'[c] = {}
  BY <1>1, <1>6
<1>10. Proceeds(r, q)
  BY <1>1, <1>2, <1>4, <1>5, <1>7, <1>8, <1>9 DEF Proceeds, Shape, p, c
<1>11. ASSUME NEW x \in Users, x \in q.touched, x \notin disturbed'
       PROVE  IF q.step = "over" /\ q.sent = {}
              THEN q.course \in Courses =>
                     Agree(x, q.course, owned'[x], state', owners', stranded')
              ELSE Phase(q, x, owned'[x], state', owners')
  <2>1. c \notin owned'[x]
    BY <1>1, <1>3, <1>4, <1>11 DEF Phase, c
  <2>2. CASE p.known = {}
    BY <1>4, <1>5, <1>9, <2>1, <2>2 DEF Agree
  <2>3. CASE p.known # {}
    BY <1>1, <1>4, <1>8, <2>1, <2>3 DEF Phase
  <2> QED
    BY <2>2, <2>3
<1> QED
  BY <1>4, <1>10, <1>11, ProceedsTidy

LEMMA TidyMakeDirectory ==
  ASSUME IInv, Tidy, NEW r \in Requests, MakeDirectory(r) \/ MakeDirectoryFails(r)
  PROVE  Tidy'
<1> DEFINE p == req[r]
           c == p.course
           todo == p.list \ p.known
           new == [p EXCEPT !.step = "new", !.todo = todo]
           over == [p EXCEPT !.step = "over"]
<1>1. /\ p.op = "create" /\ p.step = "add" /\ p.sent = {} /\ (Step(r, new) \/ Step(r, over))
      /\ UNCHANGED <<owned, state, owners, disturbed, stranded>>
  BY DEF MakeDirectory, MakeDirectoryFails, At, Goto, data
<1>2. Busy(r)
  BY <1>1 DEF Busy
<1>3. /\ p \in RequestState /\ Shape(p) /\ Stage(p, accounts) /\ p.op # "none"
      /\ \A x \in Users : x \in p.touched /\ x \notin disturbed =>
           Phase(p, x, owned[x], state, owners)
      /\ \A d \in Courses : owners[d] # {} => state[d] = "exists"
      /\ owned \in [Users -> SUBSET Courses]
      /\ owners \in [Courses -> SUBSET accounts]
      /\ state \in [Courses -> {"new", "exists", "deleted"}]
      /\ p.op # "sanitize" <=> c \in Courses
  BY <1>2, Knows
<1>4. /\ new.op = p.op /\ new.course = c /\ new.touched = p.touched /\ new.known = p.known
      /\ new.step = "new" /\ new.sent = p.sent /\ new.list = p.list /\ new.todo = todo
      /\ new \in RequestState
  BY <1>3 DEF RequestState
<1>5. /\ over.op = p.op /\ over.course = c /\ over.touched = p.touched
      /\ over.step = "over" /\ over.sent = p.sent /\ over \in RequestState
  BY <1>3 DEF RequestState
<1> HIDE DEF p, new, over, c
<1>6. Step(r, new) => Proceeds(r, new)
  BY <1>1, <1>2, <1>3, <1>4 DEF Proceeds, Shape, p, c
<1>7. Step(r, over) => Proceeds(r, over)
  BY <1>1, <1>2, <1>3, <1>5 DEF Proceeds, Shape, p, c
<1>8. ASSUME NEW x \in Users, x \in p.touched, x \notin disturbed'
      PROVE  /\ Agree(x, c, owned'[x], state', owners', stranded')
             /\ Phase(new, x, owned'[x], state', owners')
  <2>1. /\ state'[c] = "exists" /\ owners'[c] = p.known
        /\ c \in owned'[x] <=> x \in p.known
    BY <1>1, <1>3, <1>8 DEF Phase, c
  <2>2. x \in p.known => x \in p.list
    BY <1>3 DEF Stage
  <2> QED
    BY <1>1, <1>4, <2>1, <2>2 DEF Phase, Agree
<1>9. CASE Step(r, new)
  BY <1>4, <1>6, <1>8, <1>9, ProceedsTidy
<1>10. CASE Step(r, over)
  BY <1>1, <1>5, <1>7, <1>8, <1>10, ProceedsTidy
<1> QED
  BY <1>1, <1>9, <1>10

LEMMA TidyAddOwners ==
  ASSUME IInv, Tidy, NEW r \in Requests, AddOwners(r)
  PROVE  Tidy'
<1> DEFINE p == req[r]
           c == p.course
           sent == {u \in p.known : c \notin p.read[u]}
           new == [p EXCEPT !.step = "new", !.todo = p.list \ p.known, !.sent = sent]
           over == [p EXCEPT !.step = "over"]
<1>1. /\ p.op = "update" /\ p.step = "remove" /\ p.todo = {}
      /\ UNCHANGED <<owned, state, owners, disturbed>>
      /\ p.known = {} => Step(r, over) /\ stranded' = stranded \cup p.touched
      /\ p.known # {} => Step(r, new) /\ stranded' = stranded
  BY DEF AddOwners, At, Goto, data
<1>2. Busy(r)
  BY <1>1 DEF Busy
<1>3. /\ p \in RequestState /\ Shape(p) /\ Stage(p, accounts) /\ p.op # "none"
      /\ \A x \in Users : x \in p.touched /\ x \notin disturbed =>
           Phase(p, x, owned[x], state, owners)
      /\ \A d \in Courses : owners[d] # {} => state[d] = "exists"
      /\ owned \in [Users -> SUBSET Courses]
      /\ owners \in [Courses -> SUBSET accounts]
      /\ state \in [Courses -> {"new", "exists", "deleted"}]
      /\ p.op # "sanitize" <=> c \in Courses
  BY <1>2, Knows
<1>4. /\ over.op = p.op /\ over.course = c /\ over.touched = p.touched
      /\ over.step = "over" /\ over.sent = p.sent /\ over \in RequestState
  BY <1>3 DEF RequestState
<1>5. sent \in SUBSET Users
  BY <1>3 DEF RequestState
<1>6. \A x \in Users : x \in sent <=> x \in p.known /\ c \notin p.read[x]
  BY <1>3 DEF RequestState
<1> HIDE DEF sent
<1>7. /\ new.op = p.op /\ new.course = c /\ new.touched = p.touched /\ new.known = p.known
      /\ new.step = "new" /\ new.sent = sent /\ new.list = p.list
      /\ new.todo = p.list \ p.known /\ new \in RequestState
  BY <1>3, <1>5 DEF RequestState
<1> HIDE DEF p, new, over, c
<1>8. p.sent = {} /\ c \in Courses /\ p.known \subseteq p.list
  BY <1>1, <1>3 DEF Shape, Stage
<1>9. p.known = {} => Proceeds(r, over)
  BY <1>1, <1>2, <1>3, <1>4, <1>8 DEF Proceeds, p, c
<1>10. p.known # {} => Proceeds(r, new)
  BY <1>1, <1>2, <1>3, <1>7 DEF Proceeds, Shape, p, c
<1>11. ASSUME NEW x \in Users, x \in p.touched, x \notin disturbed'
       PROVE  /\ p.known = {} => Agree(x, c, owned'[x], state', owners', stranded')
              /\ p.known # {} => Phase(new, x, owned'[x], state', owners')
  <2>1. Phase(p, x, owned[x], state, owners)
    BY <1>1, <1>3, <1>11
  <2>2. /\ state[c] = "exists"
        /\ x \in p.known => p.read[x] = owned[x]
        /\ x \notin p.list => c \notin owned[x]
        /\ x \in p.list /\ c \in owned[x] => x \in owners[c] /\ x \in p.known
    BY <1>1, <2>1 DEF Phase, c
  <2>3. p.known = {} => Agree(x, c, owned'[x], state', owners', stranded')
    BY <1>1, <1>11, <2>2 DEF Agree
  <2>4. p.known # {} => Phase(new, x, owned'[x], state', owners')
    BY <1>1, <1>6, <1>7, <1>8, <2>2 DEF Phase
  <2> QED
    BY <2>3, <2>4
<1>12. CASE p.known = {}
  BY <1>4, <1>8, <1>9, <1>11, <1>12, ProceedsTidy
<1>13. CASE p.known # {}
  BY <1>7, <1>10, <1>11, <1>13, ProceedsTidy
<1> QED
  BY <1>12, <1>13

LEMMA TidyFindOwners ==
  ASSUME IInv, Tidy, NEW r \in Requests, FindOwners(r)
  PROVE  Tidy'
<1> DEFINE p == req[r]
           c == p.course
           read == ReadOf(p.touched)
           q == [p EXCEPT !.step = "remove", !.todo = p.touched, !.read = read]
<1>1. /\ p.op = "delete" /\ p.step = "find" /\ Step(r, q)
      /\ UNCHANGED <<owned, state, owners, disturbed, stranded>>
  BY DEF FindOwners, At, data
<1>2. Busy(r)
  BY <1>1 DEF Busy
<1>3. /\ p \in RequestState /\ Shape(p) /\ Stage(p, accounts) /\ p.op # "none"
      /\ \A x \in Users : x \in p.touched /\ x \notin disturbed =>
           Phase(p, x, owned[x], state, owners)
      /\ \A d \in Courses : owners[d] # {} => state[d] = "exists"
      /\ owned \in [Users -> SUBSET Courses]
      /\ owners \in [Courses -> SUBSET accounts]
      /\ state \in [Courses -> {"new", "exists", "deleted"}]
      /\ p.op # "sanitize" <=> c \in Courses
  BY <1>2, Knows
<1>4. read \in [Users -> SUBSET Courses] /\ \A x \in Users : x \in p.touched => read[x] = owned[x]
  BY <1>3, ReadLists DEF ReadOf
<1> HIDE DEF read
<1>5. /\ q.op = p.op /\ q.course = c /\ q.step = "remove" /\ q.todo = p.touched
      /\ q.sent = p.sent /\ q.touched = p.touched /\ q.read = read /\ q \in RequestState
  BY <1>3, <1>4 DEF RequestState
<1> HIDE DEF p, q, c
<1>6. Proceeds(r, q)
  BY <1>1, <1>2, <1>3, <1>5 DEF Proceeds, Shape, p, c
<1>7. ASSUME NEW x \in Users, x \in q.touched, x \notin disturbed'
      PROVE  Phase(q, x, owned'[x], state', owners')
  BY <1>1, <1>4, <1>5, <1>7 DEF Phase
<1> QED
  BY <1>5, <1>6, <1>7, ProceedsTidy

LEMMA TidyRemoveDirectory ==
  ASSUME IInv, Tidy, NEW r \in Requests, RemoveDirectory(r)
  PROVE  Tidy'
<1> DEFINE p == req[r]
           c == p.course
           q == [p EXCEPT !.step = "drop"]
<1>1. /\ p.op = "delete" /\ p.step = "remove" /\ p.todo = {} /\ Step(r, q)
      /\ UNCHANGED <<owned, state, owners, disturbed, stranded>>
  BY DEF RemoveDirectory, At, Goto
<1>2. Busy(r)
  BY <1>1 DEF Busy
<1>3. /\ p \in RequestState /\ Shape(p) /\ Stage(p, accounts) /\ p.op # "none"
      /\ \A x \in Users : x \in p.touched /\ x \notin disturbed =>
           Phase(p, x, owned[x], state, owners)
      /\ \A d \in Courses : owners[d] # {} => state[d] = "exists"
      /\ owned \in [Users -> SUBSET Courses]
      /\ owners \in [Courses -> SUBSET accounts]
      /\ state \in [Courses -> {"new", "exists", "deleted"}]
      /\ p.op # "sanitize" <=> c \in Courses
  BY <1>2, Knows
<1>4. /\ q.op = p.op /\ q.course = c /\ q.step = "drop"
      /\ q.sent = p.sent /\ q.touched = p.touched /\ q \in RequestState
  BY <1>3 DEF RequestState
<1> HIDE DEF p, q, c
<1>5. Proceeds(r, q)
  BY <1>1, <1>2, <1>3, <1>4 DEF Proceeds, Shape, p, c
<1>6. ASSUME NEW x \in Users, x \in q.touched, x \notin disturbed'
      PROVE  Phase(q, x, owned'[x], state', owners')
  <2>1. c \notin owned[x]
    BY <1>1, <1>3, <1>4, <1>6 DEF Phase, c
  <2> QED
    BY <1>1, <1>4, <2>1 DEF Phase
<1> QED
  BY <1>4, <1>5, <1>6, ProceedsTidy

LEMMA TidyRemoveCourse ==
  ASSUME IInv, Tidy, NEW r \in Requests, RemoveCourse(r)
  PROVE  Tidy'
<1> DEFINE p == req[r]
           c == p.course
           q == [p EXCEPT !.step = "over"]
<1>1. /\ p.op = "delete" /\ p.step = "drop" /\ Step(r, q)
      /\ state' = [state EXCEPT ![c] = "deleted"] /\ owners' = [owners EXCEPT ![c] = {}]
      /\ UNCHANGED <<owned, disturbed, stranded>>
  BY DEF RemoveCourse, At, Goto
<1>2. Busy(r)
  BY <1>1 DEF Busy
<1>3. /\ p \in RequestState /\ Shape(p) /\ Stage(p, accounts) /\ p.op # "none"
      /\ \A x \in Users : x \in p.touched /\ x \notin disturbed =>
           Phase(p, x, owned[x], state, owners)
      /\ \A d \in Courses : owners[d] # {} => state[d] = "exists"
      /\ owned \in [Users -> SUBSET Courses]
      /\ owners \in [Courses -> SUBSET accounts]
      /\ state \in [Courses -> {"new", "exists", "deleted"}]
      /\ p.op # "sanitize" <=> c \in Courses
  BY <1>2, Knows
<1>4. /\ q.op = p.op /\ q.course = c /\ q.step = "over"
      /\ q.sent = p.sent /\ q.touched = p.touched /\ q \in RequestState
  BY <1>3 DEF RequestState
<1> HIDE DEF p, q, c
<1>5. p.sent = {} /\ c \in Courses
  BY <1>1, <1>3 DEF Shape
<1>6. /\ owners'[c] = {}
      /\ \A d \in Courses \ {c} : owners'[d] = owners[d] /\ state'[d] = state[d]
  BY <1>1, <1>3, <1>5
<1>7. Proceeds(r, q)
  BY <1>1, <1>2, <1>4, <1>5, <1>6 DEF Proceeds, p, c
<1>8. ASSUME NEW x \in Users, x \in q.touched, x \notin disturbed'
      PROVE  Agree(x, c, owned'[x], state', owners', stranded')
  <2>1. c \notin owned[x]
    BY <1>1, <1>3, <1>4, <1>8 DEF Phase, c
  <2> QED
    BY <1>1, <1>6, <2>1 DEF Agree
<1> QED
  BY <1>4, <1>5, <1>7, <1>8, ProceedsTidy

(* A course of an undisturbed user who is sanitized exists.                *)
LEMMA TidyCheckCourse ==
  ASSUME IInv, Tidy, NEW r \in Requests, NEW d \in Courses, CheckCourse(r, d)
  PROVE  Tidy'
<1> DEFINE p == req[r]
           c == p.course
           check == p.check \ {d}
           read == IF state[d] = "exists" THEN p.read ELSE [u \in Users |-> p.read[u] \ {d}]
           todo == IF state[d] = "exists" THEN p.todo ELSE p.touched
           q == [p EXCEPT !.check = check, !.read = read, !.todo = todo]
<1>1. /\ p.op = "sanitize" /\ p.step = "check" /\ d \in p.check
      /\ UNCHANGED <<owned, state, owners, disturbed, stranded>>
  BY DEF CheckCourse, At, data
<1>2. Busy(r)
  BY <1>1 DEF Busy
<1>3. /\ p \in RequestState /\ Shape(p) /\ Stage(p, accounts) /\ p.op # "none"
      /\ \A x \in Users : x \in p.touched /\ x \notin disturbed =>
           Phase(p, x, owned[x], state, owners)
      /\ \A x \in Courses : owners[x] # {} => state[x] = "exists"
      /\ owned \in [Users -> SUBSET Courses]
      /\ owners \in [Courses -> SUBSET accounts]
      /\ state \in [Courses -> {"new", "exists", "deleted"}]
      /\ p.op # "sanitize" <=> c \in Courses
  BY <1>2, Knows
<1>4. Step(r, q)
  <2>1. q = [req[r] EXCEPT !.check = @ \ {d},
       !.read = IF state[d] = "exists" THEN @ ELSE [u \in Users |-> @[u] \ {d}],
       !.todo = IF state[d] = "exists" THEN @ ELSE req[r].touched]
    BY <1>3 DEF RequestState
  <2> QED
    BY <2>1 DEF CheckCourse
<1>5. read \in [Users -> SUBSET Courses] /\ todo \in SUBSET Users /\ check \in SUBSET Courses
  BY <1>3 DEF RequestState
<1>6. check \subseteq p.check /\ (state[d] = "exists" => todo = p.todo)
  OBVIOUS
<1> HIDE DEF check, read, todo
<1>7. /\ q.op = p.op /\ q.course = c /\ q.step = p.step /\ q.touched = p.touched
      /\ q.sent = p.sent /\ q.check = check /\ q.todo = todo /\ q \in RequestState
  BY <1>3, <1>5 DEF RequestState
<1> HIDE DEF p, q, c
<1>8. Proceeds(r, q)
  BY <1>1, <1>2, <1>3, <1>4, <1>7 DEF Proceeds, Shape, p, c
<1>9. ASSUME NEW x \in Users, x \in q.touched, x \notin disturbed'
      PROVE  Phase(q, x, owned'[x], state', owners')
  <2>1. x \notin disturbed /\ x \notin p.todo /\ p.check \subseteq owned[x]
    BY <1>1, <1>3, <1>7, <1>9 DEF Phase
  <2>2. ASSUME NEW s \in Requests, Works(s, x) PROVE req[s].course # d
    <3>1. s = r
      BY <1>1, <1>2, <1>7, <1>9, <2>1, <2>2 DEF Tidy, Apart, Works, p
    <3> QED
      BY <1>1, <1>3, <3>1 DEF Shape, p, c
  <2>3. state[d] = "exists"
    BY <1>1, <2>1, <2>2 DEF Tidy, Agreed, Agrees, Agree
  <2> QED
    BY <1>1, <1>6, <1>7, <2>1, <2>3 DEF Phase
<1>10. q.step # "over"
  BY <1>1, <1>7
<1> QED
  BY <1>7, <1>8, <1>9, <1>10, ProceedsTidy

LEMMA TidySanitize ==
  ASSUME IInv, Tidy, NEW r \in Requests, Sanitize(r)
  PROVE  Tidy'
<1> DEFINE p == req[r]
           c == p.course
           q == [p EXCEPT !.step = "over"]
<1>1. /\ p.op = "sanitize" /\ p.step = "check" /\ Step(r, q)
      /\ owned' = [u \in Users |-> IF u \in p.todo THEN p.read[u] ELSE owned[u]]
      /\ UNCHANGED <<state, owners, disturbed, stranded>>
  BY DEF Sanitize, At, Goto
<1>2. Busy(r)
  BY <1>1 DEF Busy
<1>3. /\ p \in RequestState /\ Shape(p) /\ Stage(p, accounts) /\ p.op # "none"
      /\ \A x \in Users : x \in p.touched /\ x \notin disturbed =>
           Phase(p, x, owned[x], state, owners)
      /\ \A d \in Courses : owners[d] # {} => state[d] = "exists"
      /\ owned \in [Users -> SUBSET Courses]
      /\ owners \in [Courses -> SUBSET accounts]
      /\ state \in [Courses -> {"new", "exists", "deleted"}]
      /\ p.op # "sanitize" <=> c \in Courses
  BY <1>2, Knows
<1>4. /\ q.op = p.op /\ q.course = c /\ q.step = "over"
      /\ q.sent = p.sent /\ q.touched = p.touched /\ q \in RequestState
  BY <1>3 DEF RequestState
<1> HIDE DEF p, q, c
<1>5. p.sent = {} /\ c \notin Courses /\ p.todo \subseteq p.touched
  BY <1>1, <1>3 DEF Shape, Stage
<1>6. \A x \in Users : x \notin disturbed => owned'[x] = owned[x]
  BY <1>1, <1>3, <1>5 DEF Phase
<1>7. Proceeds(r, q)
  BY <1>1, <1>2, <1>3, <1>4, <1>5, <1>6 DEF Proceeds, p, c
<1> QED
  BY <1>4, <1>5, <1>7, ProceedsTidy

LEMMA TidyCreateUser ==
  ASSUME Tidy, NEW u \in Users, CreateUser(u)
  PROVE  Tidy'
BY DEF CreateUser, Tidy, Shapes, Apart, Covered, Listed, Phases, Agreed, Works, Busy, Agrees
------------------------------------------------------------------------------
LEMMA TidyFindForCreate ==
  ASSUME IInv, Tidy, NEW r \in Requests, NEW c \in Courses, NEW list \in SUBSET Users,
         FindForCreate(r, c, list)
  PROVE  Tidy'
<1> DEFINE q == Request("create", c, "save", list, list)
<1>1. /\ q \in RequestState /\ q.op = "create" /\ q.course = c /\ q.step = "save"
      /\ q.sent = {} /\ q.touched = list
  BY ReadLists DEF Request, RequestState
<1>2. Start(r, q) /\ state[c] = "new" /\ \A s \in Requests : req[s].course # c
  BY DEF FindForCreate
<1> HIDE DEF q
<1>3. owners[c] = {}
  BY <1>2 DEF Tidy, Listed
<1>4. Begins(r, q)
  BY <1>1, <1>2, <1>3 DEF Begins, Shape
<1>5. ASSUME NEW u \in Users, u \in q.touched, u \notin disturbed'
      PROVE  Phase(q, u, owned[u], state, owners)
  <2>1. Agrees(u, c)
    BY <1>1, <1>4, <1>5, BeginsAgreed, CoursesAssumption
  <2> QED
    BY <1>1, <1>2, <2>1 DEF Agrees, Agree, Phase
<1> QED
  BY <1>1, <1>4, <1>5, BeginsTidy

LEMMA TidyFindForUpdate ==
  ASSUME IInv, Tidy, NEW r \in Requests, NEW c \in Courses, NEW list \in SUBSET Users,
         FindForUpdate(r, c, list)
  PROVE  Tidy'
<1> DEFINE touched == owners[c] \cup list
           p == Request("update", c, "remove", list, touched)
           q == [p EXCEPT !.todo = owners[c] \ list]
<1>1. owners[c] \subseteq accounts /\ accounts \subseteq Users
  BY DEF IInv, DataOK
<1>2. /\ p \in RequestState /\ p.op = "update" /\ p.course = c /\ p.step = "remove"
      /\ p.list = list /\ p.known = list \cap accounts /\ p.sent = {} /\ p.touched = touched
      /\ \A u \in Users : u \in touched => p.read[u] = owned[u]
  BY <1>1, ReadLists DEF Request, RequestState, ReadOf
<1>3. Start(r, q) /\ state[c] = "exists"
  BY DEF FindForUpdate
<1> HIDE DEF p
<1>4. /\ q \in RequestState /\ q.op = "update" /\ q.course = c /\ q.step = "remove"
      /\ q.list = list /\ q.known = list \cap accounts /\ q.todo = owners[c] \ list
      /\ q.sent = {} /\ q.touched = touched /\ q.read = p.read
  BY <1>1, <1>2 DEF RequestState
<1> HIDE DEF q
<1>5. Begins(r, q)
  BY <1>3, <1>4 DEF Begins, Shape
<1>6. ASSUME NEW u \in Users, u \in q.touched, u \notin disturbed'
      PROVE  Phase(q, u, owned[u], state, owners)
  <2>1. Agrees(u, c)
    BY <1>4, <1>5, <1>6, BeginsAgreed, CoursesAssumption
  <2> QED
    BY <1>1, <1>2, <1>3, <1>4, <1>6, <2>1 DEF Agrees, Agree, Phase
<1> QED
  BY <1>4, <1>5, <1>6, BeginsTidy

LEMMA TidyFindForDelete ==
  ASSUME IInv, Tidy, NEW r \in Requests, NEW c \in Courses, FindForDelete(r, c)
  PROVE  Tidy'
<1> DEFINE q == Request("delete", c, "find", {}, owners[c])
<1>1. owners[c] \subseteq accounts /\ accounts \subseteq Users
  BY DEF IInv, DataOK
<1>2. /\ q \in RequestState /\ q.op = "delete" /\ q.course = c /\ q.step = "find"
      /\ q.sent = {} /\ q.touched = owners[c]
  BY <1>1, ReadLists DEF Request, RequestState
<1>3. Start(r, q)
  BY DEF FindForDelete
<1> HIDE DEF q
<1>4. Begins(r, q)
  BY <1>2, <1>3 DEF Begins, Shape
<1>5. \A u : Phase(q, u, owned[u], state, owners)
  BY <1>2 DEF Phase
<1> QED
  BY <1>2, <1>4, <1>5, BeginsTidy

LEMMA TidyFindForSanitize ==
  ASSUME IInv, Tidy, NEW r \in Requests, NEW u \in Users, FindForSanitize(r, u)
  PROVE  Tidy'
<1> DEFINE p == Request("sanitize", "none", "check", {}, {u})
           q == [p EXCEPT !.check = owned[u]]
<1>1. owned[u] \subseteq Courses
  BY DEF IInv, DataOK
<1>2. /\ p \in RequestState /\ p.op = "sanitize" /\ p.course = "none" /\ p.step = "check"
      /\ p.todo = {} /\ p.sent = {} /\ p.touched = {u}
  BY ReadLists DEF Request, RequestState
<1>3. Start(r, q)
  BY DEF FindForSanitize
<1> HIDE DEF p
<1>4. /\ q \in RequestState /\ q.op = "sanitize" /\ q.course = "none" /\ q.step = "check"
      /\ q.todo = {} /\ q.sent = {} /\ q.touched = {u} /\ q.check = owned[u]
  BY <1>1, <1>2 DEF RequestState
<1> HIDE DEF q
<1>5. Begins(r, q)
  BY <1>3, <1>4 DEF Begins, Shape
<1>6. Phase(q, u, owned[u], state, owners)
  BY <1>4 DEF Phase
<1> QED
  BY <1>4, <1>5, <1>6, BeginsTidy

LEMMA InitTidy == Init => Tidy
<1> SUFFICES ASSUME Init PROVE Tidy
  OBVIOUS
<1>1. \A r \in Requests : req[r] = NoRequest /\ ~Busy(r) /\ req[r].course = "none"
  BY DEF Init, Busy, NoRequest
<1>2. Shape(NoRequest)
  BY DEF Shape, NoRequest
<1>3. Shapes /\ Apart /\ Covered /\ Phases
  BY <1>1, <1>2 DEF Shapes, Apart, Covered, Phases, Works
<1>4. Listed /\ Agreed
  BY DEF Init, Listed, Agreed, Agrees, Agree
<1> QED
  BY <1>3, <1>4 DEF Tidy

LEMMA NextTidy == IInv /\ Tidy /\ [Next]_vars => Tidy'
<1> SUFFICES ASSUME IInv, Tidy, [Next]_vars PROVE Tidy'
  OBVIOUS
<1>1. CASE UNCHANGED vars
  BY <1>1 DEF vars, data, Tidy, Shapes, Apart, Covered, Listed, Phases, Agreed, Works, Busy, Agrees
<1>2. ASSUME NEW r \in Requests, NEW c \in Courses, NEW list \in SUBSET Users,
             FindForCreate(r, c, list) \/ FindForUpdate(r, c, list)
      PROVE  Tidy'
  BY <1>2, TidyFindForCreate, TidyFindForUpdate
<1>3. ASSUME NEW r \in Requests, NEW c \in Courses, FindForDelete(r, c) \/ CheckCourse(r, c)
      PROVE  Tidy'
  BY <1>3, TidyFindForDelete, TidyCheckCourse
<1>4. ASSUME NEW r \in Requests, NEW u \in Users,
             \/ FindForSanitize(r, u) \/ AddOwned(r, u) \/ AddOwnedFails(r, u)
             \/ NewOwner(r, u) \/ RemoveOwned(r, u)
      PROVE  Tidy'
  BY <1>4, TidyFindForSanitize, TidyAddOwned, TidyNewOwner, TidyRemoveOwned
<1>5. ASSUME NEW r \in Requests,
             \/ SaveCourse(r) \/ MakeDirectory(r) \/ MakeDirectoryFails(r) \/ ListOwners(r)
             \/ AddOwners(r) \/ FindOwners(r) \/ RemoveDirectory(r) \/ RemoveCourse(r)
             \/ Sanitize(r) \/ RequestFails(r)
      PROVE  Tidy'
  BY <1>5, TidySaveCourse, TidyMakeDirectory, TidyListOwners, TidyAddOwners, TidyFindOwners,
     TidyRemoveDirectory, TidyRemoveCourse, TidySanitize, TidyRequestFails
<1>6. ASSUME NEW u \in Users, CreateUser(u)
      PROVE  Tidy'
  BY <1>6, TidyCreateUser
<1> QED
  BY <1>1, <1>2, <1>3, <1>4, <1>5, <1>6 DEF Next

LEMMA AlwaysTidy == Spec => [](IInv /\ Tidy)
<1>1. Init => IInv /\ Tidy
  BY InitIInv, InitTidy
<1>2. IInv /\ Tidy /\ [Next]_vars => (IInv /\ Tidy)'
  BY NextIInv, NextTidy
<1> QED
  BY <1>1, <1>2, PTL DEF Spec

(* An owner no request works on has the course in the own list, unless a   *)
(* request failed, two conflicted, or no new owner had an account          *)
(* (namespaces.js 79-97, 208-339, 518-523).                                *)
THEOREM OwnersCorrect == Spec => []OwnersHaveCourse
<1>1. IInv /\ Tidy => OwnersHaveCourse
  <2> SUFFICES ASSUME IInv, Tidy, NEW c \in Courses, NEW u \in owners[c],
                      u \notin disturbed \cup stranded, ~InHand(u)
               PROVE  c \in owned[u]
    BY DEF OwnersHaveCourse
  <2>1. u \in Users
    BY DEF IInv, DataOK
  <2>2. \A r \in Requests : ~Works(r, u)
    BY DEF InHand, Works
  <2>3. Agrees(u, c)
    BY <2>1, <2>2 DEF Tidy, Agreed
  <2> QED
    BY <2>3 DEF Agrees, Agree
<1> QED
  BY <1>1, AlwaysTidy, PTL

(* A course in the list of a user exists and has the user as its owner,    *)
(* with the first two exceptions (namespaces.js 386-413, 486-611).         *)
THEOREM OwnedCorrect == Spec => []OwnedAreOwners
<1>1. IInv /\ Tidy => OwnedAreOwners
  <2> SUFFICES ASSUME IInv, Tidy, NEW u \in Users, u \notin disturbed, NEW c \in owned[u],
                      ~InHand(u)
               PROVE  state[c] = "exists" /\ u \in owners[c]
    BY DEF OwnedAreOwners
  <2>1. c \in Courses
    BY DEF IInv, DataOK
  <2>2. \A r \in Requests : ~Works(r, u)
    BY DEF InHand, Works
  <2>3. Agrees(u, c)
    BY <2>1, <2>2 DEF Tidy, Agreed
  <2> QED
    BY <2>3 DEF Agrees, Agree
<1> QED
  BY <1>1, AlwaysTidy, PTL
==============================================================================
