------------------------------ MODULE Progress ------------------------------
(***************************************************************************)
(* What is kept of a user's work: time spent, progress in each lesson,     *)
(* grades, messages about grades, and badges (lib/users.js, lib/badges.js, *)
(* lib/badge_check/index.js).  A request computes new values from the user *)
(* document as it was read, when the request was authenticated             *)
(* (lib/passport.js) or by a query of its own, and writes them by one      *)
(* $set: whole objects with the entries of all lessons, but no other       *)
(* fields of the user.                                                     *)
(*                                                                         *)
(* One user is modelled.  Score, chat messages and counts of actions are   *)
(* added to as time is, and are left out; two of the badges stand for all. *)
(***************************************************************************)
EXTENDS Naturals, FiniteSets, Functions

CONSTANTS
  Lessons,     \* lessons the user works on
  Grades,      \* grades a lesson may be given
  Messages,    \* messages about grades that may be sent
  Requests,    \* requests that can be in progress at once
  MaxProgress, \* progress in a lesson is 0 .. MaxProgress
  Threshold,   \* progress from which a lesson is mastered
  MaxTime,     \* bound: sessions are reported for this much time
  Stamina,     \* a user who spent more time has the badge "stamina"
  Mastered     \* a user who mastered so many lessons has the badge "lessons"

ASSUME ProgressAssumption ==
  /\ IsFiniteSet(Lessons)
  /\ {MaxProgress, Threshold, MaxTime, Stamina, Mastered} \subseteq Nat

VARIABLES
  user,      \* the document of the user
  req,       \* req[r]: what the request r does and will write
  reported,  \* history: reported[l]: time of the sessions in l that were acknowledged
  graded,    \* history: graded[l]: the grade last acknowledged
  sent,      \* history: sent[l]: the messages acknowledged
  shown,     \* history: badges the user was shown as acquired
  entangled  \* history: pairs of operations that write the same fields, and of which
             \* two requests overlapped

history == <<reported, graded, sent, shown>>
vars == <<user, req, history, entangled>>

None == "none"
NoRequest == [op |-> None, lesson |-> None, writes |-> <<>>]

Init ==
  /\ user = [spentTime |-> 0,
             lessonData |-> [l \in Lessons |-> [spentTime |-> 0, progress |-> 0]],
             lessonGrades |-> [l \in Lessons |-> None],
             lessonGradeMessages |-> [l \in Lessons |-> {}],
             badges |-> {}]
  /\ req = [r \in Requests |-> NoRequest]
  /\ reported = [l \in Lessons |-> 0]
  /\ graded = [l \in Lessons |-> None]
  /\ sent = [l \in Lessons |-> {}]
  /\ shown = {}
  /\ entangled = {}

Busy(r) == req[r].op # None

Begin(r, op, l, writes) ==
  /\ ~Busy(r)
  /\ req' = [req EXCEPT ![r] = [op |-> op, lesson |-> l, writes |-> writes]]
  /\ entangled' = entangled \cup
       {{op, req[s].op} : s \in {x \in Requests : DOMAIN req[x].writes \cap DOMAIN writes # {}}}
  /\ UNCHANGED <<user, history>>

(* User.updateOne, or updateOne of the document: the fields given are set, *)
(* and what is given of a lesson replaces what the lesson had.             *)
Written(d, w) == [f \in DOMAIN d |-> IF f \in DOMAIN w THEN w[f] ELSE d[f]]

(* Mutant: time is incremented in the database, the rest is set.           *)
UpdateIncrements(r, op) ==
  /\ req[r].op = op
  /\ user' = [Written(user, req[r].writes) EXCEPT
                !.spentTime = IF op = "session" THEN user.spentTime + 1 ELSE @]
  /\ req' = [req EXCEPT ![r] = NoRequest]
  /\ UNCHANGED entangled

Update(r, op) ==
  /\ req[r].op = op
  /\ user' = Written(user, req[r].writes)
  /\ req' = [req EXCEPT ![r] = NoRequest]
  /\ UNCHANGED entangled
------------------------------------------------------------------------------
(* update_user_session: the client reports a session of the user.          *)

(* Mutant: what the client reports is taken over.                          *)
Overwritten(old, progress) == progress

Raised(old, progress) == IF old = 0 \/ progress > old THEN progress ELSE old

SessionWrites(l, elapsed, progress) ==
  LET data == user.lessonData[l] IN
  [spentTime |-> user.spentTime + elapsed,
   lessonData |-> [user.lessonData EXCEPT
                     ![l] = [spentTime |-> data.spentTime + elapsed,
                             progress |-> Raised(data.progress, progress)]]]

BeginSession(r, l) ==
  /\ SumFunction(reported) < MaxTime
  /\ \E progress \in 0 .. MaxProgress : Begin(r, "session", l, SessionWrites(l, 1, progress))

Session(r) ==
  /\ Update(r, "session")
  /\ reported' = [reported EXCEPT ![req[r].lesson] = @ + 1]
  /\ UNCHANGED <<graded, sent, shown>>
------------------------------------------------------------------------------
(* What the owners of the course decide: progress, grades, messages *)

BeginAdjust(r, l) ==
  \E progress \in 0 .. MaxProgress :
    Begin(r, "adjust", l, [lessonData |-> [user.lessonData EXCEPT ![l].progress = progress]])

Adjust(r) == Update(r, "adjust") /\ UNCHANGED history

BeginGrade(r, l) ==
  \E g \in Grades : Begin(r, "grade", l, [lessonGrades |-> [user.lessonGrades EXCEPT ![l] = g]])

Grade(r) ==
  /\ Update(r, "grade")
  /\ graded' = [graded EXCEPT ![req[r].lesson] = req[r].writes.lessonGrades[req[r].lesson]]
  /\ UNCHANGED <<reported, sent, shown>>

(* Mutant: the message replaces those of the lesson.                       *)
MessagesWithOnly(l, m) == [user.lessonGradeMessages EXCEPT ![l] = {m}]

MessagesWith(l, m) == [user.lessonGradeMessages EXCEPT ![l] = @ \cup {m}]

BeginMessage(r, l) ==
  \E m \in Messages :
    /\ \A k \in Lessons : m \notin sent[k]
    /\ Begin(r, "message", l, [lessonGradeMessages |-> MessagesWith(l, m)])

Message(r) ==
  LET l == req[r].lesson IN
  /\ Update(r, "message")
  /\ sent' = [sent EXCEPT ![l] = @ \cup (req[r].writes.lessonGradeMessages[l])]
  /\ UNCHANGED <<reported, graded, shown>>
------------------------------------------------------------------------------
(* get_user_badges *)

masteredLessons == Cardinality({l \in Lessons : user.lessonData[l].progress >= Threshold})

badgeCheck ==
  {b \in {"stamina", "lessons"} \ user.badges :
     IF b = "stamina" THEN user.spentTime > Stamina ELSE masteredLessons >= Mastered}

BeginBadges(r) == Begin(r, "badges", None, [badges |-> user.badges \cup badgeCheck])

Badges(r) ==
  /\ Update(r, "badges")
  /\ shown' = shown \cup req[r].writes.badges
  /\ UNCHANGED <<reported, graded, sent>>
------------------------------------------------------------------------------
RequestFails(r) ==
  /\ Busy(r)
  /\ req' = [req EXCEPT ![r] = NoRequest]
  /\ UNCHANGED <<user, history, entangled>>

Next ==
  \E r \in Requests :
    \/ \E l \in Lessons :
         \/ BeginSession(r, l) \/ BeginAdjust(r, l) \/ BeginGrade(r, l) \/ BeginMessage(r, l)
    \/ Session(r) \/ Adjust(r) \/ Grade(r) \/ Message(r)
    \/ BeginBadges(r) \/ Badges(r)
    \/ RequestFails(r)

Spec == Init /\ [][Next]_vars
------------------------------------------------------------------------------
Apart(p, q) == {p, q} \notin entangled

(* The time spent is the sum of the times spent in the lessons, even when  *)
(* sessions reported at once overwrite one another: both are written at    *)
(* once.  Only a session that overlaps an adjustment of progress, which    *)
(* writes the lessons without the total, may part them.                    *)
TotalIsSum ==
  Apart("session", "adjust") =>
    user.spentTime = SumFunction([l \in Lessons |-> user.lessonData[l].spentTime])

(* What a request was acknowledged to have recorded is kept, whatever      *)
(* requests of other kinds do meanwhile: the time of sessions, grades,     *)
(* messages, and badges, which stay when progress is lowered.  Requests of *)
(* one kind that overlap may lose some of it.                              *)
RecordsAreKept ==
  /\ Apart("session", "session") /\ Apart("session", "adjust") =>
       \A l \in Lessons : user.lessonData[l].spentTime = reported[l]
  /\ Apart("grade", "grade") => user.lessonGrades = graded
  /\ Apart("message", "message") => user.lessonGradeMessages = sent
  /\ Apart("badges", "badges") => user.badges = shown

(* Only an owner of the course lowers the progress of a user in a lesson,  *)
(* by adjusting it, unless requests that write lessons overlapped.         *)
OnlyAdjustmentsLower ==
  [][\A l \in Lessons :
       user'.lessonData[l].progress < user.lessonData[l].progress =>
         \/ \E r \in Requests : Adjust(r) /\ req[r].lesson = l
         \/ \E p, q \in {"session", "adjust"} : ~Apart(p, q)]_vars
==============================================================================
