---------------------------- MODULE ProgressProofs ----------------------------
(***************************************************************************)
(* Proofs about Progress, for any finite set of lessons and any sets of    *)
(* grades, messages and requests.                                          *)
(***************************************************************************)
EXTENDS Progress, FiniteSetTheorems, WellFoundedInduction, TLAPS

Times(d) == [l \in Lessons |-> d[l].spentTime]

Data == [Lessons -> [spentTime : Nat, progress : Nat]]
GradesType == [Lessons -> Grades \cup {None}]
MessagesType == [Lessons -> SUBSET Messages]
BadgesType == SUBSET {"stamina", "lessons"}

UserType ==
  [spentTime : Nat, lessonData : Data, lessonGrades : GradesType,
   lessonGradeMessages : MessagesType, badges : BadgesType]

ReqType ==
  {NoRequest}
  \cup [op : {"session"}, lesson : Lessons, writes : [spentTime : Nat, lessonData : Data]]
  \cup [op : {"adjust"}, lesson : Lessons, writes : [lessonData : Data]]
  \cup [op : {"grade"}, lesson : Lessons, writes : [lessonGrades : GradesType]]
  \cup [op : {"message"}, lesson : Lessons, writes : [lessonGradeMessages : MessagesType]]
  \cup [op : {"badges"}, lesson : {None}, writes : [badges : BadgesType]]

Types ==
  /\ user \in UserType
  /\ req \in [Requests -> ReqType]
  /\ reported \in [Lessons -> Nat]
  /\ graded \in GradesType
  /\ sent \in MessagesType
  /\ shown \in BadgesType

(* Two requests in progress that write the same fields are known to        *)
(* overlap.                                                                *)
Overlaps ==
  \A r, s \in Requests :
    r # s /\ DOMAIN req[r].writes \cap DOMAIN req[s].writes # {} =>
      {req[r].op, req[s].op} \in entangled

(* What a request q will write, beside the user u and what was             *)
(* acknowledged: the total of a session is the sum it writes, ...          *)
SumReq(q, u) ==
  /\ q.op = "session" => q.writes.spentTime = SumFunction(Times(q.writes.lessonData))
  /\ q.op = "adjust" => Times(q.writes.lessonData) = Times(u.lessonData)

(* ... it has the time of all sessions and of its own, ...                 *)
TimeReq(q, rep) ==
  /\ q.op = "session" => Times(q.writes.lessonData) = [rep EXCEPT ![q.lesson] = @ + 1]
  /\ q.op = "adjust" => Times(q.writes.lessonData) = rep

(* ... lowers no progress but what it adjusts, ...                         *)
RaiseReq(q, u) ==
  /\ q.op = "session" =>
       \A k \in Lessons : q.writes.lessonData[k].progress >= u.lessonData[k].progress
  /\ q.op = "adjust" =>
       \A k \in Lessons \ {q.lesson} :
         q.writes.lessonData[k].progress = u.lessonData[k].progress

(* ... and keeps the grades and messages of other lessons, the messages of *)
(* its own, and the badges.                                                *)
GradeReq(q, g) ==
  q.op = "grade" =>
    q.writes.lessonGrades = [g EXCEPT ![q.lesson] = q.writes.lessonGrades[q.lesson]]
MessageReq(q, m) ==
  q.op = "message" =>
    /\ q.writes.lessonGradeMessages =
         [m EXCEPT ![q.lesson] = q.writes.lessonGradeMessages[q.lesson]]
    /\ m[q.lesson] \subseteq q.writes.lessonGradeMessages[q.lesson]
BadgeReq(q, b) == q.op = "badges" => b \subseteq q.writes.badges

SumInv ==
  Apart("session", "adjust") =>
    /\ user.spentTime = SumFunction(Times(user.lessonData))
    /\ \A r \in Requests : SumReq(req[r], user)

TimeInv ==
  Apart("session", "session") /\ Apart("session", "adjust") =>
    /\ Times(user.lessonData) = reported
    /\ \A r \in Requests : TimeReq(req[r], reported)

LessonsApart == \A p, q \in {"session", "adjust"} : Apart(p, q)

RaiseInv == LessonsApart => \A r \in Requests : RaiseReq(req[r], user)

GradeInv ==
  Apart("grade", "grade") =>
    user.lessonGrades = graded /\ \A r \in Requests : GradeReq(req[r], graded)

MessageInv ==
  Apart("message", "message") =>
    user.lessonGradeMessages = sent /\ \A r \in Requests : MessageReq(req[r], sent)

BadgeInv ==
  Apart("badges", "badges") =>
    user.badges = shown /\ \A r \in Requests : BadgeReq(req[r], shown)

IInv == Types /\ Overlaps /\ SumInv /\ TimeInv /\ RaiseInv /\ GradeInv /\ MessageInv /\ BadgeInv

USE ProgressAssumption

(* A set of naturals with 0 and every successor has them all.              *)
LEMMA SetInduction ==
  ASSUME NEW S \in SUBSET Nat, 0 \in S, \A n \in S : n + 1 \in S
  PROVE  S = Nat
<1> DEFINE T == Nat \ S
<1> DEFINE R == OpToRel(<, Nat)
<1>1. SUFFICES ASSUME T # {}
               PROVE  FALSE
  OBVIOUS
<1>2. IsWellFoundedOn(R, Nat)
  BY NatLessThanWellFounded
<1>3. T \subseteq Nat
  OBVIOUS
<1>4. \E x \in T : \A y \in T : <<y, x>> \notin R
  <2> HIDE DEF R, T
  <2> QED
    BY <1>1, <1>2, <1>3, WFMin
<1>5. PICK x \in Nat \ S : \A y \in Nat \ S : <<y, x>> \notin R
  BY <1>4
<1>6. \A y \in Nat \ S : ~(y < x)
  BY <1>5 DEF OpToRel
<1>7. x \in Nat /\ x \notin S /\ x # 0
  BY <1>5
<1>8. x - 1 \in S
  BY <1>6, <1>7
<1>9. (x - 1) + 1 \in S
  BY <1>8
<1> QED
  BY <1>7, <1>9
------------------------------------------------------------------------------
(* The sum of a function *)

(* SumFunction adds up the values one by one: its table has the sum over   *)
(* each set of arguments.                                                  *)
First(s) == CHOOSE x \in s : TRUE
Entry(f, g, s) == IF s = {} THEN 0 ELSE f[First(s)] + g[s \ {First(s)}]
IsTable(f, g) == g = [s \in SUBSET DOMAIN f |-> Entry(f, g, s)]
Table(f) == CHOOSE g : IsTable(f, g)

LEMMA SumIsInTable ==
  ASSUME NEW f
  PROVE  SumFunction(f) = Table(f)[DOMAIN f]
BY DEF SumFunction, SumFunctionOnSet, FoldFunctionOnSet, MapThenFoldSet,
       Table, IsTable, Entry, First

(* What is left of a set without its first element.                        *)
LEMMA Smaller ==
  ASSUME NEW S, IsFiniteSet(S), NEW s \in SUBSET S, s # {}
  PROVE  /\ First(s) \in s /\ First(s) \in S
         /\ s \ {First(s)} \in SUBSET S
         /\ Cardinality(s) \in Nat \ {0}
         /\ Cardinality(s \ {First(s)}) = Cardinality(s) - 1
<1>1. First(s) \in s
  BY DEF First
<1>2. IsFiniteSet(s)
  BY FS_Subset
<1> QED
  BY <1>1, <1>2, FS_CardinalityType, FS_EmptySet, FS_RemoveElement

LEMMA TableExists ==
  ASSUME NEW S, IsFiniteSet(S), NEW f \in [S -> Nat]
  PROVE  \E g : IsTable(f, g)
<1> DEFINE UpTo(n, g) == \A s \in SUBSET S : Cardinality(s) <= n => g[s] = Entry(f, g, s)
<1> DEFINE N == {n \in Nat : \E g \in [SUBSET S -> Nat] : UpTo(n, g)}
<1>1. \A s \in SUBSET S : IsFiniteSet(s) /\ Cardinality(s) \in Nat
  BY FS_Subset, FS_CardinalityType
<1>2. 0 \in N
  <2> DEFINE z == [s \in SUBSET S |-> 0]
  <2>1. ASSUME NEW s \in SUBSET S, Cardinality(s) <= 0
        PROVE  z[s] = Entry(f, z, s)
    <3>1. s = {}
      BY <1>1, <2>1, FS_EmptySet
    <3> QED
      BY <3>1 DEF Entry
  <2>2. z \in [SUBSET S -> Nat] /\ UpTo(0, z)
    BY <2>1
  <2> HIDE DEF z
  <2> QED
    BY <2>2
<1>3. ASSUME NEW n \in N
      PROVE  n + 1 \in N
  <2>1. PICK g \in [SUBSET S -> Nat] : UpTo(n, g)
    OBVIOUS
  <2>2. PICK h : h = [s \in SUBSET S |-> Entry(f, g, s)]
    OBVIOUS
  <2>3. h \in [SUBSET S -> Nat]
    <3>1. \A s \in SUBSET S : Entry(f, g, s) \in Nat
      <4> SUFFICES ASSUME NEW s \in SUBSET S, s # {}
                   PROVE  f[First(s)] + g[s \ {First(s)}] \in Nat
        BY DEF Entry
      <4>1. First(s) \in S /\ s \ {First(s)} \in SUBSET S
        BY Smaller
      <4>2. f[First(s)] \in Nat /\ g[s \ {First(s)}] \in Nat
        BY <4>1
      <4> QED
        BY <4>2
    <3> QED
      BY <2>2, <3>1
  <2>4. ASSUME NEW s \in SUBSET S, Cardinality(s) <= n + 1
        PROVE  h[s] = Entry(f, h, s)
    <3>1. h[s] = Entry(f, g, s)
      BY <2>2
    <3>2. CASE s = {}
      BY <3>1, <3>2 DEF Entry
    <3>3. CASE s # {}
      <4>1. PICK t : t = s \ {First(s)}
        OBVIOUS
      <4>2. t \in SUBSET S /\ Cardinality(t) = Cardinality(s) - 1
        BY <3>3, <4>1, Smaller
      <4>3. Cardinality(t) <= n
        BY <1>1, <2>4, <4>2
      <4>4. g[t] = Entry(f, g, t) /\ h[t] = Entry(f, g, t)
        BY <2>1, <2>2, <4>2, <4>3
      <4> QED
        BY <3>1, <3>3, <4>1, <4>4 DEF Entry
    <3> QED
      BY <3>2, <3>3
  <2>5. UpTo(n + 1, h)
    BY <2>4
  <2>6. n + 1 \in Nat
    OBVIOUS
  <2> HIDE DEF UpTo
  <2> QED
    BY <2>3, <2>5, <2>6
<1>4. Cardinality(S) \in N
  <2>1. N \in SUBSET Nat
    OBVIOUS
  <2> HIDE DEF N
  <2>2. N = Nat
    BY <1>2, <1>3, <2>1, SetInduction
  <2> QED
    BY <1>1, <2>2
<1>5. PICK g \in [SUBSET S -> Nat] : UpTo(Cardinality(S), g)
  BY <1>4
<1>6. \A s \in SUBSET S : g[s] = Entry(f, g, s)
  <2>1. \A s \in SUBSET S : Cardinality(s) <= Cardinality(S)
    BY FS_Subset
  <2> QED
    BY <1>5, <2>1
<1>7. g = [s \in SUBSET S |-> g[s]] /\ DOMAIN f = S
  BY <1>5
<1> QED
  BY <1>6, <1>7 DEF IsTable

LEMMA TableEntries ==
  ASSUME NEW S, IsFiniteSet(S), NEW f \in [S -> Nat]
  PROVE  \A s \in SUBSET S : Table(f)[s] = Entry(f, Table(f), s)
<1>1. IsTable(f, Table(f))
  BY TableExists DEF Table
<1> QED
  BY <1>1 DEF IsTable

(* Two functions that differ by e in one argument, and their sums.         *)
LEMMA SumOfOneMore ==
  ASSUME NEW S, IsFiniteSet(S), NEW f \in [S -> Nat], NEW l \in S
  PROVE  /\ SumFunction(f) \in Nat
         /\ SumFunction([f EXCEPT ![l] = @ + 1]) = SumFunction(f) + 1
<1>1. PICK h : h = [f EXCEPT ![l] = @ + 1]
  OBVIOUS
<1>2. h \in [S -> Nat] /\ \A x \in S : h[x] = f[x] + (IF x = l THEN 1 ELSE 0)
  BY <1>1
<1>3. PICK g, i : g = Table(f) /\ i = Table(h)
  OBVIOUS
<1>4. \A s \in SUBSET S : g[s] = Entry(f, g, s) /\ i[s] = Entry(h, i, s)
  BY <1>2, <1>3, TableEntries
<1> DEFINE UpTo(n) == \A s \in SUBSET S : Cardinality(s) <= n =>
                        g[s] \in Nat /\ i[s] = g[s] + (IF l \in s THEN 1 ELSE 0)
<1> DEFINE N == {n \in Nat : UpTo(n)}
<1>5. \A s \in SUBSET S : IsFiniteSet(s) /\ Cardinality(s) \in Nat
  BY FS_Subset, FS_CardinalityType
<1>6. g[{}] = 0 /\ i[{}] = 0
  BY <1>4 DEF Entry
<1>7. 0 \in N
  <2>1. ASSUME NEW s \in SUBSET S, Cardinality(s) <= 0
        PROVE  s = {}
    BY <1>5, <2>1, FS_EmptySet
  <2> QED
    BY <1>6, <2>1
<1>8. ASSUME NEW n \in N
      PROVE  n + 1 \in N
  <2>1. ASSUME NEW s \in SUBSET S, Cardinality(s) <= n + 1
        PROVE  g[s] \in Nat /\ i[s] = g[s] + (IF l \in s THEN 1 ELSE 0)
    <3>1. CASE s = {}
      BY <1>6, <3>1
    <3>2. CASE s # {}
      <4>1. PICK x, t : x = First(s) /\ t = s \ {x}
        OBVIOUS
      <4>2. x \in s /\ x \in S /\ t \in SUBSET S /\ Cardinality(t) = Cardinality(s) - 1
        BY <3>2, <4>1, Smaller
      <4>3. Cardinality(t) <= n
        BY <1>5, <2>1, <4>2
      <4>4. g[t] \in Nat /\ i[t] = g[t] + (IF l \in t THEN 1 ELSE 0)
        BY <4>2, <4>3
      <4>5. g[s] = f[x] + g[t] /\ i[s] = h[x] + i[t]
        BY <1>4, <3>2, <4>1 DEF Entry
      <4>6. PICK fx, hx, gt, it : fx = f[x] /\ hx = h[x] /\ gt = g[t] /\ it = i[t]
        OBVIOUS
      <4>7. fx \in Nat /\ gt \in Nat /\ hx = fx + (IF x = l THEN 1 ELSE 0)
        BY <1>2, <4>2, <4>4, <4>6
      <4>8. CASE x = l
        <5>1. l \notin t /\ l \in s
          BY <4>1, <4>2, <4>8
        <5>2. hx = fx + 1 /\ it = gt
          BY <4>4, <4>6, <4>7, <4>8, <5>1
        <5> QED
          BY <4>5, <4>6, <4>7, <5>1, <5>2
      <4>9. CASE x # l
        <5>1. l \in t <=> l \in s
          BY <4>1, <4>9
        <5>2. hx = fx /\ it = gt + (IF l \in s THEN 1 ELSE 0)
          BY <4>4, <4>6, <4>7, <4>9, <5>1
        <5> QED
          BY <4>5, <4>6, <4>7, <5>2
      <4> QED
        BY <4>8, <4>9
    <3> QED
      BY <3>1, <3>2
  <2> QED
    BY <2>1
<1>9. Cardinality(S) \in N
  <2>1. N \in SUBSET Nat
    OBVIOUS
  <2> HIDE DEF N
  <2>2. N = Nat
    BY <1>7, <1>8, <2>1, SetInduction
  <2> QED
    BY <1>5, <2>2
<1>10. g[S] \in Nat /\ i[S] = g[S] + 1
  BY <1>5, <1>9
<1> QED
  BY <1>1, <1>2, <1>3, <1>10, SumIsInTable

LEMMA SumOfZeros ==
  ASSUME NEW S, IsFiniteSet(S)
  PROVE  SumFunction([x \in S |-> 0]) = 0
<1>1. PICK f, g : f = [x \in S |-> 0] /\ g = Table(f)
  OBVIOUS
<1>2. f \in [S -> Nat] /\ \A x \in S : f[x] = 0
  BY <1>1
<1>3. \A s \in SUBSET S : g[s] = Entry(f, g, s)
  BY <1>1, <1>2, TableEntries
<1> DEFINE N == {n \in Nat : \A s \in SUBSET S : Cardinality(s) <= n => g[s] = 0}
<1>4. \A s \in SUBSET S : IsFiniteSet(s) /\ Cardinality(s) \in Nat
  BY FS_Subset, FS_CardinalityType
<1>5. g[{}] = 0
  BY <1>3 DEF Entry
<1>6. 0 \in N
  <2>1. ASSUME NEW s \in SUBSET S, Cardinality(s) <= 0
        PROVE  s = {}
    BY <1>4, <2>1, FS_EmptySet
  <2> QED
    BY <1>5, <2>1
<1>7. ASSUME NEW n \in N
      PROVE  n + 1 \in N
  <2>1. ASSUME NEW s \in SUBSET S, Cardinality(s) <= n + 1, s # {}
        PROVE  g[s] = 0
    <3>1. PICK x, t : x = First(s) /\ t = s \ {x}
      OBVIOUS
    <3>2. x \in S /\ t \in SUBSET S /\ Cardinality(t) = Cardinality(s) - 1
      BY <2>1, <3>1, Smaller
    <3>3. Cardinality(t) <= n
      BY <1>4, <2>1, <3>2
    <3>4. g[t] = 0 /\ f[x] = 0
      BY <1>2, <3>2, <3>3
    <3>5. g[s] = f[x] + g[t]
      BY <1>3, <2>1, <3>1 DEF Entry
    <3> QED
      BY <3>4, <3>5
  <2>2. \A s \in SUBSET S : Cardinality(s) <= n + 1 => g[s] = 0
    BY <1>5, <2>1
  <2>3. n + 1 \in Nat
    OBVIOUS
  <2> QED
    BY <2>2, <2>3
<1>8. Cardinality(S) \in N
  <2>1. N \in SUBSET Nat
    OBVIOUS
  <2> HIDE DEF N
  <2>2. N = Nat
    BY <1>6, <1>7, <2>1, SetInduction
  <2> QED
    BY <1>4, <2>2
<1>9. g[S] = 0
  BY <1>4, <1>8
<1> QED
  BY <1>1, <1>2, <1>9, SumIsInTable
------------------------------------------------------------------------------
(* Requests and what they write *)

LEMMA ReqShape ==
  ASSUME NEW q \in ReqType
  PROVE  /\ q.op \in {None, "session", "adjust", "grade", "message", "badges"}
         /\ q.op = None => q = NoRequest /\ DOMAIN q.writes = {}
         /\ q.op = "session" =>
              /\ q.lesson \in Lessons /\ DOMAIN q.writes = {"spentTime", "lessonData"}
              /\ q.writes.spentTime \in Nat /\ q.writes.lessonData \in Data
         /\ q.op = "adjust" =>
              /\ q.lesson \in Lessons /\ DOMAIN q.writes = {"lessonData"}
              /\ q.writes.lessonData \in Data
         /\ q.op = "grade" =>
              /\ q.lesson \in Lessons /\ DOMAIN q.writes = {"lessonGrades"}
              /\ q.writes.lessonGrades \in GradesType
         /\ q.op = "message" =>
              /\ q.lesson \in Lessons /\ DOMAIN q.writes = {"lessonGradeMessages"}
              /\ q.writes.lessonGradeMessages \in MessagesType
         /\ q.op = "badges" =>
              /\ DOMAIN q.writes = {"badges"} /\ q.writes.badges \in BadgesType
<1> USE DEF None
<1>1. CASE q = NoRequest
  BY <1>1 DEF NoRequest
<1>2. CASE q \in [op : {"session"}, lesson : Lessons,
                  writes : [spentTime : Nat, lessonData : Data]]
  BY <1>2
<1>3. CASE q \in [op : {"adjust"}, lesson : Lessons, writes : [lessonData : Data]]
  BY <1>3
<1>4. CASE q \in [op : {"grade"}, lesson : Lessons, writes : [lessonGrades : GradesType]]
  BY <1>4
<1>5. CASE q \in [op : {"message"}, lesson : Lessons,
                  writes : [lessonGradeMessages : MessagesType]]
  BY <1>5
<1>6. CASE q \in [op : {"badges"}, lesson : {None}, writes : [badges : BadgesType]]
  BY <1>6
<1> QED
  BY <1>1, <1>2, <1>3, <1>4, <1>5, <1>6 DEF ReqType

LEMMA UserShape ==
  ASSUME NEW u \in UserType
  PROVE  /\ u.spentTime \in Nat /\ u.lessonData \in Data /\ u.lessonGrades \in GradesType
         /\ u.lessonGradeMessages \in MessagesType /\ u.badges \in BadgesType
BY DEF UserType

LEMMA WrittenFields ==
  ASSUME NEW u \in UserType, NEW w, NEW v, v = Written(u, w)
  PROVE  /\ v.spentTime = IF "spentTime" \in DOMAIN w THEN w.spentTime ELSE u.spentTime
         /\ v.lessonData = IF "lessonData" \in DOMAIN w THEN w.lessonData ELSE u.lessonData
         /\ v.lessonGrades =
              IF "lessonGrades" \in DOMAIN w THEN w.lessonGrades ELSE u.lessonGrades
         /\ v.lessonGradeMessages =
              IF "lessonGradeMessages" \in DOMAIN w THEN w.lessonGradeMessages
              ELSE u.lessonGradeMessages
         /\ v.badges = IF "badges" \in DOMAIN w THEN w.badges ELSE u.badges
         /\ v = [spentTime |-> v.spentTime, lessonData |-> v.lessonData,
                 lessonGrades |-> v.lessonGrades,
                 lessonGradeMessages |-> v.lessonGradeMessages, badges |-> v.badges]
BY DEF Written, UserType

(* What an update of the request r writes, and what it leaves alone.       *)
LEMMA UpdateWrites ==
  ASSUME Types, NEW r \in Requests,
         NEW op \in {"session", "adjust", "grade", "message", "badges"}, Update(r, op)
  PROVE  /\ user' \in UserType /\ req' \in [Requests -> ReqType]
         /\ req'[r] = NoRequest /\ \A s \in Requests \ {r} : req'[s] = req[s]
         /\ req[r].op = op /\ entangled' = entangled
         /\ user'.spentTime = IF op = "session" THEN req[r].writes.spentTime ELSE user.spentTime
         /\ user'.lessonData =
              IF op \in {"session", "adjust"} THEN req[r].writes.lessonData ELSE user.lessonData
         /\ user'.lessonGrades =
              IF op = "grade" THEN req[r].writes.lessonGrades ELSE user.lessonGrades
         /\ user'.lessonGradeMessages =
              IF op = "message" THEN req[r].writes.lessonGradeMessages
              ELSE user.lessonGradeMessages
         /\ user'.badges = IF op = "badges" THEN req[r].writes.badges ELSE user.badges
<1>1. PICK q : q = req[r]
  OBVIOUS
<1>2. q \in ReqType /\ q.op = op
  BY <1>1 DEF Types, Update
<1>3. PICK w, v : w = q.writes /\ v = user'
  OBVIOUS
<1>4. user \in UserType /\ v = Written(user, w)
  BY <1>1, <1>3 DEF Types, Update
<1>5. /\ v.spentTime = IF op = "session" THEN w.spentTime ELSE user.spentTime
      /\ v.lessonData = IF op \in {"session", "adjust"} THEN w.lessonData ELSE user.lessonData
      /\ v.lessonGrades = IF op = "grade" THEN w.lessonGrades ELSE user.lessonGrades
      /\ v.lessonGradeMessages =
           IF op = "message" THEN w.lessonGradeMessages ELSE user.lessonGradeMessages
      /\ v.badges = IF op = "badges" THEN w.badges ELSE user.badges
  <2>1. /\ "spentTime" \in DOMAIN w <=> op = "session"
        /\ "lessonData" \in DOMAIN w <=> op \in {"session", "adjust"}
        /\ "lessonGrades" \in DOMAIN w <=> op = "grade"
        /\ "lessonGradeMessages" \in DOMAIN w <=> op = "message"
        /\ "badges" \in DOMAIN w <=> op = "badges"
    BY <1>2, <1>3, ReqShape
  <2> QED
    BY <1>4, <2>1, WrittenFields
<1>6. v \in UserType
  <2>1. v = [spentTime |-> v.spentTime, lessonData |-> v.lessonData,
             lessonGrades |-> v.lessonGrades,
             lessonGradeMessages |-> v.lessonGradeMessages, badges |-> v.badges]
    BY <1>4, WrittenFields
  <2>2. /\ user.spentTime \in Nat /\ user.lessonData \in Data /\ user.lessonGrades \in GradesType
        /\ user.lessonGradeMessages \in MessagesType /\ user.badges \in BadgesType
    BY <1>4, UserShape
  <2>3. /\ op = "session" => w.spentTime \in Nat
        /\ op \in {"session", "adjust"} => w.lessonData \in Data
        /\ op = "grade" => w.lessonGrades \in GradesType
        /\ op = "message" => w.lessonGradeMessages \in MessagesType
        /\ op = "badges" => w.badges \in BadgesType
    BY <1>2, <1>3, ReqShape
  <2>4. /\ v.spentTime \in Nat /\ v.lessonData \in Data /\ v.lessonGrades \in GradesType
        /\ v.lessonGradeMessages \in MessagesType /\ v.badges \in BadgesType
    BY <1>5, <2>2, <2>3
  <2> QED
    BY <2>1, <2>4 DEF UserType
<1>7. /\ req' \in [Requests -> ReqType] /\ req'[r] = NoRequest
      /\ \A s \in Requests \ {r} : req'[s] = req[s]
  BY DEF Types, Update, ReqType
<1>8. entangled' = entangled
  BY DEF Update
<1> QED
  BY <1>1, <1>2, <1>3, <1>5, <1>6, <1>7, <1>8

(* Two requests that write the same fields are known to overlap.           *)
LEMMA NotApart ==
  ASSUME Types, Overlaps, NEW r \in Requests, NEW s \in Requests, r # s
  PROVE  /\ req[r].op \in {"session", "adjust"} /\ req[s].op \in {"session", "adjust"} =>
              ~Apart(req[r].op, req[s].op)
         /\ req[r].op = req[s].op /\ req[r].op # None => ~Apart(req[r].op, req[r].op)
<1>1. req[r] \in ReqType /\ req[s] \in ReqType
  BY DEF Types
<1>2. DOMAIN req[r].writes \cap DOMAIN req[s].writes # {} => ~Apart(req[r].op, req[s].op)
  BY DEF Overlaps, Apart
<1>3. ASSUME req[r].op \in {"session", "adjust"}, req[s].op \in {"session", "adjust"}
      PROVE  "lessonData" \in DOMAIN req[r].writes /\ "lessonData" \in DOMAIN req[s].writes
  BY <1>1, <1>3, ReqShape
<1>4. ASSUME req[r].op = req[s].op, req[r].op # None
      PROVE  \E f : f \in DOMAIN req[r].writes /\ f \in DOMAIN req[s].writes
  BY <1>1, <1>4, ReqShape
<1> QED
  BY <1>2, <1>3, <1>4
------------------------------------------------------------------------------
(* What leaves the parts of the invariant alone *)

LEMMA NoRequestPromises ==
  \A u, f : /\ SumReq(NoRequest, u) /\ TimeReq(NoRequest, f) /\ RaiseReq(NoRequest, u)
            /\ GradeReq(NoRequest, f) /\ MessageReq(NoRequest, f) /\ BadgeReq(NoRequest, f)
BY DEF SumReq, TimeReq, RaiseReq, GradeReq, MessageReq, BadgeReq, NoRequest, None

LEMMA OverlapsKept ==
  ASSUME Overlaps, entangled \subseteq entangled',
         \A s \in Requests : req'[s] = req[s] \/ req'[s] = NoRequest
  PROVE  Overlaps'
<1>1. DOMAIN NoRequest.writes = {}
  BY DEF NoRequest
<1> QED
  BY <1>1 DEF Overlaps

LEMMA SumKept ==
  ASSUME SumInv, entangled \subseteq entangled',
         user'.spentTime = user.spentTime, user'.lessonData = user.lessonData,
         \A s \in Requests : \/ req'[s] = req[s] \/ req'[s] = NoRequest
                             \/ Apart("session", "adjust") => SumReq(req'[s], user)
  PROVE  SumInv'
<1> SUFFICES ASSUME Apart("session", "adjust")
             PROVE  /\ user'.spentTime = SumFunction(Times(user'.lessonData))
                    /\ \A s \in Requests : SumReq(req'[s], user')
  BY DEF SumInv, Apart
<1>1. \A s \in Requests : SumReq(req'[s], user)
  BY NoRequestPromises DEF SumInv
<1>2. \A q : SumReq(q, user) => SumReq(q, user')
  BY DEF SumReq
<1> QED
  BY <1>1, <1>2 DEF SumInv

LEMMA TimeKept ==
  ASSUME TimeInv, entangled \subseteq entangled',
         user'.lessonData = user.lessonData, reported' = reported,
         \A s \in Requests :
           \/ req'[s] = req[s] \/ req'[s] = NoRequest
           \/ Apart("session", "session") /\ Apart("session", "adjust")
                => TimeReq(req'[s], reported)
  PROVE  TimeInv'
<1> SUFFICES ASSUME Apart("session", "session"), Apart("session", "adjust")
             PROVE  /\ Times(user'.lessonData) = reported
                    /\ \A s \in Requests : TimeReq(req'[s], reported)
  BY DEF TimeInv, Apart
<1> QED
  BY NoRequestPromises DEF TimeInv

LEMMA RaiseKept ==
  ASSUME RaiseInv, entangled \subseteq entangled', user'.lessonData = user.lessonData,
         \A s \in Requests : \/ req'[s] = req[s] \/ req'[s] = NoRequest
                             \/ LessonsApart => RaiseReq(req'[s], user)
  PROVE  RaiseInv'
<1> SUFFICES ASSUME LessonsApart, NEW s \in Requests
             PROVE  RaiseReq(req'[s], user')
  BY DEF RaiseInv, LessonsApart, Apart
<1>1. RaiseReq(req'[s], user)
  BY NoRequestPromises DEF RaiseInv
<1> QED
  BY <1>1 DEF RaiseReq

LEMMA GradeKept ==
  ASSUME GradeInv, entangled \subseteq entangled',
         user'.lessonGrades = user.lessonGrades, graded' = graded,
         \A s \in Requests : \/ req'[s] = req[s] \/ req'[s] = NoRequest
                             \/ Apart("grade", "grade") => GradeReq(req'[s], graded)
  PROVE  GradeInv'
<1> SUFFICES ASSUME Apart("grade", "grade")
             PROVE  /\ user'.lessonGrades = graded
                    /\ \A s \in Requests : GradeReq(req'[s], graded)
  BY DEF GradeInv, Apart
<1> QED
  BY NoRequestPromises DEF GradeInv

LEMMA MessageKept ==
  ASSUME MessageInv, entangled \subseteq entangled',
         user'.lessonGradeMessages = user.lessonGradeMessages, sent' = sent,
         \A s \in Requests : \/ req'[s] = req[s] \/ req'[s] = NoRequest
                             \/ Apart("message", "message") => MessageReq(req'[s], sent)
  PROVE  MessageInv'
<1> SUFFICES ASSUME Apart("message", "message")
             PROVE  /\ user'.lessonGradeMessages = sent
                    /\ \A s \in Requests : MessageReq(req'[s], sent)
  BY DEF MessageInv, Apart
<1> QED
  BY NoRequestPromises DEF MessageInv

LEMMA BadgeKept ==
  ASSUME BadgeInv, entangled \subseteq entangled',
         user'.badges = user.badges, shown' = shown,
         \A s \in Requests : \/ req'[s] = req[s] \/ req'[s] = NoRequest
                             \/ Apart("badges", "badges") => BadgeReq(req'[s], shown)
  PROVE  BadgeInv'
<1> SUFFICES ASSUME Apart("badges", "badges")
             PROVE  /\ user'.badges = shown
                    /\ \A s \in Requests : BadgeReq(req'[s], shown)
  BY DEF BadgeInv, Apart
<1> QED
  BY NoRequestPromises DEF BadgeInv

(* A request that begins, if what it will write is as the invariant has it.*)
LEMMA BeginKeeps ==
  ASSUME IInv, NEW r \in Requests, NEW op, NEW l, NEW w, Begin(r, op, l, w),
         NEW q \in ReqType, q = [op |-> op, lesson |-> l, writes |-> w],
         Apart("session", "adjust") => SumReq(q, user),
         Apart("session", "session") /\ Apart("session", "adjust") => TimeReq(q, reported),
         LessonsApart => RaiseReq(q, user),
         Apart("grade", "grade") => GradeReq(q, graded),
         Apart("message", "message") => MessageReq(q, sent),
         Apart("badges", "badges") => BadgeReq(q, shown)
  PROVE  IInv'
<1>1. /\ req' = [req EXCEPT ![r] = q] /\ entangled \subseteq entangled'
      /\ user' = user /\ reported' = reported /\ graded' = graded /\ sent' = sent
      /\ shown' = shown
  BY DEF Begin, history
<1>2. req \in [Requests -> ReqType]
  BY DEF IInv, Types
<1>3. req'[r] = q /\ \A s \in Requests \ {r} : req'[s] = req[s]
  BY <1>1, <1>2
<1>4. Types'
  BY <1>1, <1>2 DEF IInv, Types
<1>5. Overlaps'
  <2> SUFFICES ASSUME NEW s \in Requests, NEW t \in Requests, s # t,
                      DOMAIN req'[s].writes \cap DOMAIN req'[t].writes # {}
               PROVE  {req'[s].op, req'[t].op} \in entangled'
    BY DEF Overlaps
  <2>1. \A x \in Requests :
          DOMAIN req[x].writes \cap DOMAIN w # {} => {op, req[x].op} \in entangled'
    BY DEF Begin
  <2>2. q.op = op /\ q.writes = w
    OBVIOUS
  <2>3. CASE s = r
    BY <1>3, <2>1, <2>2, <2>3
  <2>4. CASE t = r
    BY <1>3, <2>1, <2>2, <2>4
  <2>5. CASE s # r /\ t # r
    BY <1>1, <1>3, <2>5 DEF IInv, Overlaps
  <2> QED
    BY <2>3, <2>4, <2>5
<1>6. SumInv' /\ TimeInv' /\ RaiseInv'
  BY <1>1, <1>3, SumKept, TimeKept, RaiseKept DEF IInv
<1>7. GradeInv' /\ MessageInv' /\ BadgeInv'
  BY <1>1, <1>3, GradeKept, MessageKept, BadgeKept DEF IInv
<1> QED
  BY <1>4, <1>5, <1>6, <1>7 DEF IInv
------------------------------------------------------------------------------
(* Requests that begin *)

LEMMA SessionBegins ==
  ASSUME IInv, NEW r \in Requests, NEW l \in Lessons, BeginSession(r, l)
  PROVE  IInv'
<1>1. PICK p \in 0 .. MaxProgress : Begin(r, "session", l, SessionWrites(l, 1, p))
  BY DEF BeginSession
<1>2. PICK d, w, q : d = user.lessonData /\ w = SessionWrites(l, 1, p)
                     /\ q = [op |-> "session", lesson |-> l, writes |-> w]
  OBVIOUS
<1>3. d \in Data /\ user.spentTime \in Nat /\ p \in Nat
  BY <1>2, UserShape DEF IInv, Types
<1>4. PICK x, y : x = d[l].spentTime /\ y = Raised(d[l].progress, p)
  OBVIOUS
<1>5. x \in Nat /\ y \in Nat /\ y >= d[l].progress
  <2>1. x \in Nat /\ d[l].progress \in Nat
    BY <1>3, <1>4 DEF Data
  <2> QED
    BY <1>3, <1>4, <2>1 DEF Raised
<1>6. w = [spentTime |-> user.spentTime + 1,
           lessonData |-> [d EXCEPT ![l] = [spentTime |-> x + 1, progress |-> y]]]
  BY <1>2, <1>4 DEF SessionWrites
<1>7. PICK e : e = [d EXCEPT ![l] = [spentTime |-> x + 1, progress |-> y]]
  OBVIOUS
<1>8. e \in Data /\ e[l].spentTime = x + 1 /\ e[l].progress = y
      /\ \A k \in Lessons \ {l} : e[k] = d[k]
  <2>1. [spentTime |-> x + 1, progress |-> y] \in [spentTime : Nat, progress : Nat]
    BY <1>5
  <2>2. d \in [Lessons -> [spentTime : Nat, progress : Nat]]
    BY <1>3 DEF Data
  <2>3. e[l] = [spentTime |-> x + 1, progress |-> y]
    BY <1>7, <2>2
  <2>4. e \in Data
    BY <1>7, <2>1, <2>2 DEF Data
  <2> QED
    BY <1>7, <2>2, <2>3, <2>4
<1>9. /\ q.op = "session" /\ q.lesson = l /\ q.writes = w
      /\ w.spentTime = user.spentTime + 1 /\ w.lessonData = e
  BY <1>2, <1>6, <1>7
<1>10. q \in ReqType
  <2>1. w \in [spentTime : Nat, lessonData : Data]
    BY <1>3, <1>6, <1>7, <1>8
  <2> QED
    BY <1>2, <2>1 DEF ReqType
<1>11. Times(d) \in [Lessons -> Nat] /\ Times(e) = [Times(d) EXCEPT ![l] = @ + 1]
  <2>1. \A k \in Lessons : d[k].spentTime \in Nat
    BY <1>3 DEF Data
  <2>2. \A k \in Lessons : e[k].spentTime = d[k].spentTime + (IF k = l THEN 1 ELSE 0)
    BY <1>4, <1>8, <2>1
  <2>3. PICK f, h : f = Times(d) /\ h = Times(e)
    OBVIOUS
  <2>4. f = [k \in Lessons |-> d[k].spentTime] /\ h = [k \in Lessons |-> e[k].spentTime]
    BY <2>3 DEF Times
  <2>5. f \in [Lessons -> Nat] /\ \A k \in Lessons : f[k] \in Nat
    BY <2>1, <2>4
  <2>6. \A k \in Lessons : h[k] = f[k] + (IF k = l THEN 1 ELSE 0)
    BY <2>2, <2>4
  <2>7. \A k \in Lessons : h[k] = [f EXCEPT ![l] = @ + 1][k]
    BY <2>5, <2>6
  <2>8. h = [f EXCEPT ![l] = @ + 1]
    BY <2>4, <2>5, <2>7
  <2> QED
    BY <2>3, <2>5, <2>8
<1>12. Apart("session", "adjust") => SumReq(q, user)
  <2>1. SumFunction(Times(e)) = SumFunction(Times(d)) + 1
    <3>1. PICK f : f = Times(d)
      OBVIOUS
    <3>2. f \in [Lessons -> Nat] /\ Times(e) = [f EXCEPT ![l] = @ + 1]
      BY <1>11, <3>1
    <3>3. SumFunction([f EXCEPT ![l] = @ + 1]) = SumFunction(f) + 1
      BY <3>2, SumOfOneMore
    <3> QED
      BY <3>1, <3>2, <3>3
  <2> QED
    BY <1>2, <1>9, <2>1 DEF IInv, SumInv, SumReq
<1>13. Apart("session", "session") /\ Apart("session", "adjust") => TimeReq(q, reported)
  BY <1>2, <1>9, <1>11 DEF IInv, TimeInv, TimeReq
<1>14. RaiseReq(q, user)
  <2>1. \A k \in Lessons : e[k].progress >= d[k].progress
    <3>1. \A k \in Lessons : d[k].progress \in Nat
      BY <1>3 DEF Data
    <3> QED
      BY <1>5, <1>8, <3>1
  <2> QED
    BY <1>2, <1>9, <2>1 DEF RaiseReq
<1>15. GradeReq(q, graded) /\ MessageReq(q, sent) /\ BadgeReq(q, shown)
  BY <1>9 DEF GradeReq, MessageReq, BadgeReq
<1> QED
  BY <1>1, <1>2, <1>10, <1>12, <1>13, <1>14, <1>15, BeginKeeps

LEMMA AdjustBegins ==
  ASSUME IInv, NEW r \in Requests, NEW l \in Lessons, BeginAdjust(r, l)
  PROVE  IInv'
<1>1. PICK p \in 0 .. MaxProgress :
        Begin(r, "adjust", l, [lessonData |-> [user.lessonData EXCEPT ![l].progress = p]])
  BY DEF BeginAdjust
<1>2. PICK d, e, w, q : d = user.lessonData /\ e = [d EXCEPT ![l].progress = p]
                        /\ w = [lessonData |-> e]
                        /\ q = [op |-> "adjust", lesson |-> l, writes |-> w]
  OBVIOUS
<1>3. d \in Data /\ p \in Nat
  BY <1>2, UserShape DEF IInv, Types
<1>4. e \in Data /\ (\A k \in Lessons : e[k].spentTime = d[k].spentTime)
      /\ \A k \in Lessons \ {l} : e[k] = d[k]
  BY <1>2, <1>3 DEF Data
<1>5. q.op = "adjust" /\ q.lesson = l /\ q.writes = w /\ w.lessonData = e
  BY <1>2
<1>6. q \in ReqType
  <2>1. w \in [lessonData : Data]
    BY <1>2, <1>4
  <2> QED
    BY <1>2, <2>1 DEF ReqType
<1>7. Times(e) = Times(d)
  BY <1>4 DEF Times
<1>8. SumReq(q, user)
  BY <1>2, <1>5, <1>7 DEF SumReq
<1>9. Apart("session", "session") /\ Apart("session", "adjust") => TimeReq(q, reported)
  BY <1>2, <1>5, <1>7 DEF IInv, TimeInv, TimeReq
<1>10. RaiseReq(q, user)
  <2>1. q.writes.lessonData = e /\ q.lesson = l /\ q.op # "session"
    BY <1>5
  <2>2. \A k \in Lessons \ {l} : e[k].progress = user.lessonData[k].progress
    BY <1>2, <1>4
  <2> QED
    BY <2>1, <2>2 DEF RaiseReq
<1>11. GradeReq(q, graded) /\ MessageReq(q, sent) /\ BadgeReq(q, shown)
  BY <1>5 DEF GradeReq, MessageReq, BadgeReq
<1> QED
  BY <1>1, <1>2, <1>6, <1>8, <1>9, <1>10, <1>11, BeginKeeps

LEMMA GradeBegins ==
  ASSUME IInv, NEW r \in Requests, NEW l \in Lessons, BeginGrade(r, l)
  PROVE  IInv'
<1>1. PICK g \in Grades :
        Begin(r, "grade", l, [lessonGrades |-> [user.lessonGrades EXCEPT ![l] = g]])
  BY DEF BeginGrade
<1>2. PICK d, e, w, q : d = user.lessonGrades /\ e = [d EXCEPT ![l] = g]
                        /\ w = [lessonGrades |-> e]
                        /\ q = [op |-> "grade", lesson |-> l, writes |-> w]
  OBVIOUS
<1>3. d \in GradesType
  BY <1>2, UserShape DEF IInv, Types
<1>4. e \in GradesType /\ e[l] = g
  BY <1>2, <1>3 DEF GradesType
<1>5. q.op = "grade" /\ q.lesson = l /\ q.writes = w /\ w.lessonGrades = e
  BY <1>2
<1>6. q \in ReqType
  <2>1. w \in [lessonGrades : GradesType]
    BY <1>2, <1>4
  <2> QED
    BY <1>2, <2>1 DEF ReqType
<1>7. Apart("grade", "grade") => GradeReq(q, graded)
  BY <1>2, <1>4, <1>5 DEF IInv, GradeInv, GradeReq
<1>8. /\ SumReq(q, user) /\ TimeReq(q, reported) /\ RaiseReq(q, user)
      /\ MessageReq(q, sent) /\ BadgeReq(q, shown)
  BY <1>5 DEF SumReq, TimeReq, RaiseReq, MessageReq, BadgeReq
<1> QED
  BY <1>1, <1>2, <1>6, <1>7, <1>8, BeginKeeps

LEMMA MessageBegins ==
  ASSUME IInv, NEW r \in Requests, NEW l \in Lessons, BeginMessage(r, l)
  PROVE  IInv'
<1>1. PICK m \in Messages :
        Begin(r, "message", l, [lessonGradeMessages |-> MessagesWith(l, m)])
  BY DEF BeginMessage
<1>2. PICK d, e, w, q : d = user.lessonGradeMessages /\ e = MessagesWith(l, m)
                        /\ w = [lessonGradeMessages |-> e]
                        /\ q = [op |-> "message", lesson |-> l, writes |-> w]
  OBVIOUS
<1>3. d \in MessagesType
  BY <1>2, UserShape DEF IInv, Types
<1>4. e \in MessagesType /\ e = [d EXCEPT ![l] = e[l]] /\ d[l] \subseteq e[l]
  <2>1. e = [d EXCEPT ![l] = d[l] \cup {m}]
    BY <1>2 DEF MessagesWith
  <2>2. e[l] = d[l] \cup {m} /\ d[l] \in SUBSET Messages
    BY <1>3, <2>1 DEF MessagesType
  <2> QED
    BY <1>3, <2>1, <2>2 DEF MessagesType
<1>5. q.op = "message" /\ q.lesson = l /\ q.writes = w /\ w.lessonGradeMessages = e
  BY <1>2
<1>6. q \in ReqType
  <2>1. w \in [lessonGradeMessages : MessagesType]
    BY <1>2, <1>4
  <2> QED
    BY <1>2, <2>1 DEF ReqType
<1>7. Apart("message", "message") => MessageReq(q, sent)
  BY <1>2, <1>4, <1>5 DEF IInv, MessageInv, MessageReq
<1>8. /\ SumReq(q, user) /\ TimeReq(q, reported) /\ RaiseReq(q, user)
      /\ GradeReq(q, graded) /\ BadgeReq(q, shown)
  BY <1>5 DEF SumReq, TimeReq, RaiseReq, GradeReq, BadgeReq
<1> QED
  BY <1>1, <1>2, <1>6, <1>7, <1>8, BeginKeeps

LEMMA BadgesBegin ==
  ASSUME IInv, NEW r \in Requests, BeginBadges(r)
  PROVE  IInv'
<1>1. PICK e, w, q : e = user.badges \cup badgeCheck /\ w = [badges |-> e]
                     /\ q = [op |-> "badges", lesson |-> None, writes |-> w]
  OBVIOUS
<1>2. e \in BadgesType /\ user.badges \subseteq e
  <2>1. user.badges \in BadgesType
    BY UserShape DEF IInv, Types
  <2>2. badgeCheck \subseteq {"stamina", "lessons"}
    BY DEF badgeCheck
  <2> QED
    BY <1>1, <2>1, <2>2 DEF BadgesType
<1>3. q.op = "badges" /\ q.writes = w /\ w.badges = e
  BY <1>1
<1>4. q \in ReqType
  <2>1. w \in [badges : BadgesType]
    BY <1>1, <1>2
  <2> QED
    BY <1>1, <2>1 DEF ReqType
<1>5. Apart("badges", "badges") => BadgeReq(q, shown)
  BY <1>2, <1>3 DEF IInv, BadgeInv, BadgeReq
<1>6. /\ SumReq(q, user) /\ TimeReq(q, reported) /\ RaiseReq(q, user)
      /\ GradeReq(q, graded) /\ MessageReq(q, sent)
  BY <1>3 DEF SumReq, TimeReq, RaiseReq, GradeReq, MessageReq
<1>7. Begin(r, "badges", None, w)
  BY <1>1 DEF BeginBadges
<1> QED
  BY <1>1, <1>4, <1>5, <1>6, <1>7, BeginKeeps
------------------------------------------------------------------------------
(* Requests that end *)

LEMMA SessionEnds ==
  ASSUME IInv, NEW r \in Requests, Session(r)
  PROVE  IInv'
<1>1. PICK q : q = req[r]
  OBVIOUS
<1>2. /\ user' \in UserType /\ req' \in [Requests -> ReqType]
      /\ req'[r] = NoRequest /\ \A s \in Requests \ {r} : req'[s] = req[s]
      /\ q.op = "session" /\ entangled' = entangled
      /\ user'.spentTime = q.writes.spentTime /\ user'.lessonData = q.writes.lessonData
      /\ user'.lessonGrades = user.lessonGrades
      /\ user'.lessonGradeMessages = user.lessonGradeMessages /\ user'.badges = user.badges
  BY <1>1, UpdateWrites DEF Session, IInv
<1>3. /\ reported' = [reported EXCEPT ![q.lesson] = @ + 1]
      /\ graded' = graded /\ sent' = sent /\ shown' = shown
  BY <1>1 DEF Session
<1>4. q.lesson \in Lessons
  BY <1>1, <1>2, ReqShape DEF IInv, Types
<1>5. Types'
  BY <1>2, <1>3, <1>4 DEF IInv, Types
<1>6. \A s \in Requests : req'[s] = req[s] \/ req'[s] = NoRequest
  BY <1>2
<1>7. Overlaps'
  BY <1>2, <1>6, OverlapsKept DEF IInv
<1>8. \A s \in Requests \ {r} :
        /\ req[s].op = "adjust" => ~Apart("session", "adjust")
        /\ req[s].op = "session" => ~Apart("session", "session")
  BY <1>1, <1>2, NotApart DEF IInv
<1>9. SumInv'
  <2> SUFFICES ASSUME Apart("session", "adjust")
               PROVE  /\ user'.spentTime = SumFunction(Times(user'.lessonData))
                      /\ \A s \in Requests : SumReq(req'[s], user')
    BY <1>2 DEF SumInv, Apart
  <2>1. \A s \in Requests : SumReq(req[s], user)
    BY DEF IInv, SumInv
  <2>2. user'.spentTime = SumFunction(Times(user'.lessonData))
    BY <1>1, <1>2, <2>1 DEF SumReq
  <2>3. ASSUME NEW s \in Requests \ {r}
        PROVE  SumReq(req'[s], user')
    BY <1>2, <1>8, <2>1, <2>3 DEF SumReq
  <2> QED
    BY <1>2, <2>2, <2>3, NoRequestPromises
<1>10. TimeInv'
  <2> SUFFICES ASSUME Apart("session", "session"), Apart("session", "adjust")
               PROVE  /\ Times(user'.lessonData) = reported'
                      /\ \A s \in Requests : TimeReq(req'[s], reported')
    BY <1>2 DEF TimeInv, Apart
  <2>1. TimeReq(q, reported)
    BY <1>1 DEF IInv, TimeInv
  <2>2. Times(user'.lessonData) = reported'
    BY <1>2, <1>3, <2>1 DEF TimeReq
  <2>3. ASSUME NEW s \in Requests \ {r}
        PROVE  TimeReq(req'[s], reported')
    BY <1>2, <1>8, <2>3 DEF TimeReq
  <2> QED
    BY <1>2, <2>2, <2>3, NoRequestPromises
<1>11. RaiseInv'
  <2> SUFFICES ASSUME LessonsApart, NEW s \in Requests
               PROVE  RaiseReq(req'[s], user')
    BY <1>2 DEF RaiseInv, LessonsApart, Apart
  <2>1. CASE s = r
    BY <1>2, <2>1, NoRequestPromises
  <2>2. CASE s # r
    BY <1>2, <1>8, <2>2 DEF RaiseReq, LessonsApart
  <2> QED
    BY <2>1, <2>2
<1>12. GradeInv' /\ MessageInv' /\ BadgeInv'
  BY <1>2, <1>3, <1>6, GradeKept, MessageKept, BadgeKept DEF IInv
<1> QED
  BY <1>5, <1>7, <1>9, <1>10, <1>11, <1>12 DEF IInv

LEMMA AdjustEnds ==
  ASSUME IInv, NEW r \in Requests, Adjust(r)
  PROVE  IInv'
<1>1. PICK q : q = req[r]
  OBVIOUS
<1>2. /\ user' \in UserType /\ req' \in [Requests -> ReqType]
      /\ req'[r] = NoRequest /\ \A s \in Requests \ {r} : req'[s] = req[s]
      /\ q.op = "adjust" /\ entangled' = entangled
      /\ user'.spentTime = user.spentTime /\ user'.lessonData = q.writes.lessonData
      /\ user'.lessonGrades = user.lessonGrades
      /\ user'.lessonGradeMessages = user.lessonGradeMessages /\ user'.badges = user.badges
  BY <1>1, UpdateWrites DEF Adjust, IInv
<1>3. reported' = reported /\ graded' = graded /\ sent' = sent /\ shown' = shown
  BY DEF Adjust, history
<1>4. Types'
  BY <1>2, <1>3 DEF IInv, Types
<1>5. \A s \in Requests : req'[s] = req[s] \/ req'[s] = NoRequest
  BY <1>2
<1>6. Overlaps'
  BY <1>2, <1>5, OverlapsKept DEF IInv
<1>7. \A s \in Requests \ {r} :
        /\ req[s].op = "session" => ~Apart("adjust", "session") /\ ~Apart("session", "adjust")
        /\ req[s].op = "adjust" => ~Apart("adjust", "adjust")
  <2>1. Apart("adjust", "session") <=> Apart("session", "adjust")
    <3>1. {"adjust", "session"} = {"session", "adjust"}
      OBVIOUS
    <3> QED
      BY <3>1 DEF Apart
  <2> QED
    BY <1>1, <1>2, <2>1, NotApart DEF IInv
<1>8. SumInv'
  <2> SUFFICES ASSUME Apart("session", "adjust")
               PROVE  /\ user'.spentTime = SumFunction(Times(user'.lessonData))
                      /\ \A s \in Requests : SumReq(req'[s], user')
    BY <1>2 DEF SumInv, Apart
  <2>1. /\ user.spentTime = SumFunction(Times(user.lessonData))
        /\ \A s \in Requests : SumReq(req[s], user)
    BY DEF IInv, SumInv
  <2>2. Times(user'.lessonData) = Times(user.lessonData)
    BY <1>1, <1>2, <2>1 DEF SumReq
  <2>3. \A x : SumReq(x, user) => SumReq(x, user')
    BY <2>2 DEF SumReq
  <2> QED
    BY <1>2, <1>5, <2>1, <2>2, <2>3, NoRequestPromises
<1>9. TimeInv'
  <2> SUFFICES ASSUME Apart("session", "session"), Apart("session", "adjust")
               PROVE  /\ Times(user'.lessonData) = reported
                      /\ \A s \in Requests : TimeReq(req'[s], reported)
    BY <1>2, <1>3 DEF TimeInv, Apart
  <2>1. \A s \in Requests : TimeReq(req[s], reported)
    BY DEF IInv, TimeInv
  <2>2. Times(user'.lessonData) = reported
    BY <1>1, <1>2, <2>1 DEF TimeReq
  <2> QED
    BY <1>5, <2>1, <2>2, NoRequestPromises
<1>10. RaiseInv'
  <2> SUFFICES ASSUME LessonsApart, NEW s \in Requests
               PROVE  RaiseReq(req'[s], user')
    BY <1>2 DEF RaiseInv, LessonsApart, Apart
  <2>1. CASE s = r
    BY <1>2, <2>1, NoRequestPromises
  <2>2. CASE s # r
    BY <1>2, <1>7, <2>2 DEF RaiseReq, LessonsApart
  <2> QED
    BY <2>1, <2>2
<1>11. GradeInv' /\ MessageInv' /\ BadgeInv'
  BY <1>2, <1>3, <1>5, GradeKept, MessageKept, BadgeKept DEF IInv
<1> QED
  BY <1>4, <1>6, <1>8, <1>9, <1>10, <1>11 DEF IInv

LEMMA GradeEnds ==
  ASSUME IInv, NEW r \in Requests, Grade(r)
  PROVE  IInv'
<1>1. PICK q : q = req[r]
  OBVIOUS
<1>2. /\ user' \in UserType /\ req' \in [Requests -> ReqType]
      /\ req'[r] = NoRequest /\ \A s \in Requests \ {r} : req'[s] = req[s]
      /\ q.op = "grade" /\ entangled' = entangled
      /\ user'.spentTime = user.spentTime /\ user'.lessonData = user.lessonData
      /\ user'.lessonGrades = q.writes.lessonGrades
      /\ user'.lessonGradeMessages = user.lessonGradeMessages /\ user'.badges = user.badges
  BY <1>1, UpdateWrites DEF Grade, IInv
<1>3. /\ graded' = [graded EXCEPT ![q.lesson] = q.writes.lessonGrades[q.lesson]]
      /\ reported' = reported /\ sent' = sent /\ shown' = shown
  BY <1>1 DEF Grade
<1>4. Types'
  <2>1. q.lesson \in Lessons /\ q.writes.lessonGrades \in GradesType
    BY <1>1, <1>2, ReqShape DEF IInv, Types
  <2> QED
    BY <1>2, <1>3, <2>1 DEF IInv, Types, GradesType
<1>5. \A s \in Requests : req'[s] = req[s] \/ req'[s] = NoRequest
  BY <1>2
<1>6. Overlaps'
  BY <1>2, <1>5, OverlapsKept DEF IInv
<1>7. GradeInv'
  <2> SUFFICES ASSUME Apart("grade", "grade")
               PROVE  /\ user'.lessonGrades = graded'
                      /\ \A s \in Requests : GradeReq(req'[s], graded')
    BY <1>2 DEF GradeInv, Apart
  <2>1. GradeReq(q, graded)
    BY <1>1 DEF IInv, GradeInv
  <2>2. user'.lessonGrades = graded'
    BY <1>2, <1>3, <2>1 DEF GradeReq
  <2>3. ASSUME NEW s \in Requests \ {r}
        PROVE  req'[s].op # "grade"
    BY <1>1, <1>2, NotApart DEF IInv, None
  <2> QED
    BY <1>2, <2>2, <2>3, NoRequestPromises DEF GradeReq
<1>8. SumInv' /\ TimeInv' /\ RaiseInv' /\ MessageInv' /\ BadgeInv'
  BY <1>2, <1>3, <1>5, SumKept, TimeKept, RaiseKept, MessageKept, BadgeKept DEF IInv
<1> QED
  BY <1>4, <1>6, <1>7, <1>8 DEF IInv

LEMMA MessageEnds ==
  ASSUME IInv, NEW r \in Requests, Message(r)
  PROVE  IInv'
<1>1. PICK q, m : q = req[r] /\ m = req[r].writes.lessonGradeMessages
  OBVIOUS
<1>2. /\ user' \in UserType /\ req' \in [Requests -> ReqType]
      /\ req'[r] = NoRequest /\ \A s \in Requests \ {r} : req'[s] = req[s]
      /\ q.op = "message" /\ entangled' = entangled
      /\ user'.spentTime = user.spentTime /\ user'.lessonData = user.lessonData
      /\ user'.lessonGrades = user.lessonGrades
      /\ user'.lessonGradeMessages = m /\ user'.badges = user.badges
  BY <1>1, UpdateWrites DEF Message, IInv
<1>3. /\ sent' = [sent EXCEPT ![q.lesson] = sent[q.lesson] \cup m[q.lesson]]
      /\ reported' = reported /\ graded' = graded /\ shown' = shown
  BY <1>1 DEF Message
<1>4. q.lesson \in Lessons /\ m \in MessagesType
  BY <1>1, <1>2, ReqShape DEF IInv, Types
<1>5. Types'
  <2>1. sent' \in MessagesType
    BY <1>3, <1>4 DEF IInv, Types, MessagesType
  <2> QED
    BY <1>2, <1>3, <2>1 DEF IInv, Types
<1>6. \A s \in Requests : req'[s] = req[s] \/ req'[s] = NoRequest
  BY <1>2
<1>7. Overlaps'
  BY <1>2, <1>6, OverlapsKept DEF IInv
<1>8. MessageInv'
  <2> SUFFICES ASSUME Apart("message", "message")
               PROVE  /\ user'.lessonGradeMessages = sent'
                      /\ \A s \in Requests : MessageReq(req'[s], sent')
    BY <1>2 DEF MessageInv, Apart
  <2>1. MessageReq(q, sent)
    BY <1>1 DEF IInv, MessageInv
  <2>2. m = [sent EXCEPT ![q.lesson] = m[q.lesson]] /\ sent[q.lesson] \subseteq m[q.lesson]
    BY <1>1, <1>2, <2>1 DEF MessageReq
  <2>3. sent[q.lesson] \cup m[q.lesson] = m[q.lesson]
    BY <2>2
  <2>4. user'.lessonGradeMessages = sent'
    BY <1>2, <1>3, <2>2, <2>3
  <2>5. ASSUME NEW s \in Requests \ {r}
        PROVE  req'[s].op # "message"
    BY <1>1, <1>2, NotApart DEF IInv, None
  <2> QED
    BY <1>2, <2>4, <2>5, NoRequestPromises DEF MessageReq
<1>9. SumInv' /\ TimeInv' /\ RaiseInv' /\ GradeInv' /\ BadgeInv'
  BY <1>2, <1>3, <1>6, SumKept, TimeKept, RaiseKept, GradeKept, BadgeKept DEF IInv
<1> QED
  BY <1>5, <1>7, <1>8, <1>9 DEF IInv

LEMMA BadgesEnd ==
  ASSUME IInv, NEW r \in Requests, Badges(r)
  PROVE  IInv'
<1>1. PICK q : q = req[r]
  OBVIOUS
<1>2. /\ user' \in UserType /\ req' \in [Requests -> ReqType]
      /\ req'[r] = NoRequest /\ \A s \in Requests \ {r} : req'[s] = req[s]
      /\ q.op = "badges" /\ entangled' = entangled
      /\ user'.spentTime = user.spentTime /\ user'.lessonData = user.lessonData
      /\ user'.lessonGrades = user.lessonGrades
      /\ user'.lessonGradeMessages = user.lessonGradeMessages
      /\ user'.badges = q.writes.badges
  BY <1>1, UpdateWrites DEF Badges, IInv
<1>3. /\ shown' = shown \cup q.writes.badges
      /\ reported' = reported /\ graded' = graded /\ sent' = sent
  BY <1>1 DEF Badges
<1>4. Types'
  <2>1. q.writes.badges \in BadgesType
    BY <1>1, <1>2, ReqShape DEF IInv, Types
  <2> QED
    BY <1>2, <1>3, <2>1 DEF IInv, Types, BadgesType
<1>5. \A s \in Requests : req'[s] = req[s] \/ req'[s] = NoRequest
  BY <1>2
<1>6. Overlaps'
  BY <1>2, <1>5, OverlapsKept DEF IInv
<1>7. BadgeInv'
  <2> SUFFICES ASSUME Apart("badges", "badges")
               PROVE  /\ user'.badges = shown'
                      /\ \A s \in Requests : BadgeReq(req'[s], shown')
    BY <1>2 DEF BadgeInv, Apart
  <2>1. shown \subseteq q.writes.badges
    BY <1>1, <1>2 DEF IInv, BadgeInv, BadgeReq
  <2>2. user'.badges = shown'
    BY <1>2, <1>3, <2>1
  <2>3. ASSUME NEW s \in Requests \ {r}
        PROVE  req'[s].op # "badges"
    BY <1>1, <1>2, NotApart DEF IInv, None
  <2> QED
    BY <1>2, <2>2, <2>3, NoRequestPromises DEF BadgeReq
<1>8. SumInv' /\ TimeInv' /\ RaiseInv' /\ GradeInv' /\ MessageInv'
  BY <1>2, <1>3, <1>5, SumKept, TimeKept, RaiseKept, GradeKept, MessageKept DEF IInv
<1> QED
  BY <1>4, <1>6, <1>7, <1>8 DEF IInv

LEMMA RequestFailsKeeps ==
  ASSUME IInv, NEW r \in Requests, RequestFails(r)
  PROVE  IInv'
<1>1. /\ req' = [req EXCEPT ![r] = NoRequest] /\ entangled' = entangled
      /\ user' = user /\ reported' = reported /\ graded' = graded /\ sent' = sent
      /\ shown' = shown
  BY DEF RequestFails, history
<1>2. Types'
  BY <1>1 DEF IInv, Types, ReqType
<1>3. \A s \in Requests : req'[s] = req[s] \/ req'[s] = NoRequest
  BY <1>1 DEF IInv, Types
<1>4. Overlaps'
  BY <1>1, <1>3, OverlapsKept DEF IInv
<1>5. SumInv' /\ TimeInv' /\ RaiseInv'
  BY <1>1, <1>3, SumKept, TimeKept, RaiseKept DEF IInv
<1>6. GradeInv' /\ MessageInv' /\ BadgeInv'
  BY <1>1, <1>3, GradeKept, MessageKept, BadgeKept DEF IInv
<1> QED
  BY <1>2, <1>4, <1>5, <1>6 DEF IInv
------------------------------------------------------------------------------
(* The invariant *)

LEMMA InitInvariant ==
  Init => IInv
<1> SUFFICES ASSUME Init
             PROVE  IInv
  OBVIOUS
<1>1. \A r \in Requests : req[r] = NoRequest
  BY DEF Init
<1>2. PICK d : d = user.lessonData
  OBVIOUS
<1>3. d = [l \in Lessons |-> [spentTime |-> 0, progress |-> 0]] /\ d \in Data
  BY <1>2 DEF Init, Data
<1>4. Times(d) = [l \in Lessons |-> 0]
  BY <1>3 DEF Times
<1>5. Types
  <2>1. user \in UserType
    <3>1. user = [spentTime |-> 0, lessonData |-> d, lessonGrades |-> [l \in Lessons |-> None],
                  lessonGradeMessages |-> [l \in Lessons |-> {}], badges |-> {}]
      BY <1>3 DEF Init
    <3> QED
      BY <1>3, <3>1 DEF UserType, GradesType, MessagesType, BadgesType
  <2>2. req \in [Requests -> ReqType]
    BY DEF Init, ReqType
  <2> QED
    BY <2>1, <2>2 DEF Init, Types, GradesType, MessagesType, BadgesType
<1>6. Overlaps
  <2>1. DOMAIN NoRequest.writes = {}
    BY DEF NoRequest
  <2> QED
    BY <1>1, <2>1 DEF Overlaps
<1>7. SumInv /\ TimeInv /\ RaiseInv
  <2>1. user.spentTime = SumFunction(Times(user.lessonData))
    BY <1>2, <1>4, SumOfZeros DEF Init
  <2>2. Times(user.lessonData) = reported
    BY <1>2, <1>4 DEF Init
  <2> QED
    BY <1>1, <2>1, <2>2, NoRequestPromises DEF SumInv, TimeInv, RaiseInv
<1>8. GradeInv /\ MessageInv /\ BadgeInv
  <2>1. user.lessonGrades = graded /\ user.lessonGradeMessages = sent /\ user.badges = shown
    BY DEF Init
  <2> QED
    BY <1>1, <2>1, NoRequestPromises DEF GradeInv, MessageInv, BadgeInv
<1> QED
  BY <1>5, <1>6, <1>7, <1>8 DEF IInv

LEMMA NextInvariant ==
  IInv /\ [Next]_vars => IInv'
<1> SUFFICES ASSUME IInv, [Next]_vars
             PROVE  IInv'
  OBVIOUS
<1>1. CASE UNCHANGED vars
  BY <1>1 DEF vars, history, IInv, Types, Overlaps, SumInv, TimeInv, RaiseInv, LessonsApart,
              GradeInv, MessageInv, BadgeInv, Apart, SumReq, RaiseReq
<1>2. ASSUME NEW r \in Requests, NEW l \in Lessons,
             BeginSession(r, l) \/ BeginAdjust(r, l) \/ BeginGrade(r, l) \/ BeginMessage(r, l)
      PROVE  IInv'
  BY <1>2, SessionBegins, AdjustBegins, GradeBegins, MessageBegins
<1>3. ASSUME NEW r \in Requests,
             \/ Session(r) \/ Adjust(r) \/ Grade(r) \/ Message(r)
             \/ BeginBadges(r) \/ Badges(r) \/ RequestFails(r)
      PROVE  IInv'
  BY <1>3, SessionEnds, AdjustEnds, GradeEnds, MessageEnds, BadgesBegin, BadgesEnd,
     RequestFailsKeeps
<1> QED
  BY <1>1, <1>2, <1>3 DEF Next

LEMMA Invariance ==
  Spec => []IInv
BY InitInvariant, NextInvariant, PTL DEF Spec

(* The total of the time spent is the sum over the lessons, as long as no  *)
(* session overlapped an adjustment of progress: overlapping sessions may  *)
(* lose time, but never part the two (users.js, update_user_session).      *)
THEOREM SumCorrect ==
  Spec => []TotalIsSum
<1>1. IInv => TotalIsSum
  BY DEF IInv, SumInv, TotalIsSum, Times
<1> QED
  BY <1>1, Invariance, PTL

(* Time, grades, messages and badges that were acknowledged are kept,      *)
(* unless requests that write the same fields overlapped (users.js,        *)
(* badges.js).                                                             *)
THEOREM RecordsCorrect ==
  Spec => []RecordsAreKept
<1>1. ASSUME Times(user.lessonData) = reported
      PROVE  \A l \in Lessons : user.lessonData[l].spentTime = reported[l]
  BY <1>1 DEF Times
<1>2. IInv => RecordsAreKept
  BY <1>1 DEF IInv, TimeInv, GradeInv, MessageInv, BadgeInv, RecordsAreKept
<1> QED
  BY <1>2, Invariance, PTL

LEMMA Lowered ==
  ASSUME IInv, [Next]_vars, NEW l \in Lessons,
         user'.lessonData[l].progress < user.lessonData[l].progress
  PROVE  \/ \E r \in Requests : Adjust(r) /\ req[r].lesson = l
         \/ \E p, q \in {"session", "adjust"} : ~Apart(p, q)
<1>1. SUFFICES ASSUME LessonsApart
               PROVE  \E r \in Requests : Adjust(r) /\ req[r].lesson = l
  BY DEF LessonsApart
<1>2. user.lessonData[l].progress \in Nat
  <2>1. user.lessonData \in Data
    BY UserShape DEF IInv, Types
  <2> QED
    BY <2>1 DEF Data
<1>3. user'.lessonData # user.lessonData
  BY <1>2
<1>4. ASSUME NEW r \in Requests, Session(r)
      PROVE  FALSE
  <2>1. PICK e : e = req[r].writes.lessonData
    OBVIOUS
  <2>2. user'.lessonData = e /\ req[r].op = "session"
    BY <1>4, <2>1, UpdateWrites DEF Session, IInv
  <2>3. e[l].progress >= user.lessonData[l].progress
    BY <1>1, <2>1, <2>2 DEF IInv, RaiseInv, RaiseReq
  <2>4. e[l].progress \in Nat
    <3>1. e \in Data
      BY <2>1, <2>2, ReqShape DEF IInv, Types
    <3> QED
      BY <3>1 DEF Data
  <2> QED
    BY <1>2, <2>2, <2>3, <2>4
<1>5. ASSUME NEW r \in Requests, Adjust(r)
      PROVE  req[r].lesson = l
  <2> SUFFICES ASSUME req[r].lesson # l
               PROVE  FALSE
    OBVIOUS
  <2>1. user'.lessonData = req[r].writes.lessonData /\ req[r].op = "adjust"
    BY <1>5, UpdateWrites DEF Adjust, IInv
  <2>2. req[r].writes.lessonData[l].progress = user.lessonData[l].progress
    BY <1>1, <2>1 DEF IInv, RaiseInv, RaiseReq
  <2> QED
    BY <1>2, <2>1, <2>2
<1>6. ASSUME NEW r \in Requests, Grade(r) \/ Message(r) \/ Badges(r)
      PROVE  FALSE
  BY <1>3, <1>6, UpdateWrites DEF Grade, Message, Badges, IInv
<1>7. ASSUME NEW r \in Requests, RequestFails(r)
      PROVE  FALSE
  BY <1>3, <1>7 DEF RequestFails
<1>8. ASSUME NEW r \in Requests, NEW k \in Lessons,
             BeginSession(r, k) \/ BeginAdjust(r, k) \/ BeginGrade(r, k) \/ BeginMessage(r, k)
      PROVE  FALSE
  BY <1>3, <1>8 DEF BeginSession, BeginAdjust, BeginGrade, BeginMessage, Begin
<1>9. ASSUME NEW r \in Requests, BeginBadges(r)
      PROVE  FALSE
  BY <1>3, <1>9 DEF BeginBadges, Begin
<1>10. CASE UNCHANGED vars
  BY <1>3, <1>10 DEF vars
<1> QED
  BY <1>4, <1>5, <1>6, <1>7, <1>8, <1>9, <1>10 DEF Next

(* The progress of a user in a lesson is lowered by an adjustment in that  *)
(* lesson only, unless requests that write lessons overlapped (users.js).  *)
THEOREM LoweredCorrect ==
  Spec => OnlyAdjustmentsLower
<1> DEFINE A == \A l \in Lessons :
       user'.lessonData[l].progress < user.lessonData[l].progress =>
         \/ \E r \in Requests : Adjust(r) /\ req[r].lesson = l
         \/ \E p, q \in {"session", "adjust"} : ~Apart(p, q)
<1>1. IInv /\ [Next]_vars => [A]_vars
  BY Lowered
<1> QED
  BY <1>1, Invariance, PTL DEF Spec, OnlyAdjustmentsLower
==============================================================================
