---------------------------- MODULE LessonsProofs ----------------------------
(***************************************************************************)
(* The lesson, its place in the list and its files agree, for any number   *)
(* of lessons, titles and requests.  The invariant follows each request    *)
(* through its steps: a title on which no request works is settled, one    *)
(* that a request has in hand is as far as the request's step says         *)
(* (Phase), and two requests have the same title in hand only if it raced. *)
(***************************************************************************)
EXTENDS Lessons, TLAPS

(* What the invariant says of a title is stated of the set L of the        *)
(* lessons that have it, the directories D and the list S; w: the list was *)
(* rewritten.                                                              *)
Settled(t, L, D, S, w) == (L # {} <=> t \in D) /\ (w \/ L \subseteq S)

Phase(q, t, L, D, S, w) ==
  /\ q.step \in {"lookup", "check"} => Settled(t, L, D, S, w)
  /\ q.op = "create" /\ q.step = "store" => L = {} /\ t \notin D
  /\ q.op = "copy" /\ q.step = "files" => Settled(t, L, D, S, w)
  /\ q.op = "copy" /\ q.step = "store" => t \in D /\ (w \/ L \subseteq S)
  /\ q.op = "copyAll" /\ q.step = "store" => Settled(t, L, D, S, w)
  /\ q.step \in {"collect", "list"} =>
       L # {} /\ L \subseteq q.lessons /\ (t \in q.files \/ t \in D)
  /\ q.op \in {"create", "copyAll"} /\ q.step = "files" =>
       L # {} /\ (w \/ L \subseteq S) /\ (t \in q.files \/ t \in D)
  /\ q.step = "unlist" => L \subseteq q.lessons
  /\ q.op = "delete" /\ q.step \in {"files", "drop"} => w \/ L \cap S = {}
  /\ q.step = "drop" => t \notin D
  /\ q.op = "update" /\ q.step \in {"lookup", "rename"} =>
       Settled(t, L, D, S, w) /\ (t = q.to => L = {})
  /\ q.step = "rename" => (t = q.from => L \subseteq q.lessons)
  /\ q.step = "move" =>
       IF t = q.from THEN L = {} ELSE L # {} /\ t \notin D /\ (w \/ L \subseteq S)

(* What the fields of a request say of each other.                         *)
Fields(q) ==
  /\ q.op = "none" => q = NoRequest
  /\ q.op = "copy" => q.titles = {q.to}
  /\ q.op = "create" /\ q.step # "files" => q.titles = {q.to}
  /\ q.op = "delete" => q.titles = {q.from}
  /\ q.op = "update" => q.titles = {q.from, q.to} /\ q.from # q.to
  /\ q.op \in {"order", "fill", "announce"} => q.titles = {}
  /\ q.op \in {"create", "copyAll"} /\ q.step # "files" => q.files = q.titles
  /\ q.op \in {"create", "copyAll"} /\ q.step = "files" =>
       q.files \subseteq q.titles /\ q.files # {}
  /\ q.op \notin {"create", "copyAll"} => q.files = {}
  /\ q.step = "unlist" => q.op = "delete"
  /\ q.step = "rename" => q.op = "update" /\ \E l \in Lessons : q.lessons = {l}
  /\ q.fills => Lists(q)

(* The lessons a request has found or stored have a title it works on; S   *)
(* are the lessons stored, R the titles that raced.                        *)
Holds(q, l, S, tl, R) ==
  /\ Lists(q) => tl[l] \in R \/ (l \in S /\ tl[l] \in q.titles)
  /\ q.step \in {"unlist", "rename"} => tl[l] = q.from \/ {tl[l], q.from} \subseteq R

(* What a request that will write the list whole knows of it.              *)
ListsOf(q, S, ls) ==
  /\ q.fills /\ ~q.stale => ls = {}
  /\ q.fills /\ q.step \in {"collect", "list"} => q.lessons \subseteq S
  /\ q.fills /\ q.step = "list" => q.lessons \subseteq q.whole /\ q.whole \subseteq S
  /\ q.op = "fill" /\ q.step = "list" => q.whole = S

Created == {l \in Lessons : state[l] # "new"}

Types ==
  /\ TypeOK
  /\ \A r \in Requests : req[r].lessons \cup req[r].whole \subseteq Created
  /\ \A r \in Requests : Fields(req[r])

Apart == \A r, s \in Requests : r # s => req[r].titles \cap req[s].titles \subseteq raced

PhaseOf(q, t) == Phase(q, t, Titled(t), directory, listed, rewritten)
SettledNow(t) == Settled(t, Titled(t), directory, listed, rewritten)

Phases == \A r \in Requests : \A t \in req[r].titles \ raced : PhaseOf(req[r], t)
FreeSettled == \A t \in Titles \ raced : InHand(t) \/ SettledNow(t)

Held == \A r \in Requests : \A l \in req[r].lessons : Holds(req[r], l, Stored, title, raced)

Gone(l) == state[l] = "deleted" /\ title[l] \in raced
ListInv ==
  rewritten \/ /\ \A l \in listed : l \in Stored \/ Gone(l)
               /\ \A r, s \in Requests : r # s => ~Undoes(req[r], req[s])
               /\ \A r \in Requests : ListsOf(req[r], Stored, listed)

IInv == Types /\ Apart /\ Phases /\ FreeSettled /\ Held /\ ListInv /\ TitlesAreUnique
------------------------------------------------------------------------------
(* A step of the request r, which was q and is q2.  The other requests     *)
(* have learnt at most that the course has a new version.                  *)
Alike(p, p2) == p2 = p \/ (p.op # "none" /\ p2 = [p EXCEPT !.stale = TRUE])

Others(r, q2) ==
  /\ req' \in [Requests -> RequestState] /\ req'[r] = q2
  /\ \A s \in Requests \ {r} : Alike(req[s], req'[s])
  /\ raced \subseteq raced' /\ (rewritten => rewritten')

(* What it does to the titles it does not work on ...                      *)
Beyond(r, q) ==
  \A t \in Titles \ (q.titles \cup raced') :
    /\ Titled(t)' = Titled(t) /\ (t \in directory' <=> t \in directory)
    /\ rewritten' \/ (Titled(t) \subseteq listed => Titled(t) \subseteq listed')
    /\ \/ rewritten' \/ (Titled(t) \cap listed = {} => Titled(t) \cap listed' = {})
       \/ \A s \in Requests \ {r} : req[s].op # "delete"

(* ... to the lessons other requests may hold ...                          *)
Moves(q) ==
  \A l \in Created :
    /\ \/ (l \in Stored' <=> l \in Stored) /\ title'[l] = title[l]
       \/ title[l] \in q.titles \cup raced
    /\ title[l] \in raced => title'[l] \in raced'

(* ... to the list ...                                                     *)
ListMoves(r, q, q2) ==
  rewritten' \/
    /\ \A l \in listed' : l \in Stored' \/ Gone(l)'
    /\ q2.op \in {q.op, "none"} /\ (q2.fills => q.fills)
    /\ \A s \in Requests \ {r} :
         req[s].fills => listed' = listed \/ listed' = {} \/ req'[s].stale
    /\ Stored \subseteq Stored' \/ q.op = "delete"
    /\ Stored' = Stored \/ Lists(q) \/ q.op = "delete"
    /\ ListsOf(q2, Stored', listed')

(* ... and to those it has in hand.                                        *)
Own(q, q2) ==
  /\ q2.titles \subseteq q.titles
  /\ \A t \in q2.titles \ raced' : Phase(q2, t, Titled(t)', directory', listed', rewritten')
  /\ \A t \in q.titles \ (q2.titles \cup raced') :
       Settled(t, Titled(t)', directory', listed', rewritten')
  /\ \A l, m \in Stored' :
       l # m /\ title'[l] = title'[m] /\ title'[l] \in q.titles => title'[l] \in raced'
  /\ \A l \in q2.lessons : Holds(q2, l, Stored', title', raced')
------------------------------------------------------------------------------
(* The phase of a title a request has in hand is not disturbed by a step   *)
(* that leaves the title alone.                                            *)
LEMMA PhaseKept ==
  ASSUME NEW p, NEW p2, Alike(p, p2), p \in RequestState,
         NEW t, NEW L, NEW D, NEW D2, NEW S, NEW S2, NEW w \in BOOLEAN, NEW w2 \in BOOLEAN,
         t \in D2 <=> t \in D,
         w => w2,
         w2 \/ (L \subseteq S => L \subseteq S2),
         w2 \/ (L \cap S = {} => L \cap S2 = {}) \/ p.op # "delete",
         Phase(p, t, L, D, S, w)
  PROVE  Phase(p2, t, L, D2, S2, w2)
<1>1. /\ p2.op = p.op /\ p2.step = p.step /\ p2.lessons = p.lessons
      /\ p2.files = p.files /\ p2.from = p.from /\ p2.to = p.to
  BY DEF Alike, RequestState
<1>2. w \/ L \subseteq S => w2 \/ L \subseteq S2
  OBVIOUS
<1>3. Settled(t, L, D, S, w) => Settled(t, L, D2, S2, w2)
  BY <1>2 DEF Settled
<1>4. p.op = "delete" => (w \/ L \cap S = {} => w2 \/ L \cap S2 = {})
  OBVIOUS
<1> QED
  BY <1>1, <1>2, <1>3, <1>4 DEF Phase

LEMMA AlikeFields ==
  ASSUME NEW p, NEW p2, Alike(p, p2), p \in RequestState
  PROVE  /\ p2 \in RequestState
         /\ p2.op = p.op /\ p2.step = p.step /\ p2.titles = p.titles /\ p2.from = p.from
         /\ p2.to = p.to /\ p2.lessons = p.lessons /\ p2.whole = p.whole
         /\ p2.files = p.files /\ p2.fills = p.fills /\ (p.stale => p2.stale)
         /\ Fields(p) => Fields(p2)
<1>1. CASE p2 = p
  BY <1>1
<1>2. CASE p.op # "none" /\ p2 = [p EXCEPT !.stale = TRUE]
  <2>1. /\ p2 \in RequestState
        /\ p2.op = p.op /\ p2.step = p.step /\ p2.titles = p.titles /\ p2.from = p.from
        /\ p2.to = p.to /\ p2.lessons = p.lessons /\ p2.whole = p.whole
        /\ p2.files = p.files /\ p2.fills = p.fills /\ p2.stale
    BY <1>2 DEF RequestState
  <2>2. Fields(p) => Fields(p2)
    BY <1>2, <2>1 DEF Fields, Lists
  <2> QED
    BY <2>1, <2>2
<1> QED
  BY <1>1, <1>2 DEF Alike

(* A step keeps the invariant if it does to titles, lessons and list what  *)
(* the operators above allow.                                              *)
LEMMA StepKeeps ==
  ASSUME IInv, Types', NEW r \in Requests, NEW q, NEW q2, q = req[r],
         Others(r, q2), Beyond(r, q), Moves(q), ListMoves(r, q, q2), Own(q, q2)
  PROVE  IInv'
<1>0. /\ req \in [Requests -> RequestState] /\ rewritten \in BOOLEAN /\ raced \subseteq Titles
      /\ req' \in [Requests -> RequestState] /\ rewritten' \in BOOLEAN
      /\ q \in RequestState /\ q2 \in RequestState /\ q2 = req'[r]
      /\ raced \subseteq raced' /\ (rewritten => rewritten')
  BY DEF IInv, Types, TypeOK, Others
<1>1. ASSUME NEW s \in Requests, s # r
      PROVE  /\ Alike(req[s], req'[s]) /\ req[s] \in RequestState
             /\ req'[s].titles = req[s].titles /\ req'[s].op = req[s].op
             /\ req'[s].step = req[s].step /\ req'[s].lessons = req[s].lessons
             /\ req'[s].whole = req[s].whole /\ req'[s].fills = req[s].fills
             /\ req'[s].from = req[s].from /\ (req[s].stale => req'[s].stale)
  <2>1. Alike(req[s], req'[s]) /\ req[s] \in RequestState
    BY <1>0, <1>1 DEF Others
  <2> QED
    BY <2>1, AlikeFields
<1>2. \A s \in Requests : req'[s].titles \subseteq req[s].titles
  BY <1>0, <1>1 DEF Own
<1>3. Apart'
  <2> SUFFICES ASSUME NEW s1 \in Requests, NEW s2 \in Requests, s1 # s2
               PROVE  req'[s1].titles \cap req'[s2].titles \subseteq raced'
    BY DEF Apart
  <2>1. req[s1].titles \cap req[s2].titles \subseteq raced
    BY DEF IInv, Apart
  <2> QED
    BY <2>1, <1>0, <1>2
<1>4. Phases'
  <2> SUFFICES ASSUME NEW s \in Requests, NEW t \in req'[s].titles \ raced'
               PROVE  Phase(req'[s], t, Titled(t)', directory', listed', rewritten')
    BY DEF Phases, PhaseOf
  <2>1. CASE s = r
    BY <2>1, <1>0 DEF Own
  <2>2. CASE s # r
    <3>1. t \in Titles /\ t \in req[s].titles /\ t \notin raced /\ t \notin q.titles
      <4>1. req[s].titles \cap req[r].titles \subseteq raced
        BY <2>2 DEF IInv, Apart
      <4> QED
        BY <4>1, <2>2, <1>0, <1>1 DEF RequestState
    <3>2. Phase(req[s], t, Titled(t), directory, listed, rewritten)
      BY <3>1 DEF IInv, Phases, PhaseOf
    <3>3. /\ Titled(t)' = Titled(t) /\ (t \in directory' <=> t \in directory)
          /\ rewritten' \/ (Titled(t) \subseteq listed => Titled(t) \subseteq listed')
          /\ \/ rewritten' \/ (Titled(t) \cap listed = {} => Titled(t) \cap listed' = {})
             \/ req[s].op # "delete"
      BY <3>1, <2>2 DEF Beyond
    <3>4. Phase(req'[s], t, Titled(t), directory', listed', rewritten')
      <4>1. PICK p, p2, L, D, D2, S, S2, w, w2 :
              /\ p = req[s] /\ p2 = req'[s] /\ L = Titled(t) /\ D = directory /\ D2 = directory'
              /\ S = listed /\ S2 = listed' /\ w = rewritten /\ w2 = rewritten'
        OBVIOUS
      <4>2. /\ Alike(p, p2) /\ p \in RequestState /\ w \in BOOLEAN /\ w2 \in BOOLEAN
            /\ (t \in D2 <=> t \in D) /\ (w => w2)
            /\ w2 \/ (L \subseteq S => L \subseteq S2)
            /\ w2 \/ (L \cap S = {} => L \cap S2 = {}) \/ p.op # "delete"
            /\ Phase(p, t, L, D, S, w)
        BY <4>1, <3>2, <3>3, <2>2, <1>0, <1>1
      <4>3. Phase(p2, t, L, D2, S2, w2)
        BY <4>2, PhaseKept
      <4> QED
        BY <4>1, <4>3
    <3> QED
      BY <3>3, <3>4
  <2> QED
    BY <2>1, <2>2
<1>5. FreeSettled'
  <2> SUFFICES ASSUME NEW t \in Titles \ raced', ~InHand(t)'
               PROVE  Settled(t, Titled(t)', directory', listed', rewritten')
    BY DEF FreeSettled, SettledNow
  <2>1. t \notin q2.titles
    <3>1. CASE q2.op = "none"
      <4>1. Fields(q2)
        BY <1>0 DEF Types
      <4> QED
        BY <3>1, <4>1 DEF Fields, NoRequest
    <3>2. CASE q2.op # "none"
      BY <3>2, <1>0 DEF InHand, Busy
    <3> QED
      BY <3>1, <3>2
  <2>2. CASE t \in q.titles
    BY <2>1, <2>2 DEF Own
  <2>3. CASE t \notin q.titles
    <3>1. ~InHand(t)
      <4>1. SUFFICES ASSUME NEW s \in Requests, req[s].op # "none", t \in req[s].titles
                     PROVE  FALSE
        BY DEF InHand, Busy
      <4>2. s # r
        BY <4>1, <2>3
      <4> QED
        BY <4>1, <4>2, <1>1 DEF InHand, Busy
    <3>2. Settled(t, Titled(t), directory, listed, rewritten)
      BY <3>1, <1>0 DEF IInv, FreeSettled, SettledNow
    <3>3. /\ Titled(t)' = Titled(t) /\ (t \in directory' <=> t \in directory)
          /\ rewritten' \/ (Titled(t) \subseteq listed => Titled(t) \subseteq listed')
      BY <2>3 DEF Beyond
    <3> QED
      BY <3>2, <3>3, <1>0 DEF Settled
  <2> QED
    BY <2>2, <2>3
<1>6. Held'
  <2> SUFFICES ASSUME NEW s \in Requests, NEW l \in req'[s].lessons
               PROVE  Holds(req'[s], l, Stored', title', raced')
    BY DEF Held
  <2>1. CASE s = r
    BY <2>1, <1>0 DEF Own
  <2>2. CASE s # r
    <3>1. l \in req[s].lessons /\ l \in Created
      BY <2>2, <1>1 DEF IInv, Types
    <3>2. Holds(req[s], l, Stored, title, raced)
      BY <3>1 DEF IInv, Held
    <3>3. /\ \/ (l \in Stored' <=> l \in Stored) /\ title'[l] = title[l]
             \/ title[l] \in q.titles \cup raced
          /\ title[l] \in raced => title'[l] \in raced'
      BY <3>1 DEF Moves
    <3>4. req[s].titles \cap q.titles \subseteq raced
      BY <2>2 DEF IInv, Apart
    <3>5. Fields(req[s]) /\ req[s] \in RequestState
      BY <1>0 DEF IInv, Types
    <3>6. Lists(req'[s]) => title'[l] \in raced' \/ (l \in Stored' /\ title'[l] \in req'[s].titles)
      BY <3>2, <3>3, <3>4, <2>2, <1>1, <1>0 DEF Holds, Lists
    <3>7. ASSUME req[s].step \in {"unlist", "rename"}
          PROVE  title'[l] = req[s].from \/ {title'[l], req[s].from} \subseteq raced'
      <4>1. title[l] = req[s].from \/ {title[l], req[s].from} \subseteq raced
        BY <3>2, <3>7 DEF Holds
      <4>2. CASE title[l] \in raced
        BY <4>1, <4>2, <3>3, <1>0
      <4>3. CASE title[l] \notin raced /\ title[l] \notin q.titles
        BY <4>1, <4>3, <3>3
      <4>4. CASE title[l] \notin raced /\ title[l] \in q.titles
        <5>1. title[l] \notin req[s].titles /\ title[l] = req[s].from
          BY <4>1, <4>4, <3>4
        <5>2. req[s].op \in {"delete", "update"}
          BY <3>5, <3>7 DEF Fields, NoRequest, RequestState
        <5> QED
          BY <5>1, <5>2, <3>5 DEF Fields
      <4> QED
        BY <4>2, <4>3, <4>4
    <3> QED
      BY <3>6, <3>7, <2>2, <1>1 DEF Holds
  <2> QED
    BY <2>1, <2>2
<1>7. ListInv'
  <2> SUFFICES ASSUME ~rewritten'
               PROVE  /\ \A l \in listed' : l \in Stored' \/ Gone(l)'
                      /\ \A s1, s2 \in Requests : s1 # s2 => ~Undoes(req'[s1], req'[s2])
                      /\ \A s \in Requests : ListsOf(req'[s], Stored', listed')
    BY DEF ListInv
  <2>1. /\ \A l \in listed : l \in Stored \/ Gone(l)
        /\ \A s1, s2 \in Requests : s1 # s2 => ~Undoes(req[s1], req[s2])
        /\ \A s \in Requests : ListsOf(req[s], Stored, listed)
    BY <1>0 DEF IInv, ListInv
  <2>2. /\ \A l \in listed' : l \in Stored' \/ Gone(l)'
        /\ q2.op \in {q.op, "none"} /\ (q2.fills => q.fills)
        /\ \A s \in Requests \ {r} :
             req[s].fills => listed' = listed \/ listed' = {} \/ req'[s].stale
        /\ Stored \subseteq Stored' \/ q.op = "delete"
        /\ Stored' = Stored \/ Lists(q) \/ q.op = "delete"
        /\ ListsOf(q2, Stored', listed')
    BY DEF ListMoves
  <2>3. ASSUME NEW s1 \in Requests, NEW s2 \in Requests, s1 # s2
        PROVE  ~Undoes(req'[s1], req'[s2])
    <3>1. \A s \in Requests : /\ req'[s].op \in {req[s].op, "none"}
                              /\ req'[s].fills => req[s].fills
      BY <1>0, <1>1, <2>2
    <3>2. ~Undoes(req[s1], req[s2])
      BY <2>1, <2>3
    <3> QED
      BY <3>1, <3>2 DEF Undoes, Rewrites, Lists
  <2>4. ASSUME NEW s \in Requests
        PROVE  ListsOf(req'[s], Stored', listed')
    <3>1. CASE s = r
      BY <3>1, <2>2, <1>0
    <3>2. CASE s # r
      <4>1. ListsOf(req[s], Stored, listed)
        BY <2>1
      <4>2. ~Undoes(req[s], q)
        BY <2>1, <3>2
      <4>3. /\ req'[s].fills = req[s].fills /\ req'[s].op = req[s].op
            /\ req'[s].step = req[s].step /\ req'[s].lessons = req[s].lessons
            /\ req'[s].whole = req[s].whole /\ (req[s].stale => req'[s].stale)
        BY <3>2, <1>1
      <4>4. req[s].fills \/ req[s].op = "fill" => Stored \subseteq Stored'
        BY <4>2, <2>2 DEF Undoes, Rewrites
      <4>5. req[s].op = "fill" => Stored' = Stored
        BY <4>2, <2>2 DEF Undoes, Rewrites
      <4>6. req[s].fills => listed' = listed \/ listed' = {} \/ req'[s].stale
        BY <2>2, <3>2
      <4> QED
        BY <4>1, <4>3, <4>4, <4>5, <4>6 DEF ListsOf
    <3> QED
      BY <3>1, <3>2
  <2> QED
    BY <2>2, <2>3, <2>4
<1>8. TitlesAreUnique'
  <2> SUFFICES ASSUME NEW l \in Stored', NEW m \in Stored', l # m, title'[l] = title'[m],
                      title'[l] \notin raced'
               PROVE  FALSE
    BY DEF TitlesAreUnique
  <2>1. title'[l] \notin q.titles
    BY DEF Own
  <2>2. title'[l] \in Titles /\ l \in Lessons /\ m \in Lessons
    BY NoneIsNoTitle DEF Types, TypeOK, Stored
  <2>3. PICK x : x = title'[l]
    OBVIOUS
  <2>4. Titled(x)' = Titled(x)
    BY <2>1, <2>2, <2>3 DEF Beyond
  <2>5. l \in Titled(x)' /\ m \in Titled(x)'
    BY <2>3 DEF Titled
  <2>6. l \in Titled(x) /\ m \in Titled(x)
    BY <2>4, <2>5
  <2>7. l \in Stored /\ m \in Stored /\ title[l] = x /\ title[m] = x
    BY <2>6 DEF Titled
  <2> QED
    BY <2>3, <2>7, <1>0 DEF IInv, TitlesAreUnique
<1> QED
  BY <1>3, <1>4, <1>5, <1>6, <1>7, <1>8 DEF IInv
------------------------------------------------------------------------------
DataTypes ==
  /\ state \in [Lessons -> {"new", "stored", "deleted"}]
  /\ title \in [Lessons -> Titles \cup {"none"}]
  /\ \A l \in Lessons : (title[l] = "none") <=> (state[l] = "new")
  /\ listed \cup seen \subseteq Created
  /\ directory \cup raced \subseteq Titles
  /\ rewritten \in BOOLEAN

LEMMA TypesData ==
  /\ Types <=> /\ DataTypes
               /\ req \in [Requests -> RequestState]
               /\ \A r \in Requests : req[r].lessons \cup req[r].whole \subseteq Created
               /\ \A r \in Requests : Fields(req[r])
  /\ Types' <=> /\ DataTypes'
                /\ req' \in [Requests -> RequestState]
                /\ \A r \in Requests : req'[r].lessons \cup req'[r].whole \subseteq Created'
                /\ \A r \in Requests : Fields(req'[r])
BY DEF Types, TypeOK, DataTypes, Created

LEMMA NoRequestFields ==
  /\ NoRequest \in RequestState /\ Fields(NoRequest)
  /\ NoRequest.op = "none" /\ NoRequest.step = "none" /\ NoRequest.titles = {}
  /\ NoRequest.lessons = {} /\ NoRequest.whole = {} /\ NoRequest.files = {}
  /\ ~NoRequest.fills /\ ~NoRequest.stale
BY DEF NoRequest, RequestState, Fields, Lists

(* The request r becomes q2, which does what is asked of a step, and knows *)
(* of no lessons that are not there.                                       *)
LEMMA Becomes ==
  ASSUME Types, NEW r \in Requests, NEW q2 \in RequestState, Step(r, q2) \/ Saved(r, q2),
         Fields(q2), raced \subseteq raced', rewritten => rewritten',
         DataTypes', Created \subseteq Created', q2.lessons \cup q2.whole \subseteq Created'
  PROVE  /\ Types' /\ Others(r, q2)
         /\ Saved(r, q2) => \A s \in Requests \ {r} : req[s].fills => req'[s].stale
<1>1. /\ req \in [Requests -> RequestState]
      /\ \A s \in Requests : Fields(req[s]) /\ req[s].lessons \cup req[s].whole \subseteq Created
  BY TypesData
<1>2. /\ req' \in [Requests -> RequestState] /\ req'[r] = q2
      /\ \A s \in Requests \ {r} : Alike(req[s], req'[s])
      /\ Saved(r, q2) => \A s \in Requests \ {r} : req[s].fills => req'[s].stale
  <2>1. CASE Step(r, q2)
    <3>1. req' = [req EXCEPT ![r] = q2]
      BY <2>1 DEF Step
    <3>2. /\ req' \in [Requests -> RequestState] /\ req'[r] = q2
          /\ \A s \in Requests \ {r} : req'[s] = req[s]
      BY <3>1, <1>1
    <3>3. Saved(r, q2) => \A s \in Requests \ {r} : req[s].fills => req'[s].stale
      <4>1. SUFFICES ASSUME Saved(r, q2), NEW s \in Requests \ {r}, req[s].fills
                     PROVE  req'[s].stale
        OBVIOUS
      <4>2. req'[s] = [req[s] EXCEPT !.stale = TRUE]
        BY <4>1 DEF Saved
      <4> QED
        BY <4>2, <1>1 DEF RequestState
    <3> QED
      BY <3>2, <3>3 DEF Alike
  <2>2. CASE Saved(r, q2)
    <3>1. req' = [s \in Requests |-> IF s = r THEN q2
                             ELSE IF req[s].fills \/ req[s].op \in {"order", "announce"}
                                  THEN [req[s] EXCEPT !.stale = TRUE]
                             ELSE req[s]]
      BY <2>2 DEF Saved
    <3>2. ASSUME NEW s \in Requests \ {r}
          PROVE  /\ req'[s] \in RequestState /\ Alike(req[s], req'[s])
                 /\ req[s].fills => req'[s].stale
      <4>1. req[s] \in RequestState /\ Fields(req[s])
        BY <1>1
      <4>2. CASE req[s].fills \/ req[s].op \in {"order", "announce"}
        <5>1. req'[s] = [req[s] EXCEPT !.stale = TRUE]
          BY <3>1, <4>2
        <5>2. req[s].op # "none"
          BY <4>1, <4>2 DEF Fields, Lists
        <5>3. req'[s] \in RequestState /\ req'[s].stale
          BY <4>1, <5>1 DEF RequestState
        <5> QED
          BY <5>1, <5>2, <5>3 DEF Alike
      <4>3. CASE ~(req[s].fills \/ req[s].op \in {"order", "announce"})
        BY <3>1, <4>1, <4>3 DEF Alike
      <4> QED
        BY <4>2, <4>3
    <3>3. req'[r] = q2
      BY <3>1
    <3>4. \A s \in Requests : req'[s] \in RequestState
      BY <3>2, <3>3
    <3>5. req' \in [Requests -> RequestState]
      BY <3>1, <3>4
    <3> QED
      BY <3>2, <3>3, <3>5
  <2> QED
    BY <2>1, <2>2
<1>3. Others(r, q2)
  BY <1>2 DEF Others
<1>4. \A s \in Requests : Fields(req'[s]) /\ req'[s].lessons \cup req'[s].whole \subseteq Created'
  <2> SUFFICES ASSUME NEW s \in Requests
               PROVE  Fields(req'[s]) /\ req'[s].lessons \cup req'[s].whole \subseteq Created'
    OBVIOUS
  <2>1. CASE s = r
    BY <2>1, <1>2
  <2>2. CASE s # r
    <3>1. Alike(req[s], req'[s]) /\ req[s] \in RequestState
      BY <2>2, <1>1, <1>2
    <3> QED
      BY <3>1, <1>1, AlikeFields
  <2> QED
    BY <2>1, <2>2
<1> QED
  BY <1>2, <1>3, <1>4, TypesData

(* A step that changes no data.                                            *)
LEMMA Unchanged ==
  ASSUME UNCHANGED data
  PROVE  /\ Stored' = Stored /\ Created' = Created /\ title' = title /\ listed' = listed
         /\ directory' = directory /\ seen' = seen /\ state' = state
         /\ \A t : Titled(t)' = Titled(t)
BY DEF data, Stored, Created, Titled

(* A step that at most changes the directories of titles it has in hand.   *)
LEMMA FilesKeep ==
  ASSUME IInv, NEW r \in Requests, NEW q, NEW q2 \in RequestState, q = req[r],
         Step(r, q2) \/ Saved(r, q2), UNCHANGED <<state, title, listed, seen, rewritten>>,
         raced \subseteq raced', raced' \subseteq Titles, directory' \subseteq Titles,
         \A t \in Titles \ (q.titles \cup raced') : t \in directory' <=> t \in directory,
         Fields(q2), q2.lessons \cup q2.whole \subseteq Created,
         q2.titles \subseteq q.titles, q2.op \in {q.op, "none"}, q2.fills => q.fills,
         \A t \in q2.titles \ raced' : Phase(q2, t, Titled(t), directory', listed, rewritten),
         \A t \in q.titles \ (q2.titles \cup raced') :
           Settled(t, Titled(t), directory', listed, rewritten),
         \A l \in q2.lessons : Holds(q2, l, Stored, title, raced),
         rewritten \/ ListsOf(q2, Stored, listed)
  PROVE  IInv'
<1>0. /\ Stored' = Stored /\ Created' = Created /\ title' = title /\ listed' = listed
      /\ seen' = seen /\ state' = state /\ rewritten' = rewritten
      /\ \A t : Titled(t)' = Titled(t)
  BY DEF Stored, Created, Titled
<1>1. DataTypes'
  BY <1>0, TypesData DEF DataTypes, IInv
<1>2. Types' /\ Others(r, q2)
  BY <1>0, <1>1, Becomes DEF IInv
<1>3. Beyond(r, q)
  BY <1>0 DEF Beyond
<1>4. Moves(q)
  BY <1>0 DEF Moves
<1>5. ListMoves(r, q, q2)
  <2> SUFFICES ASSUME ~rewritten
               PROVE  ListMoves(r, q, q2)
    BY <1>0 DEF ListMoves
  <2>1. \A l \in listed' : l \in Stored' \/ Gone(l)'
    BY <1>0 DEF IInv, ListInv, Gone
  <2> QED
    BY <2>1, <1>0 DEF ListMoves
<1>6. Own(q, q2)
  <2>1. \A l, m \in Stored' :
          l # m /\ title'[l] = title'[m] /\ title'[l] \in q.titles => title'[l] \in raced'
    BY <1>0 DEF IInv, TitlesAreUnique
  <2>2. \A l \in q2.lessons : Holds(q2, l, Stored', title', raced')
    BY <1>0 DEF Holds
  <2> QED
    BY <2>1, <2>2, <1>0 DEF Own
<1> QED
  BY <1>2, <1>3, <1>4, <1>5, <1>6, StepKeeps

LEMMA QuietKeeps ==
  ASSUME IInv, NEW r \in Requests, NEW q, NEW q2 \in RequestState, q = req[r],
         Step(r, q2) \/ Saved(r, q2), UNCHANGED data, rewritten' = rewritten,
         raced \subseteq raced', raced' \subseteq Titles,
         Fields(q2), q2.lessons \cup q2.whole \subseteq Created,
         q2.titles \subseteq q.titles, q2.op \in {q.op, "none"}, q2.fills => q.fills,
         \A t \in q2.titles \ raced : PhaseOf(q2, t),
         \A t \in q.titles \ (q2.titles \cup raced') : SettledNow(t),
         \A l \in q2.lessons : Holds(q2, l, Stored, title, raced),
         rewritten \/ ListsOf(q2, Stored, listed)
  PROVE  IInv'
<1>1. UNCHANGED <<state, title, listed, seen, rewritten, directory>>
  BY DEF data
<1>2. directory' \subseteq Titles
  BY <1>1 DEF IInv, Types, TypeOK
<1> QED
  BY <1>1, <1>2, FilesKeep DEF PhaseOf, SettledNow

LEMMA EndKeeps ==
  ASSUME IInv, NEW r \in Requests, End(r), UNCHANGED data, rewritten' = rewritten,
         raced \subseteq raced', raced' \subseteq Titles,
         \A t \in req[r].titles \ raced' : SettledNow(t)
  PROVE  IInv'
<1>1. PICK q : q = req[r]
  OBVIOUS
<1>2. PICK q2 : q2 = NoRequest
  OBVIOUS
<1>3. /\ q2 \in RequestState /\ Fields(q2) /\ Step(r, q2)
      /\ q2.op = "none" /\ q2.titles = {} /\ q2.lessons = {} /\ q2.whole = {} /\ ~q2.fills
  BY <1>2, NoRequestFields DEF End
<1>4. ListsOf(q2, Stored, listed)
  BY <1>3 DEF ListsOf
<1> QED
  BY <1>1, <1>3, <1>4, QuietKeeps

LEMMA FailKeeps ==
  ASSUME IInv, NEW r \in Requests, Fail(r), UNCHANGED <<data, rewritten>>
  PROVE  IInv'
<1>1. req[r].titles \subseteq Titles /\ raced \subseteq Titles
  BY DEF IInv, Types, TypeOK, RequestState
<1>2. End(r) /\ raced' = raced \cup req[r].titles
  BY DEF Fail
<1> QED
  BY <1>1, <1>2, EndKeeps

(* A request starts: a title nobody has in hand is settled.                *)
LEMMA StartKeeps ==
  ASSUME IInv, NEW r \in Requests, NEW q2 \in RequestState, Start(r, q2),
         Fields(q2), q2.lessons \cup q2.whole \subseteq Created,
         \A t \in q2.titles \ raced : SettledNow(t) => PhaseOf(q2, t),
         \A l \in q2.lessons : Holds(q2, l, Stored, title, raced),
         ListsOf(q2, Stored, listed)
  PROVE  IInv'
<1> DEFINE busy == {req[s] : s \in {x \in Requests : Busy(x)}}
<1>1. /\ ~Busy(r) /\ UNCHANGED data
      /\ req' = [req EXCEPT ![r] = q2]
      /\ raced' = raced \cup UNION {p.titles \cup q2.titles :
                                      p \in {o \in busy : o.titles \cap q2.titles # {}}}
      /\ rewritten' = (rewritten \/ \E p \in busy : Undoes(p, q2) \/ Undoes(q2, p))
  BY DEF Start
<1>2. /\ Stored' = Stored /\ Created' = Created /\ title' = title /\ listed' = listed
      /\ directory' = directory /\ seen' = seen /\ state' = state
      /\ \A t : Titled(t)' = Titled(t)
  BY <1>1, Unchanged
<1>3. /\ req \in [Requests -> RequestState] /\ raced \subseteq Titles /\ rewritten \in BOOLEAN
      /\ \A s \in Requests : Fields(req[s])
  BY DEF IInv, Types, TypeOK
<1>4. /\ raced \subseteq raced' /\ raced' \subseteq Titles /\ rewritten' \in BOOLEAN
      /\ rewritten => rewritten'
  <2>1. q2.titles \subseteq Titles /\ \A p \in busy : p.titles \subseteq Titles
    BY <1>3 DEF RequestState
  <2> QED
    BY <2>1, <1>1, <1>3
<1>5. DataTypes'
  BY <1>2, <1>4, TypesData DEF DataTypes, IInv
<1>6. Types' /\ Others(r, q2)
  BY <1>1, <1>2, <1>4, <1>5, Becomes DEF IInv, Step
<1>7. req'[r] = q2 /\ \A s \in Requests : s # r => req'[s] = req[s]
  BY <1>1, <1>3
<1>8. req[r].titles = {}
  BY <1>1, <1>3 DEF Busy, Fields, NoRequest
<1>9. ASSUME NEW s \in Requests, NEW t \in q2.titles \ raced'
      PROVE  t \notin req[s].titles
  <2>1. CASE Busy(s)
    BY <2>1, <1>1, <1>9
  <2>2. CASE ~Busy(s)
    BY <2>2, <1>3 DEF Busy, Fields, NoRequest
  <2> QED
    BY <2>1, <2>2
<1>10. Apart'
  <2> SUFFICES ASSUME NEW s1 \in Requests, NEW s2 \in Requests, s1 # s2
               PROVE  req'[s1].titles \cap req'[s2].titles \subseteq raced'
    BY DEF Apart
  <2>1. CASE s1 = r
    BY <2>1, <1>7, <1>9
  <2>2. CASE s2 = r
    BY <2>2, <1>7, <1>9
  <2>3. CASE s1 # r /\ s2 # r
    BY <2>3, <1>7, <1>4 DEF IInv, Apart
  <2> QED
    BY <2>1, <2>2, <2>3
<1>11. ASSUME NEW t \in Titles \ raced', ~InHand(t)
       PROVE  SettledNow(t) /\ Settled(t, Titled(t), directory, listed, rewritten')
  BY <1>4, <1>11 DEF IInv, FreeSettled, SettledNow, Settled
<1>12. Phases'
  <2> SUFFICES ASSUME NEW s \in Requests, NEW t \in req'[s].titles \ raced'
               PROVE  Phase(req'[s], t, Titled(t), directory, listed, rewritten')
    BY <1>2 DEF Phases, PhaseOf
  <2>1. CASE s = r
    <3>1. t \in q2.titles \ raced' /\ t \in Titles
      BY <2>1, <1>7 DEF RequestState
    <3>2. ~InHand(t)
      BY <3>1, <1>9 DEF InHand
    <3>3. Phase(q2, t, Titled(t), directory, listed, rewritten)
      BY <3>1, <3>2, <1>4, <1>11 DEF PhaseOf
    <3>4. Alike(q2, q2)
      BY DEF Alike
    <3>5. Phase(q2, t, Titled(t), directory, listed, rewritten')
      BY <3>3, <3>4, <1>3, <1>4, PhaseKept
    <3> QED
      BY <3>5, <2>1, <1>7
  <2>2. CASE s # r
    <3>1. PICK p : p = req[s]
      OBVIOUS
    <3>2. t \in p.titles \ raced /\ p \in RequestState /\ req'[s] = p
      BY <3>1, <2>2, <1>3, <1>4, <1>7
    <3>3. Phase(p, t, Titled(t), directory, listed, rewritten)
      BY <3>1, <3>2 DEF IInv, Phases, PhaseOf
    <3>4. Alike(p, p)
      BY DEF Alike
    <3>5. Phase(p, t, Titled(t), directory, listed, rewritten')
      BY <3>2, <3>3, <3>4, <1>3, <1>4, PhaseKept
    <3> QED
      BY <3>2, <3>5
  <2> QED
    BY <2>1, <2>2
<1>13. FreeSettled'
  <2> SUFFICES ASSUME NEW t \in Titles \ raced', ~InHand(t)'
               PROVE  Settled(t, Titled(t), directory, listed, rewritten')
    BY <1>2 DEF FreeSettled, SettledNow
  <2>1. ~InHand(t)
    BY <1>7, <1>8 DEF InHand, Busy
  <2> QED
    BY <2>1, <1>11
<1>14. Held'
  <2> SUFFICES ASSUME NEW s \in Requests, NEW l \in req'[s].lessons
               PROVE  Holds(req'[s], l, Stored, title, raced')
    BY <1>2 DEF Held
  <2>1. Holds(req'[s], l, Stored, title, raced)
    BY <1>7 DEF IInv, Held
  <2> QED
    BY <2>1, <1>4 DEF Holds
<1>15. ListInv'
  <2> SUFFICES ASSUME ~rewritten'
               PROVE  /\ \A l \in listed : l \in Stored \/ Gone(l)'
                      /\ \A s1, s2 \in Requests : s1 # s2 => ~Undoes(req'[s1], req'[s2])
                      /\ \A s \in Requests : ListsOf(req'[s], Stored, listed)
    BY <1>2 DEF ListInv
  <2>1. \A l \in listed : l \in Stored \/ Gone(l)'
    BY <1>2, <1>4 DEF IInv, ListInv, Gone
  <2>2. \A s \in Requests : ListsOf(req'[s], Stored, listed)
    BY <1>4, <1>7 DEF IInv, ListInv
  <2>3. ASSUME NEW s \in Requests
        PROVE  ~Undoes(req[s], q2) /\ ~Undoes(q2, req[s])
    <3>1. CASE Busy(s)
      BY <3>1, <1>1
    <3>2. CASE ~Busy(s)
      <4>1. req[s] = NoRequest
        BY <3>2, <1>3 DEF Busy, Fields
      <4> QED
        BY <4>1, NoRequestFields DEF Undoes, Rewrites, Lists
    <3> QED
      BY <3>1, <3>2
  <2>4. \A s1, s2 \in Requests : s1 # s2 => ~Undoes(req'[s1], req'[s2])
    BY <2>3, <1>4, <1>7 DEF IInv, ListInv
  <2> QED
    BY <2>1, <2>2, <2>4
<1>16. TitlesAreUnique'
  BY <1>2, <1>4 DEF IInv, TitlesAreUnique
<1> QED
  BY <1>6, <1>10, <1>12, <1>13, <1>14, <1>15, <1>16 DEF IInv
------------------------------------------------------------------------------
(* What is known of a request whose step is due.                           *)
LEMMA InHandFacts ==
  ASSUME IInv, NEW r \in Requests
  PROVE  /\ req[r] \in RequestState /\ Fields(req[r]) /\ req[r].titles \subseteq Titles
         /\ req[r].lessons \cup req[r].whole \subseteq Created
         /\ \A t \in req[r].titles \ raced : PhaseOf(req[r], t)
         /\ \A l \in req[r].lessons : Holds(req[r], l, Stored, title, raced)
         /\ rewritten \/ ListsOf(req[r], Stored, listed)
         /\ raced \subseteq Titles /\ DataTypes
BY TypesData DEF IInv, Types, TypeOK, Phases, Held, ListInv, RequestState

LEMMA RequestFields ==
  ASSUME NEW op \in {"create", "copy", "copyAll", "delete", "update", "order", "fill", "announce"},
         NEW step \in {"lookup", "check", "files", "store", "unlist", "collect", "list"},
         NEW T \in SUBSET Titles
  PROVE  /\ Request(op, step, T) \in RequestState
         /\ Request(op, step, T).op = op /\ Request(op, step, T).step = step
         /\ Request(op, step, T).titles = T
         /\ Request(op, step, T).from = "none" /\ Request(op, step, T).to = "none"
         /\ Request(op, step, T).lessons = {} /\ Request(op, step, T).whole = {}
         /\ Request(op, step, T).files = {} /\ ~Request(op, step, T).stale
         /\ Request(op, step, T).fills <=> (listed = {} /\ op \in {"create", "copy", "copyAll"})
BY DEF Request, NoRequest, RequestState

LEMMA StartCreate ==
  ASSUME IInv, NEW r \in Requests, NEW t \in Titles, FindForCreate(r, t)
  PROVE  IInv'
<1>1. PICK q0 : q0 = Request("create", "lookup", {t})
  OBVIOUS
<1>2. PICK q2 : q2 = [q0 EXCEPT !.to = t, !.files = {t}]
  OBVIOUS
<1>3. /\ q0 \in RequestState /\ q0.op = "create" /\ q0.step = "lookup" /\ q0.titles = {t}
      /\ q0.from = "none" /\ q0.lessons = {} /\ q0.whole = {} /\ ~q0.stale
      /\ q0.fills <=> listed = {}
  BY <1>1, RequestFields
<1>4. /\ q2 \in RequestState /\ q2.op = "create" /\ q2.step = "lookup" /\ q2.titles = {t}
      /\ q2.to = t /\ q2.files = {t} /\ q2.lessons = {} /\ q2.whole = {}
      /\ q2.fills <=> listed = {}
  BY <1>2, <1>3 DEF RequestState
<1>5. Fields(q2) /\ ListsOf(q2, Stored, listed)
  BY <1>4 DEF Fields, Lists, ListsOf
<1>6. \A u \in q2.titles : SettledNow(u) => PhaseOf(q2, u)
  BY <1>4 DEF SettledNow, PhaseOf, Phase
<1>7. Start(r, q2)
  BY <1>1, <1>2 DEF FindForCreate
<1> QED
  BY <1>4, <1>5, <1>6, <1>7, StartKeeps

LEMMA StartCopy ==
  ASSUME IInv, NEW r \in Requests, NEW t \in Titles, FindForCopy(r, t)
  PROVE  IInv'
<1>1. PICK q0 : q0 = Request("copy", "files", {t})
  OBVIOUS
<1>2. PICK q2 : q2 = [q0 EXCEPT !.to = t]
  OBVIOUS
<1>3. /\ q0 \in RequestState /\ q0.op = "copy" /\ q0.step = "files" /\ q0.titles = {t}
      /\ q0.files = {} /\ q0.lessons = {} /\ q0.whole = {} /\ ~q0.stale
      /\ q0.fills <=> listed = {}
  BY <1>1, RequestFields
<1>4. /\ q2 \in RequestState /\ q2.op = "copy" /\ q2.step = "files" /\ q2.titles = {t}
      /\ q2.to = t /\ q2.files = {} /\ q2.lessons = {} /\ q2.whole = {}
      /\ q2.fills <=> listed = {}
  BY <1>2, <1>3 DEF RequestState
<1>5. Fields(q2) /\ ListsOf(q2, Stored, listed)
  BY <1>4 DEF Fields, Lists, ListsOf
<1>6. \A u \in q2.titles : SettledNow(u) => PhaseOf(q2, u)
  BY <1>4 DEF SettledNow, PhaseOf, Phase
<1>7. Start(r, q2)
  BY <1>1, <1>2 DEF FindForCopy
<1> QED
  BY <1>4, <1>5, <1>6, <1>7, StartKeeps

LEMMA StartCopyAll ==
  ASSUME IInv, NEW r \in Requests, NEW T \in SUBSET Titles, FindForCopyAll(r, T)
  PROVE  IInv'
<1>1. PICK T2 \in SUBSET Titles :
        Start(r, [Request("copyAll", "store", T2) EXCEPT !.files = T2])
  BY DEF FindForCopyAll
<1>2. PICK q0 : q0 = Request("copyAll", "store", T2)
  OBVIOUS
<1>3. PICK q2 : q2 = [q0 EXCEPT !.files = T2]
  OBVIOUS
<1>4. /\ q0 \in RequestState /\ q0.op = "copyAll" /\ q0.step = "store" /\ q0.titles = T2
      /\ q0.lessons = {} /\ q0.whole = {} /\ ~q0.stale
      /\ q0.fills <=> listed = {}
  BY <1>2, RequestFields
<1>5. /\ q2 \in RequestState /\ q2.op = "copyAll" /\ q2.step = "store" /\ q2.titles = T2
      /\ q2.files = T2 /\ q2.lessons = {} /\ q2.whole = {}
      /\ q2.fills <=> listed = {}
  BY <1>3, <1>4 DEF RequestState
<1>6. Fields(q2) /\ ListsOf(q2, Stored, listed)
  BY <1>5 DEF Fields, Lists, ListsOf
<1>7. \A u \in q2.titles : SettledNow(u) => PhaseOf(q2, u)
  BY <1>5 DEF SettledNow, PhaseOf, Phase
<1>8. Start(r, q2)
  BY <1>1, <1>2, <1>3
<1> QED
  BY <1>5, <1>6, <1>7, <1>8, StartKeeps

(* Where a title did not race one lesson at most has it.                   *)
LEMMA OnlyOne ==
  ASSUME IInv, NEW t \in Titles \ raced, NEW l \in Titled(t)
  PROVE  Titled(t) = {l} /\ l \in Created /\ l \in Stored /\ title[l] = t
BY DEF IInv, TitlesAreUnique, Titled, Stored, Created

LEMMA StartDelete ==
  ASSUME IInv, NEW r \in Requests, NEW t \in Titles, FindForDelete(r, t)
  PROVE  IInv'
<1>1. PICK l \in Titled(t) :
        Start(r, [Request("delete", "unlist", {t}) EXCEPT !.from = t, !.lessons = {l}])
  BY DEF FindForDelete
<1>2. PICK q0 : q0 = Request("delete", "unlist", {t})
  OBVIOUS
<1>3. PICK q2 : q2 = [q0 EXCEPT !.from = t, !.lessons = {l}]
  OBVIOUS
<1>4. l \in Created /\ l \in Lessons /\ title[l] = t
  BY DEF Titled, Stored, Created
<1>5. /\ q0 \in RequestState /\ q0.op = "delete" /\ q0.step = "unlist" /\ q0.titles = {t}
      /\ q0.files = {} /\ q0.whole = {} /\ ~q0.stale /\ ~q0.fills
  BY <1>2, RequestFields
<1>6. /\ q2 \in RequestState /\ q2.op = "delete" /\ q2.step = "unlist" /\ q2.titles = {t}
      /\ q2.from = t /\ q2.files = {} /\ q2.lessons = {l} /\ q2.whole = {} /\ ~q2.fills
  BY <1>3, <1>4, <1>5 DEF RequestState
<1>7. Fields(q2) /\ ListsOf(q2, Stored, listed)
  BY <1>6 DEF Fields, Lists, ListsOf
<1>8. \A u \in q2.titles \ raced : SettledNow(u) => PhaseOf(q2, u)
  BY <1>6, OnlyOne DEF SettledNow, PhaseOf, Phase
<1>9. \A m \in q2.lessons : Holds(q2, m, Stored, title, raced)
  BY <1>4, <1>6 DEF Holds, Lists
<1>10. Start(r, q2)
  BY <1>1, <1>2, <1>3
<1> QED
  BY <1>4, <1>6, <1>7, <1>8, <1>9, <1>10, StartKeeps

LEMMA StartUpdate ==
  ASSUME IInv, NEW r \in Requests, NEW t \in Titles, NEW new \in Titles, FindForUpdate(r, t, new)
  PROVE  IInv'
<1>1. PICK q0 : q0 = Request("update", "check", {t, new})
  OBVIOUS
<1>2. PICK q2 : q2 = [q0 EXCEPT !.from = t, !.to = new]
  OBVIOUS
<1>3. /\ q0 \in RequestState /\ q0.op = "update" /\ q0.step = "check" /\ q0.titles = {t, new}
      /\ q0.files = {} /\ q0.lessons = {} /\ q0.whole = {} /\ ~q0.stale /\ ~q0.fills
  BY <1>1, RequestFields
<1>4. /\ q2 \in RequestState /\ q2.op = "update" /\ q2.step = "check" /\ q2.titles = {t, new}
      /\ q2.from = t /\ q2.to = new /\ q2.files = {} /\ q2.lessons = {} /\ q2.whole = {}
      /\ ~q2.fills
  BY <1>2, <1>3 DEF RequestState
<1>5. t # new /\ Start(r, q2)
  BY <1>1, <1>2 DEF FindForUpdate
<1>6. Fields(q2) /\ ListsOf(q2, Stored, listed)
  BY <1>4, <1>5 DEF Fields, Lists, ListsOf
<1>7. \A u \in q2.titles : SettledNow(u) => PhaseOf(q2, u)
  BY <1>4 DEF SettledNow, PhaseOf, Phase
<1> QED
  BY <1>4, <1>5, <1>6, <1>7, StartKeeps

LEMMA StartOrder ==
  ASSUME IInv, NEW r \in Requests, FindForOrder(r)
  PROVE  IInv'
<1>1. PICK step \in {"collect", "list"} : step = IF listed = {} THEN "collect" ELSE "list"
  OBVIOUS
<1>2. PICK q0 : q0 = Request("order", step, {})
  OBVIOUS
<1>3. PICK q2 : q2 = [q0 EXCEPT !.lessons = listed, !.whole = seen]
  OBVIOUS
<1>4. listed \cup seen \subseteq Created /\ Created \subseteq Lessons
  BY DEF IInv, Types, TypeOK, Created
<1>5. /\ q0 \in RequestState /\ q0.op = "order" /\ q0.step = step /\ q0.titles = {}
      /\ q0.files = {} /\ ~q0.stale /\ ~q0.fills
  BY <1>2, RequestFields
<1>6. /\ q2 \in RequestState /\ q2.op = "order" /\ q2.step = step /\ q2.titles = {}
      /\ q2.files = {} /\ q2.lessons = listed /\ q2.whole = seen /\ ~q2.fills
  BY <1>3, <1>4, <1>5 DEF RequestState
<1>7. Fields(q2) /\ ListsOf(q2, Stored, listed)
  BY <1>6 DEF Fields, Lists, ListsOf
<1>8. \A m \in q2.lessons : Holds(q2, m, Stored, title, raced)
  BY <1>6 DEF Holds, Lists
<1>9. Start(r, q2)
  BY <1>1, <1>2, <1>3 DEF FindForOrder
<1> QED
  BY <1>4, <1>6, <1>7, <1>8, <1>9, StartKeeps

LEMMA StartFill ==
  ASSUME IInv, NEW r \in Requests, FindForFill(r)
  PROVE  IInv'
<1>1. PICK q2 : q2 = Request("fill", "collect", {})
  OBVIOUS
<1>2. /\ q2 \in RequestState /\ q2.op = "fill" /\ q2.step = "collect" /\ q2.titles = {}
      /\ q2.files = {} /\ q2.lessons = {} /\ q2.whole = {} /\ ~q2.fills
  BY <1>1, RequestFields
<1>3. Fields(q2) /\ ListsOf(q2, Stored, listed)
  BY <1>2 DEF Fields, Lists, ListsOf
<1>4. Start(r, q2)
  BY <1>1 DEF FindForFill
<1> QED
  BY <1>2, <1>3, <1>4, StartKeeps

LEMMA StartAnnouncement ==
  ASSUME IInv, NEW r \in Requests, FindForAnnouncement(r)
  PROVE  IInv'
<1>1. PICK q2 : q2 = Request("announce", "list", {})
  OBVIOUS
<1>2. /\ q2 \in RequestState /\ q2.op = "announce" /\ q2.step = "list" /\ q2.titles = {}
      /\ q2.files = {} /\ q2.lessons = {} /\ q2.whole = {} /\ ~q2.fills
  BY <1>1, RequestFields
<1>3. Fields(q2) /\ ListsOf(q2, Stored, listed)
  BY <1>2 DEF Fields, Lists, ListsOf
<1>4. Start(r, q2)
  BY <1>1 DEF FindForAnnouncement
<1> QED
  BY <1>2, <1>3, <1>4, StartKeeps
------------------------------------------------------------------------------
(* The steps that only find something out *)

LEMMA ListedFields ==
  ASSUME NEW q \in RequestState, Fields(q), q.op \in {"create", "copy", "copyAll"}
  PROVE  /\ Listed(q) \in RequestState /\ Fields(Listed(q))
         /\ Listed(q).lessons = {} /\ Listed(q).whole = {} /\ ~Listed(q).fills
         /\ \/ Listed(q) = NoRequest /\ q.files = {}
            \/ /\ q.files # {} /\ q.op \in {"create", "copyAll"}
               /\ Listed(q).op = q.op /\ Listed(q).step = "files"
               /\ Listed(q).titles = q.titles /\ Listed(q).files = q.files
<1>1. CASE q.files = {}
  BY <1>1, NoRequestFields DEF Listed
<1>2. CASE q.files # {}
  <2>1. PICK p : p = [NoRequest EXCEPT !.op = q.op, !.step = "files", !.titles = q.titles,
                                       !.files = q.files]
    OBVIOUS
  <2>2. /\ p.op = q.op /\ p.step = "files" /\ p.titles = q.titles /\ p.files = q.files
        /\ p.lessons = {} /\ p.whole = {} /\ ~p.fills
        /\ p \in RequestState
    BY <2>1 DEF NoRequest, RequestState
  <2>3. q.op \in {"create", "copyAll"} /\ q.files \subseteq q.titles
    BY <1>2 DEF Fields
  <2>4. Fields(p)
    BY <1>2, <2>2, <2>3 DEF Fields, Lists
  <2>5. Listed(q) = p
    BY <1>2, <2>1 DEF Listed
  <2> QED
    BY <1>2, <2>2, <2>3, <2>4, <2>5
<1> QED
  BY <1>1, <1>2

LEMMA LookupCreate ==
  ASSUME IInv, NEW r \in Requests, LookupForCreate(r)
  PROVE  IInv'
<1>1. PICK q : q = req[r]
  OBVIOUS
<1>2. /\ q.op = "create" /\ q.step = "lookup"
      /\ Step(r, IF Titled(q.to) = {} THEN [q EXCEPT !.step = "store"] ELSE Listed(q))
      /\ UNCHANGED <<data, history>>
  BY <1>1 DEF LookupForCreate, At
<1>3. /\ q \in RequestState /\ Fields(q) /\ q.titles \subseteq Titles
      /\ q.lessons \cup q.whole \subseteq Created
      /\ \A t \in q.titles \ raced : PhaseOf(q, t)
      /\ \A l \in q.lessons : Holds(q, l, Stored, title, raced)
      /\ rewritten \/ ListsOf(q, Stored, listed)
      /\ raced \subseteq Titles
  BY <1>1, InHandFacts
<1>4. q.titles = {q.to} /\ q.files = {q.to}
  BY <1>2, <1>3 DEF Fields
<1>5. \A t \in q.titles \ raced : SettledNow(t)
  BY <1>2, <1>3 DEF PhaseOf, Phase, SettledNow
<1>6. UNCHANGED data /\ rewritten' = rewritten /\ raced' = raced
  BY <1>2 DEF history
<1>7. CASE Titled(q.to) = {}
  <2>1. PICK q2 : q2 = [q EXCEPT !.step = "store"]
    OBVIOUS
  <2>2. /\ q2 \in RequestState /\ q2.op = "create" /\ q2.step = "store" /\ q2.titles = q.titles
        /\ q2.to = q.to /\ q2.files = q.files /\ q2.lessons = q.lessons /\ q2.whole = q.whole
        /\ q2.fills = q.fills /\ q2.stale = q.stale
    BY <2>1, <1>2, <1>3 DEF RequestState
  <2>3. Fields(q2)
    BY <2>2, <1>2, <1>3 DEF Fields, Lists
  <2>4. \A t \in q2.titles \ raced : PhaseOf(q2, t)
    BY <1>4, <1>5, <1>7, <2>2 DEF PhaseOf, Phase, SettledNow, Settled
  <2>5. \A l \in q2.lessons : Holds(q2, l, Stored, title, raced)
    BY <1>2, <1>3, <2>2 DEF Holds, Lists
  <2>6. rewritten \/ ListsOf(q2, Stored, listed)
    BY <1>3, <2>2 DEF ListsOf
  <2>7. Step(r, q2)
    BY <1>2, <1>7, <2>1
  <2> QED
    BY <1>1, <1>2, <1>3, <1>6, <2>2, <2>3, <2>4, <2>5, <2>6, <2>7, QuietKeeps
<1>8. CASE Titled(q.to) # {}
  <2>1. PICK q2 : q2 = Listed(q)
    OBVIOUS
  <2>2. /\ q2 \in RequestState /\ Fields(q2) /\ q2.lessons = {} /\ q2.whole = {} /\ ~q2.fills
        /\ q2.op = "create" /\ q2.step = "files" /\ q2.titles = q.titles /\ q2.files = q.files
    BY <2>1, <1>2, <1>3, <1>4, ListedFields
  <2>3. \A t \in q2.titles \ raced : PhaseOf(q2, t)
    BY <1>4, <1>5, <1>8, <2>2 DEF PhaseOf, Phase, SettledNow, Settled
  <2>4. ListsOf(q2, Stored, listed)
    BY <2>2 DEF ListsOf
  <2>5. Step(r, q2)
    BY <1>2, <1>8, <2>1
  <2> QED
    BY <1>1, <1>2, <1>3, <1>6, <2>2, <2>3, <2>4, <2>5, QuietKeeps
<1> QED
  BY <1>7, <1>8

LEMMA Collects ==
  ASSUME IInv, NEW r \in Requests, Collect(r)
  PROVE  IInv'
<1>1. PICK q : q = req[r]
  OBVIOUS
<1>2. PICK q2 : q2 = [q EXCEPT !.step = "list", !.whole = Stored]
  OBVIOUS
<1>3. /\ q.op \in {"create", "copy", "copyAll"} /\ q.step = "collect" /\ Step(r, q2)
      /\ UNCHANGED data /\ rewritten' = rewritten /\ raced' = raced
  BY <1>1, <1>2 DEF Collect, At, history
<1>4. /\ q \in RequestState /\ Fields(q) /\ q.titles \subseteq Titles
      /\ q.lessons \cup q.whole \subseteq Created
      /\ \A t \in q.titles \ raced : PhaseOf(q, t)
      /\ \A l \in q.lessons : Holds(q, l, Stored, title, raced)
      /\ rewritten \/ ListsOf(q, Stored, listed)
      /\ raced \subseteq Titles
  BY <1>1, InHandFacts
<1>5. Stored \subseteq Created /\ Stored \subseteq Lessons
  BY DEF Stored, Created
<1>6. /\ q2 \in RequestState /\ q2.op = q.op /\ q2.step = "list" /\ q2.titles = q.titles
      /\ q2.to = q.to /\ q2.from = q.from /\ q2.files = q.files /\ q2.lessons = q.lessons
      /\ q2.whole = Stored /\ q2.fills = q.fills /\ q2.stale = q.stale
  BY <1>2, <1>4, <1>5 DEF RequestState
<1>7. Fields(q2)
  BY <1>3, <1>4, <1>6 DEF Fields, Lists
<1>8. \A t \in q2.titles \ raced : PhaseOf(q2, t)
  BY <1>3, <1>4, <1>6 DEF PhaseOf, Phase
<1>9. \A l \in q2.lessons : Holds(q2, l, Stored, title, raced)
  BY <1>3, <1>4, <1>6 DEF Holds, Lists
<1>10. rewritten \/ ListsOf(q2, Stored, listed)
  BY <1>3, <1>4, <1>6 DEF ListsOf
<1> QED
  BY <1>1, <1>3, <1>4, <1>5, <1>6, <1>7, <1>8, <1>9, <1>10, QuietKeeps

LEMMA ChecksTitle ==
  ASSUME IInv, NEW r \in Requests, CheckTitle(r)
  PROVE  IInv'
<1>1. PICK q : q = req[r]
  OBVIOUS
<1>2. PICK q2 : q2 = [q EXCEPT !.step = "lookup"]
  OBVIOUS
<1>3. /\ q.op = "update" /\ q.step = "check"
      /\ IF Titled(q.to) = {} THEN Step(r, q2) ELSE End(r)
      /\ UNCHANGED data /\ rewritten' = rewritten /\ raced' = raced
  BY <1>1, <1>2 DEF CheckTitle, At, history
<1>4. /\ q \in RequestState /\ Fields(q) /\ q.titles \subseteq Titles
      /\ q.lessons \cup q.whole \subseteq Created
      /\ \A t \in q.titles \ raced : PhaseOf(q, t)
      /\ \A l \in q.lessons : Holds(q, l, Stored, title, raced)
      /\ rewritten \/ ListsOf(q, Stored, listed)
      /\ raced \subseteq Titles
  BY <1>1, InHandFacts
<1>5. \A t \in q.titles \ raced : SettledNow(t)
  BY <1>3, <1>4 DEF PhaseOf, Phase, SettledNow
<1>6. CASE Titled(q.to) = {}
  <2>1. /\ q2 \in RequestState /\ q2.op = "update" /\ q2.step = "lookup" /\ q2.titles = q.titles
        /\ q2.to = q.to /\ q2.from = q.from /\ q2.files = q.files /\ q2.lessons = q.lessons
        /\ q2.whole = q.whole /\ q2.fills = q.fills /\ q2.stale = q.stale
    BY <1>2, <1>3, <1>4 DEF RequestState
  <2>2. Fields(q2)
    BY <1>3, <1>4, <2>1 DEF Fields, Lists
  <2>3. \A t \in q2.titles \ raced : PhaseOf(q2, t)
    BY <1>5, <1>6, <2>1 DEF PhaseOf, Phase, SettledNow
  <2>4. \A l \in q2.lessons : Holds(q2, l, Stored, title, raced)
    BY <1>3, <1>4, <2>1 DEF Holds, Lists
  <2>5. rewritten \/ ListsOf(q2, Stored, listed)
    BY <1>4, <2>1, <1>3 DEF ListsOf
  <2> QED
    BY <1>1, <1>3, <1>4, <1>6, <2>1, <2>2, <2>3, <2>4, <2>5, QuietKeeps
<1>7. CASE Titled(q.to) # {}
  BY <1>1, <1>3, <1>4, <1>5, <1>7, EndKeeps
<1> QED
  BY <1>6, <1>7

LEMMA LookupUpdate ==
  ASSUME IInv, NEW r \in Requests, LookupForUpdate(r)
  PROVE  IInv'
<1>1. PICK q : q = req[r]
  OBVIOUS
<1>2. /\ q.op = "update" /\ q.step = "lookup"
      /\ IF Titled(q.from) = {}
         THEN End(r)
         ELSE \E l \in Titled(q.from) : Step(r, [q EXCEPT !.step = "rename", !.lessons = {l}])
      /\ UNCHANGED data /\ rewritten' = rewritten /\ raced' = raced
  BY <1>1 DEF LookupForUpdate, At, history
<1>3. /\ q \in RequestState /\ Fields(q) /\ q.titles \subseteq Titles
      /\ q.lessons \cup q.whole \subseteq Created
      /\ \A t \in q.titles \ raced : PhaseOf(q, t)
      /\ rewritten \/ ListsOf(q, Stored, listed)
      /\ raced \subseteq Titles
  BY <1>1, InHandFacts
<1>4. /\ \A t \in q.titles \ raced : SettledNow(t) /\ (t = q.to => Titled(t) = {})
      /\ q.titles = {q.from, q.to} /\ q.from # q.to
  BY <1>2, <1>3 DEF PhaseOf, Phase, SettledNow, Fields
<1>5. CASE Titled(q.from) = {}
  BY <1>1, <1>2, <1>3, <1>4, <1>5, EndKeeps
<1>6. CASE Titled(q.from) # {}
  <2>1. PICK l \in Titled(q.from) : Step(r, [q EXCEPT !.step = "rename", !.lessons = {l}])
    BY <1>2, <1>6
  <2>2. PICK q2 : q2 = [q EXCEPT !.step = "rename", !.lessons = {l}]
    OBVIOUS
  <2>3. l \in Created /\ l \in Lessons /\ title[l] = q.from
    BY DEF Titled, Stored, Created
  <2>4. /\ q2 \in RequestState /\ q2.op = "update" /\ q2.step = "rename" /\ q2.titles = q.titles
        /\ q2.to = q.to /\ q2.from = q.from /\ q2.files = q.files /\ q2.lessons = {l}
        /\ q2.whole = q.whole /\ q2.fills = q.fills /\ q2.stale = q.stale
    BY <1>2, <1>3, <2>2, <2>3 DEF RequestState
  <2>5. Fields(q2)
    BY <1>2, <1>3, <2>3, <2>4 DEF Fields, Lists
  <2>6. \A t \in q2.titles \ raced : PhaseOf(q2, t)
    <3> SUFFICES ASSUME NEW t \in q2.titles \ raced
                 PROVE  PhaseOf(q2, t)
      OBVIOUS
    <3>1. SettledNow(t) /\ (t = q.to => Titled(t) = {})
      BY <1>4, <2>4
    <3>2. t = q.from => Titled(t) \subseteq {l}
      BY <1>3, <2>4, OnlyOne
    <3> QED
      BY <3>1, <3>2, <2>4 DEF PhaseOf, Phase, SettledNow
  <2>7. \A m \in q2.lessons : Holds(q2, m, Stored, title, raced)
    BY <2>3, <2>4 DEF Holds, Lists
  <2>8. rewritten \/ ListsOf(q2, Stored, listed)
    BY <1>2, <1>3, <2>4 DEF ListsOf, Fields, Lists
  <2> QED
    BY <1>1, <1>2, <1>3, <2>1, <2>2, <2>3, <2>4, <2>5, <2>6, <2>7, <2>8, QuietKeeps
<1> QED
  BY <1>5, <1>6

LEMMA CollectsForOrder ==
  ASSUME IInv, NEW r \in Requests, CollectForOrder(r)
  PROVE  IInv'
<1>1. PICK q : q = req[r]
  OBVIOUS
<1>2. PICK q2 : q2 = [q EXCEPT !.step = "list", !.lessons = Stored]
  OBVIOUS
<1>3. /\ q.op = "order" /\ q.step = "collect" /\ Step(r, q2)
      /\ UNCHANGED data /\ rewritten' = rewritten /\ raced' = raced
  BY <1>1, <1>2 DEF CollectForOrder, At, history
<1>4. /\ q \in RequestState /\ Fields(q) /\ q.lessons \cup q.whole \subseteq Created
      /\ raced \subseteq Titles
  BY <1>1, InHandFacts
<1>5. Stored \subseteq Created /\ Stored \subseteq Lessons
  BY DEF Stored, Created
<1>6. /\ q2 \in RequestState /\ q2.op = "order" /\ q2.step = "list" /\ q2.titles = q.titles
      /\ q2.files = q.files /\ q2.lessons = Stored /\ q2.whole = q.whole /\ q2.fills = q.fills
  BY <1>2, <1>3, <1>4, <1>5 DEF RequestState
<1>7. Fields(q2) /\ q2.titles = {} /\ ~q2.fills
  BY <1>3, <1>4, <1>6 DEF Fields, Lists
<1>8. \A l \in q2.lessons : Holds(q2, l, Stored, title, raced)
  BY <1>6 DEF Holds, Lists
<1>9. ListsOf(q2, Stored, listed)
  BY <1>6, <1>7 DEF ListsOf
<1> QED
  BY <1>1, <1>3, <1>4, <1>5, <1>6, <1>7, <1>8, <1>9, QuietKeeps

LEMMA CollectsForFill ==
  ASSUME IInv, NEW r \in Requests, CollectForFill(r)
  PROVE  IInv'
<1>1. PICK q : q = req[r]
  OBVIOUS
<1>2. PICK q2 : q2 = [q EXCEPT !.step = "list", !.whole = Stored]
  OBVIOUS
<1>3. /\ q.op = "fill" /\ q.step = "collect" /\ Step(r, q2)
      /\ UNCHANGED data /\ rewritten' = rewritten /\ raced' = raced
  BY <1>1, <1>2 DEF CollectForFill, At, history
<1>4. /\ q \in RequestState /\ Fields(q) /\ q.lessons \cup q.whole \subseteq Created
      /\ \A l \in q.lessons : Holds(q, l, Stored, title, raced)
      /\ raced \subseteq Titles
  BY <1>1, InHandFacts
<1>5. Stored \subseteq Created /\ Stored \subseteq Lessons
  BY DEF Stored, Created
<1>6. /\ q2 \in RequestState /\ q2.op = "fill" /\ q2.step = "list" /\ q2.titles = q.titles
      /\ q2.files = q.files /\ q2.lessons = q.lessons /\ q2.whole = Stored /\ q2.fills = q.fills
  BY <1>2, <1>3, <1>4, <1>5 DEF RequestState
<1>7. Fields(q2) /\ q2.titles = {} /\ ~q2.fills
  BY <1>3, <1>4, <1>6 DEF Fields, Lists
<1>8. \A l \in q2.lessons : Holds(q2, l, Stored, title, raced)
  BY <1>6 DEF Holds, Lists
<1>9. ListsOf(q2, Stored, listed)
  BY <1>6, <1>7 DEF ListsOf
<1> QED
  BY <1>1, <1>3, <1>4, <1>5, <1>6, <1>7, <1>8, <1>9, QuietKeeps

LEMMA SavesAnnouncement ==
  ASSUME IInv, NEW r \in Requests, SaveAnnouncement(r)
  PROVE  IInv'
<1>1. PICK q, q2 : q = req[r] /\ q2 = NoRequest
  OBVIOUS
<1>2. /\ q.op = "announce" /\ (Step(r, q2) \/ Saved(r, q2))
      /\ UNCHANGED data /\ rewritten' = rewritten /\ raced' = raced
  BY <1>1 DEF SaveAnnouncement, At, history, End
<1>3. q.titles = {} /\ raced \subseteq Titles
  BY <1>1, <1>2, InHandFacts DEF Fields
<1>4. /\ q2 \in RequestState /\ Fields(q2) /\ q2.op = "none" /\ q2.titles = {}
      /\ q2.lessons = {} /\ q2.whole = {} /\ ~q2.fills
  BY <1>1, NoRequestFields
<1>5. ListsOf(q2, Stored, listed)
  BY <1>4 DEF ListsOf
<1> QED
  BY <1>1, <1>2, <1>3, <1>4, <1>5, QuietKeeps

LEMMA Fails ==
  ASSUME IInv, NEW r \in Requests, RequestFails(r)
  PROVE  IInv'
BY FailKeeps DEF RequestFails

LEMMA Loads ==
  ASSUME IInv, Load
  PROVE  IInv'
<1>1. /\ UNCHANGED <<state, title, listed, directory, req, raced, rewritten>> /\ seen' = listed
      /\ \A l : Gone(l)' <=> Gone(l)
      /\ \A t : Titled(t)' = Titled(t)
      /\ Stored' = Stored /\ Created' = Created
  BY DEF Load, history, Gone, Titled, Stored, Created
<1>2. Types'
  BY <1>1, TypesData DEF IInv, DataTypes
<1>3. Apart' /\ Held' /\ TitlesAreUnique'
  BY <1>1 DEF IInv, Apart, Held, TitlesAreUnique
<1>4. Phases' /\ FreeSettled'
  BY <1>1 DEF IInv, Phases, PhaseOf, FreeSettled, SettledNow, InHand, Busy
<1>5. ListInv'
  BY <1>1 DEF IInv, ListInv
<1> QED
  BY <1>2, <1>3, <1>4, <1>5 DEF IInv
------------------------------------------------------------------------------
(* The files *)

LEMMA PlacesFiles ==
  ASSUME IInv, NEW r \in Requests, NEW u \in Titles, PlaceFiles(r, u)
  PROVE  IInv'
<1>1. PICK q : q = req[r]
  OBVIOUS
<1>2. PICK p : p = [q EXCEPT !.files = @ \ {u}]
  OBVIOUS
<1>3. PICK q2 : q2 = IF p.files = {} THEN NoRequest ELSE p
  OBVIOUS
<1>4. /\ q.op \in {"create", "copyAll"} /\ q.step = "files" /\ u \in q.files
      /\ directory' = directory \cup {u} /\ Step(r, q2) /\ raced' = raced
      /\ UNCHANGED <<state, title, listed, seen, rewritten>>
  BY <1>1, <1>2, <1>3 DEF PlaceFiles, At, history
<1>5. /\ q \in RequestState /\ Fields(q) /\ q.titles \subseteq Titles
      /\ q.lessons \cup q.whole \subseteq Created
      /\ \A t \in q.titles \ raced : PhaseOf(q, t)
      /\ \A l \in q.lessons : Holds(q, l, Stored, title, raced)
      /\ rewritten \/ ListsOf(q, Stored, listed)
      /\ raced \subseteq Titles /\ DataTypes
  BY <1>1, InHandFacts
<1>6. /\ p \in RequestState /\ p.op = q.op /\ p.step = "files" /\ p.titles = q.titles
      /\ p.files = q.files \ {u} /\ p.lessons = q.lessons /\ p.whole = q.whole
      /\ p.fills = q.fills /\ p.stale = q.stale /\ p.to = q.to /\ p.from = q.from
  BY <1>2, <1>4, <1>5 DEF RequestState
<1>7. q.files \subseteq q.titles /\ u \in q.titles
  BY <1>4, <1>5 DEF Fields
<1>8. \A t \in q.titles \ raced :
        Titled(t) # {} /\ (rewritten \/ Titled(t) \subseteq listed)
        /\ (t \in q.files \/ t \in directory)
  BY <1>4, <1>5 DEF PhaseOf, Phase
<1>9. /\ directory' \subseteq Titles
      /\ \A t \in Titles \ (q.titles \cup raced') : t \in directory' <=> t \in directory
  BY <1>4, <1>5, <1>7 DEF DataTypes
<1>10. CASE p.files = {}
  <2>1. q2 = NoRequest
    BY <1>3, <1>10
  <2>2. \A t \in q.titles \ raced : Settled(t, Titled(t), directory', listed, rewritten)
    BY <1>4, <1>6, <1>8, <1>10 DEF Settled
  <2>3. /\ q2 \in RequestState /\ Fields(q2) /\ q2.op = "none" /\ q2.titles = {}
        /\ q2.lessons = {} /\ q2.whole = {} /\ ~q2.fills
    BY <2>1, NoRequestFields
  <2>4. ListsOf(q2, Stored, listed)
    BY <2>3 DEF ListsOf
  <2> QED
    BY <1>1, <1>4, <1>5, <1>9, <2>2, <2>3, <2>4, FilesKeep
<1>11. CASE p.files # {}
  <2>1. q2 = p
    BY <1>3, <1>11
  <2>2. Fields(q2)
    BY <1>4, <1>5, <1>6, <1>11, <2>1 DEF Fields, Lists
  <2>3. \A t \in q2.titles \ raced' : Phase(q2, t, Titled(t), directory', listed, rewritten)
    BY <1>4, <1>6, <1>8, <2>1 DEF Phase
  <2>4. \A l \in q2.lessons : Holds(q2, l, Stored, title, raced)
    BY <1>4, <1>5, <1>6, <2>1 DEF Holds, Lists
  <2>5. rewritten \/ ListsOf(q2, Stored, listed)
    BY <1>4, <1>5, <1>6, <2>1 DEF ListsOf
  <2>6. q2 \in RequestState
    BY <1>6, <2>1
  <2> QED
    BY <1>1, <1>4, <1>5, <1>6, <1>9, <2>1, <2>2, <2>3, <2>4, <2>5, <2>6, FilesKeep
<1> QED
  BY <1>10, <1>11

LEMMA CopiesFiles ==
  ASSUME IInv, NEW r \in Requests, CopyFiles(r)
  PROVE  IInv'
<1>1. PICK q : q = req[r]
  OBVIOUS
<1>2. PICK q2 : q2 = [q EXCEPT !.step = "store"]
  OBVIOUS
<1>3. /\ q.op = "copy" /\ q.step = "files" /\ directory' = directory \cup {q.to}
      /\ Step(r, q2) /\ raced' = raced
      /\ UNCHANGED <<state, title, listed, seen, rewritten>>
  BY <1>1, <1>2 DEF CopyFiles, At, history
<1>4. /\ q \in RequestState /\ Fields(q) /\ q.titles \subseteq Titles
      /\ q.lessons \cup q.whole \subseteq Created
      /\ \A t \in q.titles \ raced : PhaseOf(q, t)
      /\ \A l \in q.lessons : Holds(q, l, Stored, title, raced)
      /\ rewritten \/ ListsOf(q, Stored, listed)
      /\ raced \subseteq Titles /\ DataTypes
  BY <1>1, InHandFacts
<1>5. /\ q2 \in RequestState /\ q2.op = "copy" /\ q2.step = "store" /\ q2.titles = q.titles
      /\ q2.files = q.files /\ q2.lessons = q.lessons /\ q2.whole = q.whole
      /\ q2.fills = q.fills /\ q2.stale = q.stale /\ q2.to = q.to /\ q2.from = q.from
  BY <1>2, <1>3, <1>4 DEF RequestState
<1>6. q.titles = {q.to}
  BY <1>3, <1>4 DEF Fields
<1>7. /\ directory' \subseteq Titles
      /\ \A t \in Titles \ (q.titles \cup raced') : t \in directory' <=> t \in directory
  BY <1>3, <1>4, <1>6 DEF DataTypes
<1>8. Fields(q2)
  BY <1>3, <1>4, <1>5 DEF Fields, Lists
<1>9. \A t \in q2.titles \ raced' : Phase(q2, t, Titled(t), directory', listed, rewritten)
  BY <1>3, <1>4, <1>5, <1>6 DEF Phase, PhaseOf, Settled
<1>10. \A l \in q2.lessons : Holds(q2, l, Stored, title, raced)
  BY <1>3, <1>4, <1>5 DEF Holds, Lists
<1>11. rewritten \/ ListsOf(q2, Stored, listed)
  BY <1>3, <1>4, <1>5 DEF ListsOf
<1> QED
  BY <1>1, <1>3, <1>4, <1>5, <1>7, <1>8, <1>9, <1>10, <1>11, FilesKeep

LEMMA RemovesFiles ==
  ASSUME IInv, NEW r \in Requests, RemoveFiles(r)
  PROVE  IInv'
<1>1. PICK q : q = req[r]
  OBVIOUS
<1>2. PICK q2 : q2 = [q EXCEPT !.step = "drop"]
  OBVIOUS
<1>3. /\ q.op = "delete" /\ q.step = "files" /\ directory' = directory \ {q.from}
      /\ Step(r, q2) /\ raced' = raced
      /\ UNCHANGED <<state, title, listed, seen, rewritten>>
  BY <1>1, <1>2 DEF RemoveFiles, At, history
<1>4. /\ q \in RequestState /\ Fields(q) /\ q.titles \subseteq Titles
      /\ q.lessons \cup q.whole \subseteq Created
      /\ \A t \in q.titles \ raced : PhaseOf(q, t)
      /\ \A l \in q.lessons : Holds(q, l, Stored, title, raced)
      /\ rewritten \/ ListsOf(q, Stored, listed)
      /\ raced \subseteq Titles /\ DataTypes
  BY <1>1, InHandFacts
<1>5. /\ q2 \in RequestState /\ q2.op = "delete" /\ q2.step = "drop" /\ q2.titles = q.titles
      /\ q2.files = q.files /\ q2.lessons = q.lessons /\ q2.whole = q.whole
      /\ q2.fills = q.fills /\ q2.stale = q.stale /\ q2.to = q.to /\ q2.from = q.from
  BY <1>2, <1>3, <1>4 DEF RequestState
<1>6. q.titles = {q.from}
  BY <1>3, <1>4 DEF Fields
<1>7. /\ directory' \subseteq Titles
      /\ \A t \in Titles \ (q.titles \cup raced') : t \in directory' <=> t \in directory
  BY <1>3, <1>4, <1>6 DEF DataTypes
<1>8. Fields(q2)
  BY <1>3, <1>4, <1>5 DEF Fields, Lists
<1>9. \A t \in q2.titles \ raced' : Phase(q2, t, Titled(t), directory', listed, rewritten)
  BY <1>3, <1>4, <1>5, <1>6 DEF Phase, PhaseOf
<1>10. \A l \in q2.lessons : Holds(q2, l, Stored, title, raced)
  BY <1>3, <1>4, <1>5 DEF Holds, Lists
<1>11. rewritten \/ ListsOf(q2, Stored, listed)
  BY <1>3, <1>4, <1>5 DEF ListsOf
<1> QED
  BY <1>1, <1>3, <1>4, <1>5, <1>7, <1>8, <1>9, <1>10, <1>11, FilesKeep

LEMMA MovesFiles ==
  ASSUME IInv, NEW r \in Requests, MoveFiles(r)
  PROVE  IInv'
<1>1. PICK q, q2 : q = req[r] /\ q2 = NoRequest
  OBVIOUS
<1>2. /\ q.op = "update" /\ q.step = "move"
      /\ IF q.from \in directory /\ q.to \notin directory
         THEN /\ Step(r, q2) /\ directory' = (directory \ {q.from}) \cup {q.to}
              /\ UNCHANGED raced
         ELSE Fail(r) /\ UNCHANGED directory
      /\ UNCHANGED <<state, title, listed, seen, rewritten>>
  BY <1>1 DEF MoveFiles, At, End
<1>3. /\ q \in RequestState /\ Fields(q) /\ q.titles \subseteq Titles
      /\ \A t \in q.titles \ raced : PhaseOf(q, t)
      /\ raced \subseteq Titles /\ DataTypes
  BY <1>1, InHandFacts
<1>4. CASE q.from \in directory /\ q.to \notin directory
  <2>1. /\ Step(r, q2) /\ directory' = (directory \ {q.from}) \cup {q.to} /\ raced' = raced
    BY <1>2, <1>4
  <2>2. q.titles = {q.from, q.to} /\ q.from # q.to
    BY <1>2, <1>3 DEF Fields
  <2>3. /\ directory' \subseteq Titles
        /\ \A t \in Titles \ (q.titles \cup raced') : t \in directory' <=> t \in directory
    BY <1>3, <2>1, <2>2 DEF DataTypes
  <2>4. \A t \in q.titles \ raced : Settled(t, Titled(t), directory', listed, rewritten)
    BY <1>2, <1>3, <2>1, <2>2 DEF PhaseOf, Phase, Settled
  <2>5. /\ q2 \in RequestState /\ Fields(q2) /\ q2.op = "none" /\ q2.titles = {}
        /\ q2.lessons = {} /\ q2.whole = {} /\ ~q2.fills
    BY <1>1, NoRequestFields
  <2>6. ListsOf(q2, Stored, listed)
    BY <2>5 DEF ListsOf
  <2> QED
    BY <1>1, <1>2, <1>3, <2>1, <2>3, <2>4, <2>5, <2>6, FilesKeep
<1>5. CASE ~(q.from \in directory /\ q.to \notin directory)
  BY <1>2, <1>5, FailKeeps DEF data
<1> QED
  BY <1>4, <1>5
------------------------------------------------------------------------------
(* The documents: lessons are stored, dropped and renamed. *)

LEMMA StoreKeeps ==
  ASSUME IInv, NEW r \in Requests, NEW q, q = req[r],
         q.op \in {"create", "copy", "copyAll"}, q.step = "store", Stores(r, q.titles),
         UNCHANGED <<listed, directory, seen, rewritten>>,
         raced \subseteq raced', raced' \subseteq Titles,
         \A t \in q.titles \ raced' : Titled(t) = {} /\ (t \in q.files \/ t \in directory)
  PROVE  IInv'
<1>1. /\ q \in RequestState /\ Fields(q) /\ q.titles \subseteq Titles
      /\ q.lessons \cup q.whole \subseteq Created
      /\ rewritten \/ ListsOf(q, Stored, listed)
      /\ raced \subseteq Titles /\ DataTypes
  BY InHandFacts
<1> DEFINE Named(L, name) ==
  /\ {name[l] : l \in L} = q.titles /\ \A l, m \in L : name[l] = name[m] => l = m
  /\ state' = [l \in Lessons |-> IF l \in L THEN "stored" ELSE state[l]]
  /\ title' = [l \in Lessons |-> IF l \in L THEN name[l] ELSE title[l]]
  /\ Step(r, [req[r] EXCEPT !.lessons = L, !.step = IF req[r].fills THEN "collect" ELSE "list"])
<1>a. PICK L \in SUBSET {l \in Lessons : state[l] = "new"} :
        \E name \in [L -> q.titles] : Named(L, name)
  BY DEF Stores
<1>2. PICK name \in [L -> q.titles] : Named(L, name)
  BY <1>a
<1>3. PICK q2 : q2 = [q EXCEPT !.lessons = L, !.step = IF q.fills THEN "collect" ELSE "list"]
  OBVIOUS
<1>4. /\ L \subseteq Lessons /\ L \cap Created = {}
      /\ \A l \in L : state'[l] = "stored" /\ title'[l] = name[l] /\ name[l] \in q.titles
      /\ \A l \in Lessons \ L : state'[l] = state[l] /\ title'[l] = title[l]
  BY <1>2 DEF Created
<1>5. Stored' = Stored \cup L /\ Created' = Created \cup L
  <2>1. Stored' = {l \in Lessons : state'[l] = "stored"}
    BY DEF Stored
  <2>2. Created' = {l \in Lessons : state'[l] # "new"}
    BY DEF Created
  <2> QED
    BY <2>1, <2>2, <1>4 DEF Stored, Created
<1>6. \A t : Titled(t)' = Titled(t) \cup {l \in L : name[l] = t}
  <2> SUFFICES ASSUME NEW t
               PROVE  Titled(t)' = Titled(t) \cup {l \in L : name[l] = t}
    OBVIOUS
  <2>1. Titled(t)' = {l \in Stored' : title'[l] = t}
    BY DEF Titled
  <2>2. Stored \cap L = {} /\ Stored \subseteq Lessons
    BY <1>4 DEF Stored, Created
  <2> QED
    BY <2>1, <2>2, <1>4, <1>5 DEF Titled
<1>7. /\ q2 \in RequestState /\ q2.op = q.op /\ q2.titles = q.titles /\ q2.files = q.files
      /\ q2.step = (IF q.fills THEN "collect" ELSE "list")
      /\ q2.lessons = L /\ q2.whole = q.whole /\ q2.from = q.from
      /\ q2.fills = q.fills /\ q2.stale = q.stale /\ q2.to = q.to
  BY <1>1, <1>3, <1>4 DEF RequestState
<1>8. q2.step \in {"collect", "list"}
  BY <1>7
<1>9. Fields(q2)
  BY <1>1, <1>7, <1>8 DEF Fields, Lists
<1>10. DataTypes'
  <2>1. /\ state' \in [Lessons -> {"new", "stored", "deleted"}]
        /\ title' \in [Lessons -> Titles \cup {"none"}]
    <3>1. \A l \in Lessons : /\ state'[l] \in {"new", "stored", "deleted"}
                             /\ title'[l] \in Titles \cup {"none"}
      BY <1>1, <1>4 DEF DataTypes
    <3> QED
      BY <1>2, <3>1
  <2>2. \A l \in Lessons : (title'[l] = "none") <=> (state'[l] = "new")
    BY <1>1, <1>4, NoneIsNoTitle DEF DataTypes
  <2>3. listed' \cup seen' \subseteq Created' /\ directory' \cup raced' \subseteq Titles
    BY <1>1, <1>5 DEF DataTypes
  <2> QED
    BY <2>1, <2>2, <2>3, <1>1 DEF DataTypes
<1>11. Types' /\ Others(r, q2)
  <2>1. Created \subseteq Created' /\ q2.lessons \cup q2.whole \subseteq Created'
    BY <1>1, <1>5, <1>7
  <2> QED
    BY <2>1, <1>2, <1>3, <1>7, <1>9, <1>10, Becomes DEF IInv
<1>12. Beyond(r, q)
  <2>1. ASSUME NEW t \in Titles \ q.titles
        PROVE  Titled(t)' = Titled(t)
    <3>1. {l \in L : name[l] = t} = {}
      BY <1>4, <2>1
    <3> QED
      BY <3>1, <1>6
  <2> QED
    BY <2>1 DEF Beyond
<1>13. Moves(q)
  BY <1>4, <1>5 DEF Moves, Created
<1>14. ListMoves(r, q, q2)
  <2> SUFFICES ASSUME ~rewritten
               PROVE  ListMoves(r, q, q2)
    BY DEF ListMoves
  <2>1. \A l \in listed' : l \in Stored' \/ Gone(l)'
    <3> SUFFICES ASSUME NEW l \in listed
                 PROVE  l \in Stored' \/ Gone(l)'
      OBVIOUS
    <3>1. l \in Created /\ l \in Lessons \ L
      BY <1>1, <1>4 DEF DataTypes, Created
    <3>2. l \in Stored \/ Gone(l)
      BY DEF IInv, ListInv
    <3> QED
      BY <3>1, <3>2, <1>4, <1>5 DEF Gone
  <2>2. ListsOf(q2, Stored', listed')
    BY <1>1, <1>5, <1>7 DEF ListsOf
  <2> QED
    BY <2>1, <2>2, <1>5, <1>7 DEF ListMoves, Lists
<1>15. Own(q, q2)
  <2>1. ASSUME NEW t \in q2.titles \ raced'
        PROVE  Phase(q2, t, Titled(t)', directory', listed', rewritten')
    <3>1. Titled(t)' = {l \in L : name[l] = t} /\ (t \in q.files \/ t \in directory)
      BY <1>6, <1>7, <2>1
    <3>2. Titled(t)' # {} /\ Titled(t)' \subseteq L
      BY <3>1, <2>1, <1>2, <1>7
    <3> QED
      BY <3>1, <3>2, <1>7, <1>8 DEF Phase
  <2>2. ASSUME NEW l \in Stored', NEW m \in Stored', l # m, title'[l] = title'[m],
               title'[l] \in q.titles, title'[l] \notin raced'
        PROVE  FALSE
    <3>1. PICK t : t = title'[l]
      OBVIOUS
    <3>2. Titled(t) = {}
      BY <2>2, <3>1
    <3>3. l \in Titled(t)' /\ m \in Titled(t)'
      BY <2>2, <3>1 DEF Titled
    <3> QED
      BY <3>2, <3>3, <1>2, <1>6, <2>2
  <2>3. \A l \in q2.lessons : Holds(q2, l, Stored', title', raced')
    BY <1>4, <1>5, <1>7, <1>8 DEF Holds
  <2> QED
    BY <2>1, <2>2, <2>3, <1>7 DEF Own
<1> QED
  BY <1>7, <1>11, <1>12, <1>13, <1>14, <1>15, StepKeeps

LEMMA StoresLesson ==
  ASSUME IInv, NEW r \in Requests, StoreLesson(r)
  PROVE  IInv'
<1>1. PICK q : q = req[r]
  OBVIOUS
<1>2. /\ q.op = "create" /\ q.step = "store" /\ Stores(r, {q.to}) /\ raced' = raced
      /\ UNCHANGED <<listed, directory, seen, rewritten>>
  BY <1>1 DEF StoreLesson, At, history
<1>3. /\ Fields(q) /\ raced \subseteq Titles
      /\ \A t \in q.titles \ raced : PhaseOf(q, t)
  BY <1>1, InHandFacts
<1>4. q.titles = {q.to} /\ q.files = {q.to}
  BY <1>2, <1>3 DEF Fields
<1>5. \A t \in q.titles \ raced' : Titled(t) = {} /\ (t \in q.files \/ t \in directory)
  BY <1>2, <1>3, <1>4 DEF PhaseOf, Phase
<1> QED
  BY <1>1, <1>2, <1>3, <1>4, <1>5, StoreKeeps

LEMMA StoresCopy ==
  ASSUME IInv, NEW r \in Requests, StoreCopy(r)
  PROVE  IInv'
<1>1. PICK q : q = req[r]
  OBVIOUS
<1>2. /\ q.op = "copy" /\ q.step = "store" /\ Stores(r, {q.to})
      /\ raced' = IF Titled(q.to) = {} THEN raced ELSE raced \cup {q.to}
      /\ UNCHANGED <<listed, directory, seen, rewritten>>
  BY <1>1 DEF StoreCopy, At
<1>3. /\ Fields(q) /\ raced \subseteq Titles /\ q.titles \subseteq Titles
      /\ \A t \in q.titles \ raced : PhaseOf(q, t)
  BY <1>1, InHandFacts
<1>4. q.titles = {q.to}
  BY <1>2, <1>3 DEF Fields
<1>5. raced \subseteq raced' /\ raced' \subseteq Titles /\ Stores(r, q.titles)
  BY <1>2, <1>3, <1>4
<1>6. \A t \in q.titles \ raced' : Titled(t) = {} /\ t \in directory
  BY <1>2, <1>3, <1>4, <1>5 DEF PhaseOf, Phase
<1> QED
  BY <1>1, <1>2, <1>4, <1>5, <1>6, StoreKeeps

LEMMA InsertsLessons ==
  ASSUME IInv, NEW r \in Requests, InsertLessons(r)
  PROVE  IInv'
<1>1. PICK q : q = req[r]
  OBVIOUS
<1>2. /\ q.op = "copyAll" /\ q.step = "store" /\ Stores(r, q.titles)
      /\ raced' = raced \cup {t \in q.titles : Titled(t) # {}}
      /\ UNCHANGED <<listed, directory, seen, rewritten>>
  BY <1>1 DEF InsertLessons, At
<1>3. /\ Fields(q) /\ raced \subseteq Titles /\ q.titles \subseteq Titles
  BY <1>1, InHandFacts
<1>4. q.files = q.titles
  BY <1>2, <1>3 DEF Fields
<1>5. raced \subseteq raced' /\ raced' \subseteq Titles
  BY <1>2, <1>3
<1>6. \A t \in q.titles \ raced' : Titled(t) = {} /\ t \in q.files
  BY <1>2, <1>4
<1> QED
  BY <1>1, <1>2, <1>5, <1>6, StoreKeeps

LEMMA DropsLesson ==
  ASSUME IInv, NEW r \in Requests, DropLesson(r)
  PROVE  IInv'
<1>1. PICK q, q2 : q = req[r] /\ q2 = NoRequest
  OBVIOUS
<1>2. /\ q.op = "delete" /\ q.step = "drop" /\ Step(r, q2)
      /\ IF Titled(q.from) = {} THEN UNCHANGED state
         ELSE \E l \in Titled(q.from) : state' = [state EXCEPT ![l] = "deleted"]
      /\ UNCHANGED <<title, listed, directory, seen, raced, rewritten>>
  BY <1>1 DEF DropLesson, At, End, history
<1>3. /\ q \in RequestState /\ Fields(q) /\ q.titles \subseteq Titles
      /\ \A t \in q.titles \ raced : PhaseOf(q, t)
      /\ raced \subseteq Titles /\ DataTypes
  BY <1>1, InHandFacts
<1>4. q.titles = {q.from} /\ q.from \in Titles
  BY <1>2, <1>3 DEF Fields
<1>5. \A t \in q.titles \ raced : t \notin directory /\ (rewritten \/ Titled(t) \cap listed = {})
  BY <1>2, <1>3 DEF PhaseOf, Phase
<1>6. CASE Titled(q.from) = {}
  <2>1. UNCHANGED data
    BY <1>2, <1>6 DEF data
  <2>2. \A t \in q.titles \ raced : SettledNow(t)
    BY <1>4, <1>5, <1>6 DEF SettledNow, Settled
  <2> QED
    BY <1>1, <1>2, <1>3, <2>1, <2>2, EndKeeps DEF End
<1>7. CASE Titled(q.from) # {}
  <2>1. PICK x \in Titled(q.from) : state' = [state EXCEPT ![x] = "deleted"]
    BY <1>2, <1>7
  <2>2. x \in Lessons /\ x \in Stored /\ title[x] = q.from /\ state[x] = "stored"
    BY DEF Titled, Stored
  <2>3. /\ state' \in [Lessons -> {"new", "stored", "deleted"}] /\ state'[x] = "deleted"
        /\ \A l \in Lessons \ {x} : state'[l] = state[l]
    BY <1>3, <2>1, <2>2 DEF DataTypes
  <2>4. Stored' = Stored \ {x} /\ Created' = Created
    <3>1. Stored' = {l \in Lessons : state'[l] = "stored"}
      BY DEF Stored
    <3>2. Created' = {l \in Lessons : state'[l] # "new"}
      BY DEF Created
    <3> QED
      BY <3>1, <3>2, <2>2, <2>3 DEF Stored, Created
  <2>5. \A t : Titled(t)' = Titled(t) \ {x}
    <3> SUFFICES ASSUME NEW t
                 PROVE  Titled(t)' = Titled(t) \ {x}
      OBVIOUS
    <3>1. Titled(t)' = {l \in Stored' : title'[l] = t}
      BY DEF Titled
    <3> QED
      BY <3>1, <2>4, <1>2 DEF Titled
  <2>6. /\ q2 \in RequestState /\ Fields(q2) /\ q2.op = "none" /\ q2.titles = {}
        /\ q2.lessons = {} /\ q2.whole = {} /\ ~q2.fills
    BY <1>1, NoRequestFields
  <2>7. DataTypes'
    BY <1>2, <1>3, <2>2, <2>3, <2>4 DEF DataTypes
  <2>8. Types' /\ Others(r, q2)
    BY <1>2, <2>4, <2>6, <2>7, Becomes DEF IInv
  <2>9. Beyond(r, q)
    <3>1. \A t \in Titles \ q.titles : Titled(t)' = Titled(t)
      BY <1>4, <2>2, <2>5 DEF Titled
    <3> QED
      BY <3>1, <1>2 DEF Beyond
  <2>10. Moves(q)
    BY <1>2, <1>4, <2>2, <2>4 DEF Moves, Created
  <2>11. ListMoves(r, q, q2)
    <3> SUFFICES ASSUME ~rewritten
                 PROVE  ListMoves(r, q, q2)
      BY <1>2 DEF ListMoves
    <3>1. \A l \in listed' : l \in Stored' \/ Gone(l)'
      <4> SUFFICES ASSUME NEW l \in listed
                   PROVE  l \in Stored' \/ Gone(l)'
        BY <1>2
      <4>1. (l \in Stored \/ Gone(l)) /\ l \in Lessons
        BY <1>3 DEF IInv, ListInv, DataTypes, Created
      <4>2. CASE l # x
        BY <4>1, <4>2, <1>2, <2>3, <2>4 DEF Gone
      <4>3. CASE l = x
        <5>1. q.from \in raced
          BY <4>3, <1>4, <1>5
        <5> QED
          BY <4>3, <5>1, <1>2, <2>2, <2>3 DEF Gone
      <4> QED
        BY <4>2, <4>3
    <3>2. ListsOf(q2, Stored', listed')
      BY <2>6 DEF ListsOf
    <3> QED
      BY <3>1, <3>2, <1>2, <2>6 DEF ListMoves
  <2>12. Own(q, q2)
    <3>1. ASSUME NEW t \in q.titles \ raced'
          PROVE  Settled(t, Titled(t)', directory', listed', rewritten')
      <4>1. t = q.from /\ t \in Titles \ raced
        BY <3>1, <1>2, <1>4
      <4>2. Titled(t) = {x}
        BY <4>1, OnlyOne
      <4>3. Titled(t)' = {}
        BY <4>2, <2>5
      <4> QED
        BY <4>1, <4>3, <1>2, <1>4, <1>5 DEF Settled
    <3>2. \A l, m \in Stored' :
            l # m /\ title'[l] = title'[m] /\ title'[l] \in q.titles => title'[l] \in raced'
      BY <1>2, <2>4 DEF IInv, TitlesAreUnique
    <3> QED
      BY <3>1, <3>2, <2>6 DEF Own
  <2> QED
    BY <1>1, <2>8, <2>9, <2>10, <2>11, <2>12, StepKeeps
<1> QED
  BY <1>6, <1>7

LEMMA SavesTitle ==
  ASSUME IInv, NEW r \in Requests, SaveTitle(r)
  PROVE  IInv'
<1>1. PICK q : q = req[r]
  OBVIOUS
<1>2. /\ q.op = "update" /\ q.step = "rename"
      /\ IF q.lessons \subseteq Stored
         THEN /\ title' = [l \in Lessons |-> IF l \in q.lessons THEN q.to ELSE title[l]]
              /\ Step(r, [q EXCEPT !.step = "move", !.lessons = {}])
              /\ raced' = IF q.from \in raced THEN raced \cup {q.to} ELSE raced
         ELSE Fail(r) /\ UNCHANGED title
      /\ UNCHANGED <<state, listed, directory, seen, rewritten>>
  BY <1>1 DEF SaveTitle, At
<1>3. /\ q \in RequestState /\ Fields(q) /\ q.titles \subseteq Titles
      /\ q.lessons \cup q.whole \subseteq Created
      /\ \A t \in q.titles \ raced : PhaseOf(q, t)
      /\ \A l \in q.lessons : Holds(q, l, Stored, title, raced)
      /\ raced \subseteq Titles /\ DataTypes
  BY <1>1, InHandFacts
<1>4. CASE ~(q.lessons \subseteq Stored)
  BY <1>2, <1>4, FailKeeps DEF data
<1>5. CASE q.lessons \subseteq Stored
  <2>1. PICK x \in Lessons : q.lessons = {x}
    BY <1>2, <1>3 DEF Fields
  <2>2. PICK q2 : q2 = [q EXCEPT !.step = "move", !.lessons = {}]
    OBVIOUS
  <2>3. /\ title' = [l \in Lessons |-> IF l \in q.lessons THEN q.to ELSE title[l]]
        /\ Step(r, q2) /\ raced' = IF q.from \in raced THEN raced \cup {q.to} ELSE raced
        /\ UNCHANGED <<state, listed, directory, seen, rewritten>>
    BY <1>2, <1>5, <2>2
  <2>4. /\ q.titles = {q.from, q.to} /\ q.from # q.to /\ q.from \in Titles /\ q.to \in Titles
        /\ ~q.fills /\ q.files = {}
    BY <1>2, <1>3 DEF Fields, Lists
  <2>5. /\ title'[x] = q.to /\ \A l \in Lessons \ {x} : title'[l] = title[l]
        /\ title' \in [Lessons -> Titles \cup {"none"}]
    BY <1>3, <2>1, <2>3, <2>4 DEF DataTypes
  <2>6. x \in Stored /\ x \in Created /\ Stored' = Stored /\ Created' = Created
    BY <1>3, <1>5, <2>1, <2>3 DEF Stored, Created
  <2>7. title[x] = q.from \/ {title[x], q.from} \subseteq raced
    BY <1>2, <1>3, <2>1 DEF Holds
  <2>8. \A t : Titled(t)' = IF t = q.to THEN Titled(t) \cup {x} ELSE Titled(t) \ {x}
    <3> SUFFICES ASSUME NEW t
                 PROVE  Titled(t)' = IF t = q.to THEN Titled(t) \cup {x} ELSE Titled(t) \ {x}
      OBVIOUS
    <3>1. Titled(t)' = {l \in Stored : title'[l] = t}
      BY <2>6 DEF Titled
    <3>2. Stored \subseteq Lessons
      BY DEF Stored
    <3> QED
      BY <3>1, <3>2, <2>5, <2>6 DEF Titled
  <2>9. /\ q2 \in RequestState /\ q2.op = "update" /\ q2.step = "move" /\ q2.titles = q.titles
        /\ q2.files = q.files /\ q2.lessons = {} /\ q2.whole = q.whole /\ q2.fills = q.fills
        /\ q2.from = q.from /\ q2.to = q.to
    BY <1>2, <1>3, <2>2 DEF RequestState
  <2>10. Fields(q2)
    BY <1>2, <1>3, <2>4, <2>9 DEF Fields, Lists
  <2>11. raced \subseteq raced' /\ raced' \subseteq Titles
    BY <1>3, <2>3, <2>4
  <2>12. DataTypes'
    <3>1. \A l \in Lessons : (title'[l] = "none") <=> (state'[l] = "new")
      BY <1>3, <2>3, <2>4, <2>5, <2>6, NoneIsNoTitle DEF DataTypes, Created
    <3> QED
      BY <3>1, <1>3, <2>3, <2>5, <2>6, <2>11 DEF DataTypes
  <2>13. Types' /\ Others(r, q2)
    BY <1>3, <2>3, <2>6, <2>9, <2>10, <2>11, <2>12, Becomes DEF IInv
  <2>14. Beyond(r, q)
    <3>1. ASSUME NEW t \in Titles \ (q.titles \cup raced')
          PROVE  Titled(t)' = Titled(t)
      <4>1. x \notin Titled(t)
        BY <3>1, <2>4, <2>7, <2>11 DEF Titled
      <4> QED
        BY <4>1, <3>1, <2>4, <2>8
    <3> QED
      BY <3>1, <2>3 DEF Beyond
  <2>15. Moves(q)
    <3>1. \A l \in Created : (l \in Stored' <=> l \in Stored) /\ l \in Lessons
      BY <2>6 DEF Created
    <3>2. title[x] \in q.titles \cup raced /\ (title[x] \in raced => title'[x] \in raced')
      BY <2>3, <2>4, <2>5, <2>7
    <3> QED
      BY <3>1, <3>2, <2>5, <2>11 DEF Moves
  <2>16. ListMoves(r, q, q2)
    <3> SUFFICES ASSUME ~rewritten
                 PROVE  ListMoves(r, q, q2)
      BY <2>3 DEF ListMoves
    <3>1. \A l \in listed' : l \in Stored' \/ Gone(l)'
      <4> SUFFICES ASSUME NEW l \in listed
                   PROVE  l \in Stored' \/ Gone(l)'
        BY <2>3
      <4>1. (l \in Stored \/ Gone(l)) /\ l \in Lessons
        BY <1>3 DEF IInv, ListInv, DataTypes, Created
      <4> QED
        BY <4>1, <2>3, <2>5, <2>6, <2>11 DEF Gone
    <3>2. ListsOf(q2, Stored', listed')
      BY <2>4, <2>9 DEF ListsOf
    <3>3. q2.op = q.op /\ ~q2.fills /\ listed' = listed /\ Stored' = Stored
      BY <2>3, <2>4, <2>6, <2>9, <1>2
    <3> QED
      BY <3>1, <3>2, <3>3 DEF ListMoves
  <2>17. Own(q, q2)
    <3>1. ASSUME NEW t \in q.titles \ raced'
          PROVE  Phase(q2, t, Titled(t)', directory', listed', rewritten')
      <4>1. t \notin raced /\ Settled(t, Titled(t), directory, listed, rewritten)
            /\ (t = q.to => Titled(t) = {}) /\ (t = q.from => Titled(t) \subseteq {x})
        BY <1>2, <1>3, <2>1, <2>11, <3>1 DEF PhaseOf, Phase
      <4>2. CASE t = q.from
        <5>1. Titled(t)' = {}
          BY <4>1, <4>2, <2>4, <2>8
        <5> QED
          BY <4>2, <5>1, <2>9 DEF Phase
      <4>3. CASE t = q.to
        <5>1. q.from \notin raced /\ title[x] = q.from
          BY <4>3, <3>1, <2>3, <2>7
        <5>2. Settled(q.from, Titled(q.from), directory, listed, rewritten)
          BY <1>2, <1>3, <2>4, <5>1 DEF PhaseOf, Phase
        <5>3. rewritten \/ x \in listed
          BY <5>1, <5>2, <2>6 DEF Settled, Titled
        <5>4. Titled(t)' = {x} /\ t \notin directory
          BY <4>1, <4>3, <2>8 DEF Settled
        <5> QED
          BY <4>3, <5>3, <5>4, <2>3, <2>4, <2>9 DEF Phase
      <4> QED
        BY <3>1, <4>2, <4>3, <2>4
    <3>2. ASSUME NEW l \in Stored', NEW m \in Stored', l # m, title'[l] = title'[m],
                 title'[l] \in q.titles, title'[l] \notin raced'
          PROVE  FALSE
      <4>1. PICK t : t = title'[l]
        OBVIOUS
      <4>2. l \in Titled(t)' /\ m \in Titled(t)'
        BY <3>2, <4>1 DEF Titled
      <4>3. t \in Titles \ raced
        BY <3>2, <4>1, <2>4, <2>11
      <4>4. CASE t = q.to
        <5>1. Titled(t) = {}
          BY <1>2, <1>3, <2>4, <4>3, <4>4 DEF PhaseOf, Phase
        <5> QED
          BY <5>1, <4>2, <4>4, <2>8, <3>2
      <4>5. CASE t # q.to
        <5>1. l \in Titled(t) /\ m \in Titled(t)
          BY <4>2, <4>5, <2>8
        <5> QED
          BY <5>1, <4>3, <3>2, OnlyOne
      <4> QED
        BY <4>4, <4>5
    <3> QED
      BY <3>1, <3>2, <2>9 DEF Own
  <2> QED
    BY <1>1, <2>9, <2>13, <2>14, <2>15, <2>16, <2>17, StepKeeps
<1> QED
  BY <1>4, <1>5
------------------------------------------------------------------------------
(* The list *)

(* A step that only changes the list.                                      *)
LEMMA ListKeeps ==
  ASSUME IInv, NEW r \in Requests, NEW q, NEW q2 \in RequestState, q = req[r],
         Step(r, q2) \/ Saved(r, q2), UNCHANGED <<state, title, directory, seen, raced>>,
         listed' \subseteq Created, rewritten' \in BOOLEAN, rewritten => rewritten',
         Fields(q2), q2.lessons = {}, q2.whole \subseteq Created,
         q2.titles \subseteq q.titles, q2.op \in {q.op, "none"}, q2.fills => q.fills,
         \A t \in Titles \ (q.titles \cup raced) :
           /\ rewritten' \/ (Titled(t) \subseteq listed => Titled(t) \subseteq listed')
           /\ \/ rewritten' \/ (Titled(t) \cap listed = {} => Titled(t) \cap listed' = {})
              \/ \A s \in Requests \ {r} : req[s].op # "delete",
         rewritten' \/
           /\ \A l \in listed' : l \in Stored \/ Gone(l)
           /\ \A s \in Requests \ {r} :
                req[s].fills => listed' = listed \/ listed' = {} \/ Saved(r, q2)
           /\ ListsOf(q2, Stored, listed'),
         \A t \in q2.titles \ raced : Phase(q2, t, Titled(t), directory, listed', rewritten'),
         \A t \in q.titles \ (q2.titles \cup raced) :
           Settled(t, Titled(t), directory, listed', rewritten')
  PROVE  IInv'
<1>0. /\ Stored' = Stored /\ Created' = Created /\ title' = title /\ directory' = directory
      /\ seen' = seen /\ state' = state /\ raced' = raced
      /\ \A t : Titled(t)' = Titled(t)
      /\ \A l : Gone(l)' <=> Gone(l)
  BY DEF Stored, Created, Titled, Gone
<1>1. DataTypes'
  BY <1>0, TypesData DEF DataTypes, IInv
<1>2. /\ Types' /\ Others(r, q2)
      /\ Saved(r, q2) => \A s \in Requests \ {r} : req[s].fills => req'[s].stale
  BY <1>0, <1>1, Becomes DEF IInv
<1>3. Beyond(r, q)
  BY <1>0 DEF Beyond
<1>4. Moves(q)
  BY <1>0 DEF Moves
<1>5. ListMoves(r, q, q2)
  BY <1>0, <1>2 DEF ListMoves
<1>6. Own(q, q2)
  <2>1. \A l, m \in Stored' :
          l # m /\ title'[l] = title'[m] /\ title'[l] \in q.titles => title'[l] \in raced'
    BY <1>0 DEF IInv, TitlesAreUnique
  <2> QED
    BY <2>1, <1>0 DEF Own
<1> QED
  BY <1>2, <1>3, <1>4, <1>5, <1>6, StepKeeps

LEMMA Unlists ==
  ASSUME IInv, NEW r \in Requests, Unlist(r)
  PROVE  IInv'
<1>1. PICK q : q = req[r]
  OBVIOUS
<1>2. PICK q2 : q2 = [q EXCEPT !.step = "files", !.lessons = {}]
  OBVIOUS
<1>3. /\ q.op = "delete" /\ q.step = "unlist" /\ listed' = listed \ q.lessons /\ Saved(r, q2)
      /\ UNCHANGED <<state, title, directory, seen, raced, rewritten>>
  BY <1>1, <1>2 DEF Unlist, At, history
<1>4. /\ q \in RequestState /\ Fields(q) /\ q.titles \subseteq Titles
      /\ q.lessons \cup q.whole \subseteq Created
      /\ \A t \in q.titles \ raced : PhaseOf(q, t)
      /\ \A l \in q.lessons : Holds(q, l, Stored, title, raced)
      /\ raced \subseteq Titles /\ DataTypes
  BY <1>1, InHandFacts
<1>5. /\ q2 \in RequestState /\ q2.op = "delete" /\ q2.step = "files" /\ q2.titles = q.titles
      /\ q2.files = q.files /\ q2.lessons = {} /\ q2.whole = q.whole /\ q2.fills = q.fills
      /\ q2.from = q.from /\ q2.to = q.to
  BY <1>2, <1>3, <1>4 DEF RequestState
<1>6. Fields(q2) /\ ~q2.fills /\ q.titles = {q.from}
  BY <1>3, <1>4, <1>5 DEF Fields, Lists
<1>7. listed' \subseteq Created /\ rewritten' \in BOOLEAN
  BY <1>3, <1>4 DEF DataTypes
<1>8. \A t \in Titles \ (q.titles \cup raced) :
        /\ Titled(t) \subseteq listed => Titled(t) \subseteq listed'
        /\ Titled(t) \cap listed = {} => Titled(t) \cap listed' = {}
  <2> SUFFICES ASSUME NEW t \in Titles \ (q.titles \cup raced)
               PROVE  /\ Titled(t) \subseteq listed => Titled(t) \subseteq listed'
                      /\ Titled(t) \cap listed = {} => Titled(t) \cap listed' = {}
    OBVIOUS
  <2>1. Titled(t) \cap q.lessons = {}
    BY <1>3, <1>4, <1>6 DEF Holds, Titled
  <2> QED
    BY <2>1, <1>3
<1>9. ListsOf(q2, Stored, listed')
  BY <1>5, <1>6 DEF ListsOf
<1>10. rewritten \/ \A l \in listed' : l \in Stored \/ Gone(l)
  BY <1>3 DEF IInv, ListInv
<1>11. \A t \in q2.titles \ raced : Phase(q2, t, Titled(t), directory, listed', rewritten')
  <2> SUFFICES ASSUME NEW t \in q2.titles \ raced
               PROVE  Phase(q2, t, Titled(t), directory, listed', rewritten')
    OBVIOUS
  <2>1. Titled(t) \subseteq q.lessons
    BY <1>3, <1>4, <1>5 DEF PhaseOf, Phase
  <2> QED
    BY <2>1, <1>3, <1>5 DEF Phase
<1> QED
  BY <1>1, <1>3, <1>4, <1>5, <1>6, <1>7, <1>8, <1>9, <1>10, <1>11, ListKeeps

LEMMA ListsLessons ==
  ASSUME IInv, NEW r \in Requests, ListLessons(r)
  PROVE  IInv'
<1>1. PICK q, q2 : q = req[r] /\ q2 = Listed(q)
  OBVIOUS
<1>2. /\ q.op \in {"create", "copy", "copyAll"} /\ q.step = "list"
      /\ IF q.fills /\ q.stale
         THEN Fail(r) /\ UNCHANGED listed
         ELSE /\ listed' = IF q.fills THEN q.whole ELSE listed \cup q.lessons
              /\ Saved(r, q2) /\ UNCHANGED raced
      /\ UNCHANGED <<state, title, directory, seen, rewritten>>
  BY <1>1 DEF ListLessons, At
<1>3. /\ q \in RequestState /\ Fields(q) /\ q.titles \subseteq Titles
      /\ q.lessons \cup q.whole \subseteq Created
      /\ \A t \in q.titles \ raced : PhaseOf(q, t)
      /\ \A l \in q.lessons : Holds(q, l, Stored, title, raced)
      /\ rewritten \/ ListsOf(q, Stored, listed)
      /\ raced \subseteq Titles /\ DataTypes
  BY <1>1, InHandFacts
<1>4. CASE q.fills /\ q.stale
  BY <1>2, <1>4, FailKeeps DEF data
<1>5. CASE ~(q.fills /\ q.stale)
  <2>1. /\ listed' = IF q.fills THEN q.whole ELSE listed \cup q.lessons
        /\ Saved(r, q2) /\ UNCHANGED <<state, title, directory, seen, raced, rewritten>>
    BY <1>2, <1>5
  <2>2. /\ q2 \in RequestState /\ Fields(q2)
        /\ q2.lessons = {} /\ q2.whole = {} /\ ~q2.fills
        /\ \/ q2 = NoRequest /\ q.files = {}
           \/ /\ q.files # {} /\ q.op \in {"create", "copyAll"}
              /\ q2.op = q.op /\ q2.step = "files"
              /\ q2.titles = q.titles /\ q2.files = q.files
    BY <1>1, <1>2, <1>3, ListedFields
  <2>3. q2.titles \subseteq q.titles /\ q2.op \in {q.op, "none"}
    BY <2>2, NoRequestFields
  <2>4. listed' \subseteq Created /\ rewritten' \in BOOLEAN
    BY <1>3, <2>1 DEF DataTypes
  <2>5. \A t \in q.titles \ raced :
          Titled(t) # {} /\ Titled(t) \subseteq q.lessons /\ (t \in q.files \/ t \in directory)
    BY <1>2, <1>3 DEF PhaseOf, Phase
  <2>6. rewritten \/ q.lessons \subseteq listed'
    BY <1>2, <1>3, <2>1 DEF ListsOf
  <2>7. \A t \in q2.titles \ raced : Phase(q2, t, Titled(t), directory, listed', rewritten')
    <3> SUFFICES ASSUME NEW t \in q2.titles \ raced
                 PROVE  Phase(q2, t, Titled(t), directory, listed', rewritten')
      OBVIOUS
    <3>1. /\ q2.op = q.op /\ q2.step = "files" /\ q2.files = q.files /\ t \in q.titles
          /\ q.op \in {"create", "copyAll"}
      BY <2>2, NoRequestFields
    <3>2. /\ Titled(t) # {} /\ (rewritten' \/ Titled(t) \subseteq listed')
          /\ (t \in q.files \/ t \in directory)
      BY <2>1, <2>5, <2>6, <3>1
    <3> QED
      BY <3>1, <3>2 DEF Phase
  <2>8. \A t \in q.titles \ (q2.titles \cup raced) :
          Settled(t, Titled(t), directory, listed', rewritten')
    <3> SUFFICES ASSUME NEW t \in q.titles \ (q2.titles \cup raced)
                 PROVE  Settled(t, Titled(t), directory, listed', rewritten')
      OBVIOUS
    <3>1. q.files = {}
      BY <2>2
    <3> QED
      BY <3>1, <2>1, <2>5, <2>6 DEF Settled
  <2>9. ListsOf(q2, Stored, listed')
    <3>1. q2.op # "fill"
      BY <1>2, <2>3
    <3> QED
      BY <3>1, <2>2 DEF ListsOf
  <2>10. rewritten \/ \A l \in listed' : l \in Stored \/ Gone(l)
    <3> SUFFICES ASSUME ~rewritten, NEW l \in listed'
                 PROVE  l \in Stored \/ Gone(l)
      OBVIOUS
    <3>1. CASE q.fills
      BY <1>2, <1>3, <2>1, <3>1 DEF ListsOf
    <3>2. CASE ~q.fills /\ l \in listed
      BY <3>2 DEF IInv, ListInv
    <3>3. CASE ~q.fills /\ l \in q.lessons
      <4>1. title[l] \in raced \/ l \in Stored
        BY <1>2, <1>3, <3>3 DEF Holds, Lists
      <4>2. l \in Stored \/ state[l] = "deleted"
        BY <1>3, <3>3 DEF DataTypes, Created, Stored
      <4> QED
        BY <4>1, <4>2 DEF Gone
    <3> QED
      BY <3>1, <3>2, <3>3, <2>1
  <2>11. ASSUME NEW t \in Titles \ (q.titles \cup raced)
         PROVE  /\ rewritten \/ (Titled(t) \subseteq listed => Titled(t) \subseteq listed')
                /\ \/ rewritten
                   \/ (Titled(t) \cap listed = {} => Titled(t) \cap listed' = {})
                   \/ \A s \in Requests \ {r} : req[s].op # "delete"
    <3>1. CASE rewritten
      BY <3>1
    <3>2. CASE ~rewritten /\ q.fills
      <4>1. listed = {}
        BY <1>3, <1>5, <3>2 DEF ListsOf
      <4>2. \A s \in Requests \ {r} : req[s].op # "delete"
        BY <1>1, <3>2 DEF IInv, ListInv, Undoes, Rewrites
      <4> QED
        BY <4>1, <4>2
    <3>3. CASE ~q.fills
      <4>1. Titled(t) \cap q.lessons = {}
        BY <1>2, <1>3, <2>11 DEF Holds, Lists, Titled
      <4> QED
        BY <4>1, <3>3, <2>1
    <3> QED
      BY <3>1, <3>2, <3>3
  <2> QED
    BY <1>1, <1>3, <2>1, <2>2, <2>3, <2>4, <2>7, <2>8, <2>9, <2>10, <2>11, ListKeeps
<1> QED
  BY <1>4, <1>5

LEMMA SetsOrder ==
  ASSUME IInv, NEW r \in Requests, SetOrder(r)
  PROVE  IInv'
<1>1. PICK q, q2 : q = req[r] /\ q2 = NoRequest
  OBVIOUS
<1>2. /\ q.op = "order"
      /\ \/ /\ listed' = q.whole /\ rewritten' = (rewritten \/ q.whole # listed)
            /\ Saved(r, q2)
         \/ Step(r, q2) /\ UNCHANGED <<listed, rewritten>>
      /\ UNCHANGED <<state, title, directory, seen, raced>>
  BY <1>1 DEF SetOrder, At, End
<1>3. /\ q \in RequestState /\ Fields(q) /\ q.lessons \cup q.whole \subseteq Created
      /\ raced \subseteq Titles /\ DataTypes
  BY <1>1, InHandFacts
<1>4. /\ q2 \in RequestState /\ Fields(q2) /\ q2.op = "none" /\ q2.titles = {}
      /\ q2.lessons = {} /\ q2.whole = {} /\ ~q2.fills
  BY <1>1, NoRequestFields
<1>5. q.titles = {}
  BY <1>2, <1>3 DEF Fields
<1>6. /\ listed' \subseteq Created /\ rewritten' \in BOOLEAN
      /\ (rewritten => rewritten') /\ (rewritten' \/ listed' = listed)
      /\ Step(r, q2) \/ Saved(r, q2)
  BY <1>2, <1>3 DEF DataTypes
<1>7. ListsOf(q2, Stored, listed')
  BY <1>4 DEF ListsOf
<1>8. rewritten' \/ \A l \in listed' : l \in Stored \/ Gone(l)
  <2>1. rewritten \/ \A l \in listed : l \in Stored \/ Gone(l)
    BY DEF IInv, ListInv
  <2> QED
    BY <2>1, <1>6
<1> QED
  BY <1>1, <1>2, <1>4, <1>5, <1>6, <1>7, <1>8, ListKeeps

LEMMA FillsList ==
  ASSUME IInv, NEW r \in Requests, FillList(r)
  PROVE  IInv'
<1>1. PICK q, q2 : q = req[r] /\ q2 = NoRequest
  OBVIOUS
<1>2. /\ q.op = "fill" /\ q.step = "list" /\ listed' = q.whole /\ Step(r, q2)
      /\ UNCHANGED <<state, title, directory, seen, raced, rewritten>>
  BY <1>1 DEF FillList, At, End, history
<1>3. /\ q \in RequestState /\ Fields(q) /\ q.lessons \cup q.whole \subseteq Created
      /\ rewritten \/ ListsOf(q, Stored, listed)
      /\ raced \subseteq Titles /\ DataTypes
  BY <1>1, InHandFacts
<1>4. /\ q2 \in RequestState /\ Fields(q2) /\ q2.op = "none" /\ q2.titles = {}
      /\ q2.lessons = {} /\ q2.whole = {} /\ ~q2.fills
  BY <1>1, NoRequestFields
<1>5. q.titles = {} /\ listed' \subseteq Created /\ rewritten' \in BOOLEAN
  BY <1>2, <1>3 DEF Fields, DataTypes
<1>6. ListsOf(q2, Stored, listed')
  BY <1>4 DEF ListsOf
<1>7. rewritten \/ listed' = Stored
  BY <1>2, <1>3 DEF ListsOf
<1>8. rewritten \/ \A s \in Requests \ {r} : req[s].op # "delete" /\ ~req[s].fills
  <2> SUFFICES ASSUME ~rewritten, NEW s \in Requests \ {r}
               PROVE  req[s].op # "delete" /\ ~req[s].fills
    OBVIOUS
  <2>1. ~Undoes(q, req[s])
    BY <1>1 DEF IInv, ListInv
  <2>2. Fields(req[s])
    BY InHandFacts
  <2> QED
    BY <2>1, <2>2, <1>2 DEF Undoes, Rewrites, Fields
<1>9. \A t : Titled(t) \subseteq Stored
  BY DEF Titled
<1> QED
  BY <1>1, <1>2, <1>4, <1>5, <1>6, <1>7, <1>8, <1>9, ListKeeps
------------------------------------------------------------------------------
THEOREM Initially == Init => IInv
<1> SUFFICES ASSUME Init
             PROVE  IInv
  OBVIOUS
<1>1. /\ state = [l \in Lessons |-> "new"] /\ title = [l \in Lessons |-> "none"]
      /\ listed = {} /\ directory = {} /\ seen = {} /\ raced = {} /\ rewritten = FALSE
      /\ req = [r \in Requests |-> NoRequest]
  BY DEF Init
<1>2. \A r \in Requests : req[r] = NoRequest
  BY <1>1
<1>3. Stored = {} /\ \A t : Titled(t) = {}
  BY <1>1 DEF Stored, Titled
<1>4. Types
  BY <1>1, <1>2, NoRequestFields DEF Types, TypeOK
<1>5. Apart /\ Phases /\ FreeSettled /\ Held /\ TitlesAreUnique
  BY <1>1, <1>2, <1>3, NoRequestFields
  DEF Apart, Phases, FreeSettled, SettledNow, Settled, Held, TitlesAreUnique
<1>6. ListInv
  BY <1>1, <1>2, NoRequestFields DEF ListInv, Undoes, Rewrites, ListsOf
<1> QED
  BY <1>4, <1>5, <1>6 DEF IInv

THEOREM Inductive == IInv /\ [Next]_vars => IInv'
<1> SUFFICES ASSUME IInv, [Next]_vars
             PROVE  IInv'
  OBVIOUS
<1>1. CASE UNCHANGED vars
  <2>1. /\ UNCHANGED <<state, title, listed, directory, seen, req, raced, rewritten>>
        /\ \A l : Gone(l)' <=> Gone(l)
        /\ \A t : Titled(t)' = Titled(t)
        /\ Stored' = Stored /\ Created' = Created
    BY <1>1 DEF vars, data, history, Gone, Titled, Stored, Created
  <2>2. Types'
    BY <2>1, TypesData DEF IInv, DataTypes
  <2>3. Apart' /\ Held' /\ TitlesAreUnique'
    BY <2>1 DEF IInv, Apart, Held, TitlesAreUnique
  <2>4. Phases' /\ FreeSettled' /\ ListInv'
    BY <2>1 DEF IInv, Phases, PhaseOf, FreeSettled, SettledNow, InHand, Busy, ListInv
  <2> QED
    BY <2>2, <2>3, <2>4 DEF IInv
<1>2. CASE \E r \in Requests, t \in Titles :
             FindForCreate(r, t) \/ FindForCopy(r, t) \/ FindForDelete(r, t) \/ PlaceFiles(r, t)
  BY <1>2, StartCreate, StartCopy, StartDelete, PlacesFiles
<1>3. CASE \E r \in Requests, t, new \in Titles : FindForUpdate(r, t, new)
  BY <1>3, StartUpdate
<1>4. CASE \E r \in Requests, T \in SUBSET Titles \ {{}} : FindForCopyAll(r, T)
  BY <1>4, StartCopyAll
<1>5. ASSUME NEW r \in Requests,
             \/ LookupForCreate(r) \/ StoreLesson(r)
             \/ Collect(r) \/ ListLessons(r)
             \/ CopyFiles(r) \/ StoreCopy(r) \/ InsertLessons(r)
             \/ Unlist(r) \/ RemoveFiles(r) \/ DropLesson(r)
             \/ CheckTitle(r) \/ LookupForUpdate(r) \/ SaveTitle(r) \/ MoveFiles(r)
             \/ FindForOrder(r) \/ CollectForOrder(r) \/ SetOrder(r)
             \/ FindForFill(r) \/ CollectForFill(r) \/ FillList(r)
             \/ FindForAnnouncement(r) \/ SaveAnnouncement(r)
             \/ RequestFails(r)
      PROVE  IInv'
  BY <1>5, LookupCreate, StoresLesson, Collects, ListsLessons, CopiesFiles, StoresCopy,
     InsertsLessons, Unlists, RemovesFiles, DropsLesson, ChecksTitle, LookupUpdate, SavesTitle,
     MovesFiles, StartOrder, CollectsForOrder, SetsOrder, StartFill, CollectsForFill, FillsList,
     StartAnnouncement, SavesAnnouncement, Fails
<1>6. CASE Load
  BY <1>6, Loads
<1> QED
  BY <1>1, <1>2, <1>3, <1>4, <1>5, <1>6 DEF Next

THEOREM Correct == Spec => []IInv
BY Initially, Inductive, PTL DEF Spec

(* No lesson is lost from the list: one that is stored is listed.          *)
THEOREM StoredCorrect == Spec => []StoredAreListed
<1>1. IInv => StoredAreListed
  <2> SUFFICES ASSUME IInv, NEW l \in Stored, ~Excused(l)
               PROVE  l \in listed
    BY DEF StoredAreListed
  <2>1. l \in Lessons /\ title[l] \in Titles
    BY NoneIsNoTitle DEF IInv, Types, TypeOK, Stored
  <2>2. PICK t : t = title[l]
    OBVIOUS
  <2>3. SettledNow(t) /\ ~rewritten
    BY <2>1, <2>2 DEF IInv, FreeSettled, Excused
  <2> QED
    BY <2>2, <2>3 DEF SettledNow, Settled, Titled
<1> QED
  BY <1>1, Correct, PTL

(* What the list names is there.                                           *)
THEOREM ListedCorrect == Spec => []ListedAreStored
<1>1. IInv => ListedAreStored
  BY DEF IInv, ListInv, ListedAreStored, Excused, Gone
<1> QED
  BY <1>1, Correct, PTL

(* Titles stay unique, unless two requests race or a lesson is copied to   *)
(* a title that is taken.                                                  *)
THEOREM TitlesCorrect == Spec => []TitlesAreUnique
<1>1. IInv => TitlesAreUnique
  BY DEF IInv
<1> QED
  BY <1>1, Correct, PTL

(* Lessons and directories match.                                          *)
THEOREM FilesCorrect == Spec => []FilesMatchLessons
<1>1. IInv => FilesMatchLessons
  <2> SUFFICES ASSUME IInv
               PROVE  FilesMatchLessons
    OBVIOUS
  <2>1. \A t \in Titles \ raced : InHand(t) \/ SettledNow(t)
    BY DEF IInv, FreeSettled
  <2>2. \A l \in Stored : title[l] \in Titles
    BY NoneIsNoTitle DEF IInv, Types, TypeOK, Stored
  <2>3. directory \subseteq Titles
    BY DEF IInv, Types, TypeOK
  <2>4. \A l \in Stored : title[l] \in raced \/ InHand(title[l]) \/ title[l] \in directory
    <3> SUFFICES ASSUME NEW l \in Stored, title[l] \notin raced, ~InHand(title[l])
                 PROVE  title[l] \in directory
      OBVIOUS
    <3>1. PICK t : t = title[l]
      OBVIOUS
    <3>2. SettledNow(t) /\ l \in Titled(t)
      BY <2>1, <2>2, <3>1 DEF Titled
    <3> QED
      BY <3>1, <3>2 DEF SettledNow, Settled
  <2>5. \A t \in directory : t \in raced \/ InHand(t) \/ Titled(t) # {}
    BY <2>1, <2>3 DEF SettledNow, Settled
  <2> QED
    BY <2>4, <2>5 DEF FilesMatchLessons
<1> QED
  BY <1>1, Correct, PTL
==============================================================================
