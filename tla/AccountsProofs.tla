---------------------------- MODULE AccountsProofs ----------------------------
(***************************************************************************)
(* Proofs about Accounts, for any sets of addresses and secrets and any    *)
(* number of requests at once.                                             *)
(***************************************************************************)
EXTENDS Accounts, FiniteSetTheorems, TLAPS

(* Every field of a request is there.                                      *)
RequestShape ==
  \A r \in Requests :
    LET q == req[r] IN
    q = [op |-> q.op, email |-> q.email, step |-> q.step, writes |-> q.writes,
         secret |-> q.secret, exists |-> q.exists]

(* Fields of two-factor authentication are written by a request that       *)
(* decides it, and an address is no longer verified only if an             *)
(* administrator says so.                                                  *)
WritesItsMatters(q) ==
  /\ {"twoFactorAuth", "twoFactorAuthSecret"} \cap DOMAIN q.writes # {} =>
       "twoFactor" \in Decides(q)
  /\ "verifiedEmail" \in DOMAIN q.writes =>
       \/ q.writes["verifiedEmail"] = TRUE
       \/ q.op = "admin" /\ "completion" \in Decides(q)

(* What a request has read of a document still stands when it saves it.    *)
StillStands(q) ==
  LET u == q.email
      saved == Written(user[u], q.writes)
  IN /\ u \notin entangled["twoFactor"] =>
          /\ q.op = "enable" => /\ saved.twoFactorAuth = TRUE
                                /\ q.secret # None /\ saved.twoFactorAuthSecret = q.secret
          /\ q.op = "disable" => saved.twoFactorAuth = FALSE
          /\ q.op = "qrcode" => saved.twoFactorAuth = FALSE /\ tokenOf[u] = None
     /\ u \notin entangled["completion"] =>
          /\ q.op = "complete" => /\ done[u] = 0
                                  /\ "verifiedEmail" \in DOMAIN q.writes
                                  /\ q.writes["verifiedEmail"] = TRUE

(* A request that saves a document does so of an account there is.         *)
LiveRequests ==
  \A r \in Requests :
    req[r].exists => /\ req[r].email \in accounts
                     /\ req[r].op \notin {None, "register"}
                     /\ WritesItsMatters(req[r])
                     /\ StillStands(req[r])

(* Of the requests about an account that is not entangled in a matter, at  *)
(* most one decides the matter, and it is not an administrator's.          *)
OneDecides ==
  \A m \in Matters : \A r \in Requests :
    req[r].exists /\ m \in Decides(req[r]) /\ req[r].email \notin entangled[m] =>
      /\ req[r].op # "admin"
      /\ \A s \in Requests : s # r /\ req[s].exists /\ req[s].email = req[r].email =>
           m \notin Decides(req[s])

(* A registration that will make an administrator is alone as long as no   *)
(* two have overlapped, and nobody has an account.                         *)
FirstIsAlone ==
  \A r \in Requests :
    req[r].op = "register" =>
      /\ req[r].email \in Users
      /\ DOMAIN req[r].writes = {"administrator", "verifiedEmail"}
      /\ ~crowded /\ req[r].writes["administrator"] =>
           accounts = {} /\ \A s \in Requests : req[s].op = "register" => s = r

(* Nothing is remembered of an account there is not.                       *)
NothingOfNobody ==
  \A u \in Users \ accounts :
    tokenOf[u] = None /\ done[u] = 0 /\ \A m \in Matters : u \notin entangled[m]

FirstsInv == crowded \/ \A u, v \in firsts : u = v

DoneInv ==
  \A u \in accounts \ entangled["completion"] :
    done[u] = 0 \/ (done[u] = 1 /\ user[u].verifiedEmail = TRUE)

AccountsInv ==
  /\ TypeOK
  /\ RequestShape
  /\ LiveRequests
  /\ OneDecides
  /\ FirstIsAlone
  /\ NothingOfNobody
  /\ FirstsInv
  /\ EnabledSecretIsConfirmed
  /\ DoneInv

USE AccountsAssumption
------------------------------------------------------------------------------
(* Operators *)

LEMMA EndFacts ==
  ASSUME AccountsInv, NEW r \in Requests, End(r)
  PROVE  /\ DOMAIN req' = Requests
         /\ req'[r] = NoRequest
         /\ \A s \in Requests : s # r => req'[s] = req[s]
         /\ NoRequest.exists = FALSE /\ NoRequest.op = None /\ IsRequest(NoRequest)
         /\ NoRequest = [op |-> NoRequest.op, email |-> NoRequest.email, step |-> NoRequest.step,
                         writes |-> NoRequest.writes, secret |-> NoRequest.secret,
                         exists |-> NoRequest.exists]
<1>1. DOMAIN NoRequest.writes = {}
  BY DEF NoRequest
<1>2. IsRequest(NoRequest)
  BY <1>1 DEF NoRequest, IsRequest, None
<1>3. QED
  BY <1>2 DEF End, NoRequest, AccountsInv, TypeOK

LEMMA StartFacts ==
  ASSUME AccountsInv, NEW r \in Requests, NEW q, Start(r, q), q.email \in Users
  PROVE  LET u == q.email IN
         /\ DOMAIN req' = Requests /\ req'[r] = q /\ ~Busy(r)
         /\ \A s \in Requests : s # r => req'[s] = req[s]
         /\ entangled' \in [Matters -> SUBSET Users]
         /\ \A m \in Matters : entangled[m] \subseteq entangled'[m]
         /\ \A m \in Matters : entangled'[m] \subseteq entangled[m] \cup {u}
         /\ \A m \in Matters : m \notin Decides(q) => entangled'[m] = entangled[m]
         /\ \A m \in Decides(q) \cap Matters :
              /\ q.op = "admin" => u \in entangled'[m]
              /\ \A s \in Requests : req[s].email = u /\ m \in Decides(req[s]) => u \in entangled'[m]
         /\ tokenOf' \in [Users -> Secrets \cup {None}]
         /\ done' \in [Users -> 0 .. 2]
         /\ \A v \in Users : \/ tokenOf'[v] = tokenOf[v]
                             \/ v \in entangled'["twoFactor"] /\ tokenOf'[v] = None
         /\ \A v \in Users : \/ done'[v] = done[v]
                             \/ v \in entangled'["completion"] /\ done'[v] = 0
         /\ Decides(q) = {} => tokenOf' = tokenOf /\ done' = done
<1>. DEFINE u == q.email
            decided == IF q.op = "admin" THEN Decides(q)
                       ELSE Decides(q) \cap UNION {Decides(req[s]) : s \in {s \in Requests : req[s].email = u}}
<1>1. /\ req' = [req EXCEPT ![r] = q] /\ ~Busy(r)
      /\ entangled' = [m \in Matters |-> entangled[m] \cup (IF m \in decided THEN {u} ELSE {})]
      /\ tokenOf' = IF "twoFactor" \in decided THEN [tokenOf EXCEPT ![u] = None] ELSE tokenOf
      /\ done' = IF "completion" \in decided THEN [done EXCEPT ![u] = 0] ELSE done
  BY DEF Start
<1>2. /\ decided \subseteq Decides(q)
      /\ q.op = "admin" => decided = Decides(q)
      /\ \A m \in Decides(q) : \A s \in Requests :
           req[s].email = u /\ m \in Decides(req[s]) => m \in decided
  OBVIOUS
<1> HIDE DEF decided
<1>3. /\ DOMAIN req = Requests /\ entangled \in [Matters -> SUBSET Users]
      /\ tokenOf \in [Users -> Secrets \cup {None}] /\ done \in [Users -> 0 .. 2]
  BY DEF AccountsInv, TypeOK
<1>4. "twoFactor" \in Matters /\ "completion" \in Matters
  BY DEF Matters
<1>5. DOMAIN req' = Requests /\ req'[r] = q /\ \A s \in Requests : s # r => req'[s] = req[s]
  BY <1>1, <1>3
<1>6. /\ entangled' \in [Matters -> SUBSET Users]
      /\ \A m \in Matters : entangled'[m] = entangled[m] \cup (IF m \in decided THEN {u} ELSE {})
  BY <1>1, <1>3
<1>7. /\ tokenOf' \in [Users -> Secrets \cup {None}]
      /\ \A v \in Users : \/ tokenOf'[v] = tokenOf[v]
                          \/ v \in entangled'["twoFactor"] /\ tokenOf'[v] = None
  BY <1>1, <1>3, <1>4, <1>6
<1>8. /\ done' \in [Users -> 0 .. 2]
      /\ \A v \in Users : \/ done'[v] = done[v]
                          \/ v \in entangled'["completion"] /\ done'[v] = 0
  BY <1>1, <1>3, <1>4, <1>6
<1>9. Decides(q) = {} => tokenOf' = tokenOf /\ done' = done
  BY <1>1, <1>2
<1>10. QED
  BY <1>1, <1>2, <1>5, <1>6, <1>7, <1>8, <1>9

(* What a request writes is what it has changed.                           *)
LEMMA ChangedFacts ==
  ASSUME NEW d \in UserState, NEW new \in UserState
  PROVE  /\ DOMAIN Changed(d, new) \subseteq DOMAIN NewUser
         /\ \A f \in DOMAIN Changed(d, new) :
              /\ Changed(d, new)[f] = new[f]
              /\ Changed(d, new)[f] \in (IF f = "twoFactorAuthSecret" THEN Secrets \cup {None}
                                         ELSE BOOLEAN)
         /\ \A f \in DOMAIN NewUser : f \in DOMAIN Changed(d, new) <=> new[f] # d[f]
         /\ Written(d, Changed(d, new)) = new
<1>1. DOMAIN d = DOMAIN NewUser /\ DOMAIN new = DOMAIN NewUser
  BY DEF UserState, NewUser
<1>2. /\ DOMAIN Changed(d, new) = {g \in DOMAIN NewUser : new[g] # d[g]}
      /\ \A f \in DOMAIN Changed(d, new) : Changed(d, new)[f] = new[f]
  BY <1>1 DEF Changed
<1>3. \A f \in DOMAIN NewUser : new[f] \in (IF f = "twoFactorAuthSecret" THEN Secrets \cup {None}
                                            ELSE BOOLEAN)
  BY DEF UserState, NewUser
<1>4. Written(d, Changed(d, new)) = new
  <2>1. Written(d, Changed(d, new)) = [f \in DOMAIN new |-> new[f]]
    BY <1>1, <1>2 DEF Written
  <2>2. new = [f \in DOMAIN new |-> new[f]]
    BY DEF UserState
  <2>3. QED
    BY <2>1, <2>2
<1>5. QED
  BY <1>2, <1>3, <1>4

(* A document stays one, and keeps the fields that are not written.        *)
LEMMA WrittenFacts ==
  ASSUME NEW d \in UserState, NEW q, IsRequest(q)
  PROVE  /\ Written(d, q.writes) \in UserState
         /\ \A f \in DOMAIN NewUser :
              Written(d, q.writes)[f] = IF f \in DOMAIN q.writes THEN q.writes[f] ELSE d[f]
<1>. DEFINE e == Written(d, q.writes)
<1>1. DOMAIN d = DOMAIN NewUser
      /\ \A f \in DOMAIN NewUser : d[f] \in (IF f = "twoFactorAuthSecret" THEN Secrets \cup {None}
                                             ELSE BOOLEAN)
  BY DEF UserState, NewUser
<1>2. e = [f \in DOMAIN NewUser |-> IF f \in DOMAIN q.writes THEN q.writes[f] ELSE d[f]]
  BY <1>1 DEF Written
<1>3. \A f \in DOMAIN NewUser : e[f] \in (IF f = "twoFactorAuthSecret" THEN Secrets \cup {None}
                                          ELSE BOOLEAN)
  BY <1>1, <1>2 DEF IsRequest
<1>4. DOMAIN NewUser = {"administrator", "verifiedEmail", "twoFactorAuth", "twoFactorAuthSecret"}
  BY DEF NewUser
<1> HIDE DEF e
<1>5. e \in UserState
  <2>1. e = [administrator |-> e["administrator"], verifiedEmail |-> e["verifiedEmail"],
             twoFactorAuth |-> e["twoFactorAuth"], twoFactorAuthSecret |-> e["twoFactorAuthSecret"]]
    BY <1>2, <1>4
  <2>2. /\ e["administrator"] \in BOOLEAN /\ e["verifiedEmail"] \in BOOLEAN
        /\ e["twoFactorAuth"] \in BOOLEAN /\ e["twoFactorAuthSecret"] \in Secrets \cup {None}
    BY <1>3, <1>4
  <2>3. QED
    BY <2>1, <2>2 DEF UserState
<1>6. QED
  BY <1>2, <1>5 DEF e
------------------------------------------------------------------------------
(* A request begins *)

(* Nobody else is disturbed, unless the account becomes entangled.         *)
LEMMA StartDisturbsNone ==
  ASSUME AccountsInv, NEW r \in Requests, NEW q, Start(r, q), q.email \in Users, UNCHANGED data
  PROVE  /\ \A s \in Requests : s # r /\ req[s].exists => StillStands(req[s])'
         /\ EnabledSecretIsConfirmed' /\ DoneInv'
<1>1. "twoFactor" \in Matters /\ "completion" \in Matters
  BY DEF Matters
<1>2. user' = user /\ accounts' = accounts /\ accounts \subseteq Users
  BY DEF data, AccountsInv, TypeOK
<1>3. \A v \in Users : /\ v \notin entangled'["twoFactor"] =>
                            v \notin entangled["twoFactor"] /\ tokenOf'[v] = tokenOf[v]
                       /\ v \notin entangled'["completion"] =>
                            v \notin entangled["completion"] /\ done'[v] = done[v]
  BY <1>1, StartFacts
<1>4. ASSUME NEW s \in Requests, s # r, req[s].exists
      PROVE  StillStands(req[s])'
  <2>1. req'[s] = req[s] /\ req[s].email \in Users /\ StillStands(req[s])
    BY <1>2, <1>4, StartFacts DEF AccountsInv, LiveRequests
  <2>2. QED
    BY <1>2, <1>3, <2>1 DEF StillStands, Written
<1>5. EnabledSecretIsConfirmed' /\ DoneInv'
  BY <1>2, <1>3 DEF AccountsInv, EnabledSecretIsConfirmed, DoneInv
<1>6. QED
  BY <1>4, <1>5

LEMMA BeginKeeps ==
  ASSUME AccountsInv, NEW r \in Requests, NEW u \in Users, NEW op \in Ops \ {"register"},
         NEW new \in UserState, Begin(r, op, u, new),
         WritesItsMatters(req'[r]), StillStands(req[r])'
  PROVE  AccountsInv'
<1>. DEFINE q == [op |-> op, email |-> u, step |-> "save", writes |-> Changed(user[u], new),
                  secret |-> IF op = "enable" THEN user[u].twoFactorAuthSecret ELSE None,
                  exists |-> TRUE]
<1>1. /\ u \in accounts /\ Start(r, q) /\ UNCHANGED <<accounts, user, firsts, crowded>>
      /\ UNCHANGED data
  BY DEF Begin, data
<1>2. user[u] \in UserState
  BY DEF AccountsInv, TypeOK
<1>3. IsRequest(q)
  <2>1. user[u].twoFactorAuthSecret \in Secrets \cup {None}
    BY <1>2 DEF UserState
  <2>2. QED
    BY <1>2, <2>1, ChangedFacts DEF IsRequest
<1>4. q.email = u /\ q.op = op /\ q.exists = TRUE
      /\ q = [op |-> q.op, email |-> q.email, step |-> q.step, writes |-> q.writes,
              secret |-> q.secret, exists |-> q.exists]
  OBVIOUS
<1> HIDE DEF q
<1>5. /\ DOMAIN req' = Requests /\ req'[r] = q
      /\ \A s \in Requests : s # r => req'[s] = req[s]
      /\ entangled' \in [Matters -> SUBSET Users]
      /\ \A m \in Matters : entangled[m] \subseteq entangled'[m]
      /\ \A m \in Matters : entangled'[m] \subseteq entangled[m] \cup {u}
      /\ \A m \in Decides(q) \cap Matters :
           /\ op = "admin" => u \in entangled'[m]
           /\ \A s \in Requests : req[s].email = u /\ m \in Decides(req[s]) => u \in entangled'[m]
      /\ tokenOf' \in [Users -> Secrets \cup {None}]
      /\ done' \in [Users -> 0 .. 2]
      /\ \A v \in Users : v \in accounts \/ (tokenOf'[v] = tokenOf[v] /\ done'[v] = done[v])
  <2>1. /\ DOMAIN req' = Requests /\ req'[r] = q
        /\ \A s \in Requests : s # r => req'[s] = req[s]
        /\ entangled' \in [Matters -> SUBSET Users]
        /\ \A m \in Matters : entangled[m] \subseteq entangled'[m]
        /\ \A m \in Matters : entangled'[m] \subseteq entangled[m] \cup {u}
        /\ \A m \in Decides(q) \cap Matters :
             /\ op = "admin" => u \in entangled'[m]
             /\ \A s \in Requests : req[s].email = u /\ m \in Decides(req[s]) => u \in entangled'[m]
        /\ tokenOf' \in [Users -> Secrets \cup {None}]
        /\ done' \in [Users -> 0 .. 2]
    BY <1>1, <1>4, StartFacts
  <2>2. \A v \in Users \ {u} : tokenOf'[v] = tokenOf[v] /\ done'[v] = done[v]
    BY <1>1, <1>4 DEF Start, AccountsInv, TypeOK
  <2>3. QED
    BY <1>1, <2>1, <2>2
<1>6. TypeOK'
  BY <1>1, <1>3, <1>5 DEF AccountsInv, TypeOK
<1>7. RequestShape'
  BY <1>4, <1>5 DEF AccountsInv, RequestShape
<1>8. LiveRequests'
  <2>1. \A s \in Requests : s # r /\ req[s].exists => StillStands(req[s])'
    BY <1>1, <1>4, StartDisturbsNone
  <2>2. ASSUME NEW s \in Requests, req'[s].exists
        PROVE  /\ req'[s].email \in accounts /\ req'[s].op \notin {None, "register"}
               /\ WritesItsMatters(req'[s]) /\ StillStands(req[s])'
    <3>1. CASE s = r
      BY <1>1, <1>4, <1>5, <3>1 DEF Ops, None
    <3>2. CASE s # r
      BY <1>5, <2>1, <2>2, <3>2 DEF AccountsInv, LiveRequests
    <3>3. QED
      BY <3>1, <3>2
  <2>3. QED
    BY <1>1, <2>2 DEF LiveRequests
<1>9. OneDecides'
  <2>1. SUFFICES ASSUME NEW m \in Matters, NEW s \in Requests, req'[s].exists,
                        m \in Decides(req'[s]), req'[s].email \notin entangled'[m]
                 PROVE  /\ req'[s].op # "admin"
                        /\ \A t \in Requests : t # s /\ req'[t].exists /\ req'[t].email = req'[s].email =>
                             m \notin Decides(req'[t])
    BY DEF OneDecides
  <2>2. CASE s = r
    BY <1>4, <1>5, <2>1, <2>2
  <2>3. CASE s # r
    BY <1>4, <1>5, <2>1, <2>3 DEF AccountsInv, OneDecides
  <2>4. QED
    BY <2>2, <2>3
<1>10. FirstIsAlone'
  <2>1. op # "register"
    OBVIOUS
  <2>2. QED
    BY <1>1, <1>4, <1>5, <2>1 DEF AccountsInv, FirstIsAlone
<1>11. NothingOfNobody' /\ FirstsInv'
  BY <1>1, <1>5 DEF AccountsInv, NothingOfNobody, FirstsInv
<1>12. EnabledSecretIsConfirmed' /\ DoneInv'
  BY <1>1, <1>4, StartDisturbsNone
<1>13. QED
  BY <1>6, <1>7, <1>8, <1>9, <1>10, <1>11, <1>12 DEF AccountsInv

(* The request that begins, and what is remembered of its account.         *)
LEMMA BeginFacts ==
  ASSUME AccountsInv, NEW r \in Requests, NEW u \in Users, NEW op \in Ops \ {"register"},
         NEW new \in UserState, Begin(r, op, u, new)
  PROVE  /\ u \in accounts /\ UNCHANGED <<accounts, user>> /\ user[u] \in UserState
         /\ req'[r].op = op /\ req'[r].email = u /\ req'[r].writes = Changed(user[u], new)
         /\ op = "enable" => req'[r].secret = user[u].twoFactorAuthSecret
         /\ u \notin entangled'["twoFactor"] => /\ u \notin entangled["twoFactor"]
                                                /\ tokenOf'[u] = tokenOf[u]
         /\ u \notin entangled'["completion"] => /\ u \notin entangled["completion"]
                                                 /\ done'[u] = done[u]
<1>. DEFINE q == [op |-> op, email |-> u, step |-> "save", writes |-> Changed(user[u], new),
                  secret |-> IF op = "enable" THEN user[u].twoFactorAuthSecret ELSE None,
                  exists |-> TRUE]
<1>1. u \in accounts /\ Start(r, q) /\ UNCHANGED <<accounts, user>> /\ q.email = u
  BY DEF Begin, data
<1> HIDE DEF q
<1>2. "twoFactor" \in Matters /\ "completion" \in Matters
  BY DEF Matters
<1>3. /\ req'[r] = q
      /\ \A m \in Matters : entangled[m] \subseteq entangled'[m]
      /\ \/ tokenOf'[u] = tokenOf[u]
         \/ u \in entangled'["twoFactor"]
      /\ \/ done'[u] = done[u]
         \/ u \in entangled'["completion"]
  BY <1>1, StartFacts
<1>4. /\ q.op = op /\ q.email = u /\ q.writes = Changed(user[u], new)
      /\ op = "enable" => q.secret = user[u].twoFactorAuthSecret
  BY DEF q
<1>5. user[u] \in UserState
  BY DEF AccountsInv, TypeOK
<1>6. QED
  BY <1>1, <1>2, <1>3, <1>4, <1>5

(* A request that decides nothing writes no field of a matter, except that *)
(* an address becomes verified.                                            *)
LEMMA BeginOtherKeeps ==
  ASSUME AccountsInv, NEW r \in Requests, NEW u \in Users,
         BeginConfirm(r, u) \/ BeginReset(r, u) \/ BeginProfile(r, u)
  PROVE  AccountsInv'
<1>1. user[u] \in UserState
  BY DEF AccountsInv, TypeOK
<1>2. PICK op \in {"confirm", "reset", "profile"} : \E new \in UserState :
        /\ Begin(r, op, u, new)
        /\ new = [user[u] EXCEPT !.verifiedEmail = TRUE] \/ new = user[u]
  BY <1>1 DEF BeginConfirm, BeginReset, BeginProfile, UserState
<1>3. PICK new \in UserState :
        /\ Begin(r, op, u, new)
        /\ new = [user[u] EXCEPT !.verifiedEmail = TRUE] \/ new = user[u]
  BY <1>2
<1>4. op \in Ops \ {"register"}
  BY DEF Ops
<1>5. req'[r].op = op /\ req'[r].writes = Changed(user[u], new)
  BY <1>3, <1>4, BeginFacts
<1>6. WritesItsMatters(req'[r])
  <2>1. /\ new["twoFactorAuth"] = user[u]["twoFactorAuth"]
        /\ new["twoFactorAuthSecret"] = user[u]["twoFactorAuthSecret"]
        /\ new["verifiedEmail"] = TRUE \/ new["verifiedEmail"] = user[u]["verifiedEmail"]
    BY <1>1, <1>3 DEF UserState
  <2>2. /\ "twoFactorAuth" \in DOMAIN NewUser /\ "twoFactorAuthSecret" \in DOMAIN NewUser
        /\ "verifiedEmail" \in DOMAIN NewUser
    BY DEF NewUser
  <2>3. QED
    BY <1>1, <1>5, <2>1, <2>2, ChangedFacts DEF WritesItsMatters
<1>7. StillStands(req[r])'
  BY <1>5 DEF StillStands
<1>8. QED
  BY <1>3, <1>4, <1>6, <1>7, BeginKeeps

LEMMA BeginCompleteKeeps ==
  ASSUME AccountsInv, NEW r \in Requests, NEW u \in Users, BeginComplete(r, u)
  PROVE  AccountsInv'
<1>. DEFINE new == [user[u] EXCEPT !.verifiedEmail = TRUE]
<1>1. user[u] \in UserState /\ new \in UserState /\ Begin(r, "complete", u, new)
      /\ user[u]["verifiedEmail"] = FALSE
  BY DEF BeginComplete, AccountsInv, TypeOK, UserState
<1>2. /\ new["twoFactorAuth"] = user[u]["twoFactorAuth"]
      /\ new["twoFactorAuthSecret"] = user[u]["twoFactorAuthSecret"]
      /\ new["verifiedEmail"] = TRUE
  BY <1>1 DEF UserState
<1> HIDE DEF new
<1>3. "complete" \in Ops \ {"register"}
  BY DEF Ops
<1>4. /\ u \in accounts /\ req'[r].op = "complete" /\ req'[r].writes = Changed(user[u], new)
      /\ req'[r].email = u
      /\ u \notin entangled'["completion"] => u \notin entangled["completion"] /\ done'[u] = done[u]
  BY <1>1, <1>3, BeginFacts
<1>5. /\ "twoFactorAuth" \in DOMAIN NewUser /\ "twoFactorAuthSecret" \in DOMAIN NewUser
      /\ "verifiedEmail" \in DOMAIN NewUser
  BY DEF NewUser
<1>6. WritesItsMatters(req'[r])
  BY <1>1, <1>2, <1>4, <1>5, ChangedFacts DEF WritesItsMatters
<1>7. u \notin entangled["completion"] => done[u] = 0
  BY <1>1, <1>4 DEF AccountsInv, DoneInv
<1>8. StillStands(req[r])'
  BY <1>1, <1>2, <1>4, <1>5, <1>7, ChangedFacts DEF StillStands
<1>9. QED
  BY <1>1, <1>3, <1>6, <1>8, BeginKeeps

LEMMA BeginAdminKeeps ==
  ASSUME AccountsInv, NEW r \in Requests, NEW u \in Users, BeginAdmin(r, u)
  PROVE  AccountsInv'
<1>1. PICK new \in UserState : /\ Begin(r, "admin", u, new)
                               /\ new.twoFactorAuthSecret = user[u].twoFactorAuthSecret
  BY DEF BeginAdmin
<1>2. "admin" \in Ops \ {"register"}
  BY DEF Ops
<1>3. /\ user[u] \in UserState
      /\ req'[r].op = "admin" /\ req'[r].writes = Changed(user[u], new)
  BY <1>1, <1>2, BeginFacts
<1>4. WritesItsMatters(req'[r])
  <2>1. "twoFactorAuthSecret" \notin DOMAIN req'[r].writes
    <3>1. "twoFactorAuthSecret" \in DOMAIN NewUser
      BY DEF NewUser
    <3>2. QED
      BY <1>1, <1>3, <3>1, ChangedFacts
  <2>2. Decides(req'[r]) = {m \in Matters : Field(m) \in DOMAIN req'[r].writes}
    BY <1>3 DEF Decides
  <2>3. /\ "twoFactor" \in Matters /\ Field("twoFactor") = "twoFactorAuth"
        /\ "completion" \in Matters /\ Field("completion") = "verifiedEmail"
    BY DEF Matters, Field
  <2>4. QED
    BY <1>3, <2>1, <2>2, <2>3 DEF WritesItsMatters
<1>5. StillStands(req[r])'
  BY <1>3 DEF StillStands
<1>6. QED
  BY <1>1, <1>2, <1>4, <1>5, BeginKeeps

LEMMA BeginTwoFactorKeeps ==
  ASSUME AccountsInv, NEW r \in Requests, NEW u \in Users,
         BeginQRCode(r, u) \/ BeginEnable(r, u) \/ BeginDisable(r, u)
  PROVE  AccountsInv'
<1>1. user[u] \in UserState
  BY DEF AccountsInv, TypeOK
<1>2. PICK op \in {"qrcode", "enable", "disable"} : \E new \in UserState :
        /\ Begin(r, op, u, new)
        /\ new.verifiedEmail = user[u].verifiedEmail
        /\ op = "qrcode" => ~user[u].twoFactorAuth /\ new.twoFactorAuth = user[u].twoFactorAuth
        /\ op = "enable" => /\ user[u].twoFactorAuthSecret # None /\ new.twoFactorAuth = TRUE
                            /\ new.twoFactorAuthSecret = user[u].twoFactorAuthSecret
        /\ op = "disable" => new.twoFactorAuth = FALSE
  <2>1. CASE BeginQRCode(r, u)
    BY <1>1, <2>1 DEF BeginQRCode, UserState
  <2>2. CASE BeginEnable(r, u)
    BY <1>1, <2>2 DEF BeginEnable, UserState
  <2>3. CASE BeginDisable(r, u)
    <3>. DEFINE new == [user[u] EXCEPT !.twoFactorAuth = FALSE, !.twoFactorAuthSecret = None]
    <3>1. /\ new \in UserState /\ Begin(r, "disable", u, new)
          /\ new.verifiedEmail = user[u].verifiedEmail /\ new.twoFactorAuth = FALSE
      BY <1>1, <2>3 DEF BeginDisable, UserState
    <3> HIDE DEF new
    <3>2. QED
      BY <3>1
  <2>4. QED
    BY <2>1, <2>2, <2>3
<1>3. PICK new \in UserState :
        /\ Begin(r, op, u, new)
        /\ new.verifiedEmail = user[u].verifiedEmail
        /\ op = "qrcode" => ~user[u].twoFactorAuth /\ new.twoFactorAuth = user[u].twoFactorAuth
        /\ op = "enable" => /\ user[u].twoFactorAuthSecret # None /\ new.twoFactorAuth = TRUE
                            /\ new.twoFactorAuthSecret = user[u].twoFactorAuthSecret
        /\ op = "disable" => new.twoFactorAuth = FALSE
  BY <1>2
<1>4. op \in Ops \ {"register"}
  BY DEF Ops
<1>5. /\ u \in accounts /\ UNCHANGED user
      /\ req'[r].op = op /\ req'[r].writes = Changed(user[u], new) /\ req'[r].email = u
      /\ op = "enable" => req'[r].secret = user[u].twoFactorAuthSecret
      /\ u \notin entangled'["twoFactor"] => u \notin entangled["twoFactor"] /\ tokenOf'[u] = tokenOf[u]
  BY <1>3, <1>4, BeginFacts
<1>6. WritesItsMatters(req'[r])
  <2>1. "verifiedEmail" \notin DOMAIN req'[r].writes
    <3>1. "verifiedEmail" \in DOMAIN NewUser
      BY DEF NewUser
    <3>2. QED
      BY <1>1, <1>3, <1>5, <3>1, ChangedFacts
  <2>2. Decides(req'[r]) = {"twoFactor"}
    BY <1>5 DEF Decides
  <2>3. QED
    BY <2>1, <2>2 DEF WritesItsMatters
<1>7. Written(user'[u], req'[r].writes) = new
  BY <1>1, <1>5, ChangedFacts
<1>8. user[u].twoFactorAuth = FALSE /\ u \notin entangled["twoFactor"] => tokenOf[u] = None
  BY <1>5 DEF AccountsInv, EnabledSecretIsConfirmed
<1>9. user[u].twoFactorAuth \in BOOLEAN
  BY <1>1 DEF UserState
<1>10. StillStands(req[r])'
  BY <1>3, <1>5, <1>7, <1>8, <1>9 DEF StillStands
<1>11. QED
  BY <1>3, <1>4, <1>6, <1>10, BeginKeeps
------------------------------------------------------------------------------
(* A request ends *)

(* A document is saved: who decides a matter of it is not disturbed, since *)
(* no other request writes the fields of the matter.                       *)
LEMMA SaveKeeps ==
  ASSUME AccountsInv, NEW r \in Requests, Save(r),
         tokenOf' = IF req[r].op \in {"enable", "disable"} /\ req[r].email \notin entangled["twoFactor"]
                    THEN [tokenOf EXCEPT ![req[r].email] =
                            IF req[r].op = "enable" THEN req[r].secret ELSE None]
                    ELSE tokenOf,
         done' = IF req[r].op = "complete" /\ req[r].email \notin entangled["completion"]
                 THEN [done EXCEPT ![req[r].email] = IF done[req[r].email] = 0 THEN 1 ELSE 2]
                 ELSE done,
         UNCHANGED <<firsts, crowded, entangled>>
  PROVE  AccountsInv'
<1>. DEFINE q == req[r]
            u == q.email
<1>1. /\ q.exists /\ u \in accounts /\ u \in Users /\ q.op \notin {None, "register"}
      /\ WritesItsMatters(q) /\ StillStands(q) /\ IsRequest(q)
      /\ user[u] \in UserState
  BY DEF Save, AccountsInv, TypeOK, LiveRequests
<1>2. End(r) /\ accounts' = accounts
  BY DEF Save
<1>3. /\ DOMAIN req' = Requests /\ req'[r] = NoRequest /\ NoRequest.exists = FALSE
      /\ NoRequest.op = None /\ IsRequest(NoRequest)
      /\ \A s \in Requests : s # r => req'[s] = req[s]
      /\ NoRequest = [op |-> NoRequest.op, email |-> NoRequest.email, step |-> NoRequest.step,
                      writes |-> NoRequest.writes, secret |-> NoRequest.secret,
                      exists |-> NoRequest.exists]
  BY <1>2, EndFacts
<1>4. /\ user' \in [Users -> UserState]
      /\ user'[u] = Written(user[u], q.writes)
      /\ \A v \in Users : v # u => user'[v] = user[v]
  BY <1>1, WrittenFacts DEF Save, AccountsInv, TypeOK
<1>5. /\ "twoFactor" \in Matters /\ "completion" \in Matters
      /\ \A s \in Requests : /\ req[s].op \in {"enable", "disable", "qrcode"} => "twoFactor" \in Decides(req[s])
                             /\ req[s].op = "complete" => "completion" \in Decides(req[s])
  BY DEF Matters, Decides
<1>6. /\ "twoFactorAuth" \in DOMAIN NewUser /\ "twoFactorAuthSecret" \in DOMAIN NewUser
      /\ "verifiedEmail" \in DOMAIN NewUser
  BY DEF NewUser
<1>7. tokenOf' \in [Users -> Secrets \cup {None}] /\ done' \in [Users -> 0 .. 2]
  BY <1>1 DEF AccountsInv, TypeOK, IsRequest
<1>8. \A v \in Users : v # u => tokenOf'[v] = tokenOf[v] /\ done'[v] = done[v]
  BY DEF AccountsInv, TypeOK
<1>9. "twoFactor" \notin Decides(q) =>
        /\ tokenOf'[u] = tokenOf[u]
        /\ user'[u]["twoFactorAuth"] = user[u]["twoFactorAuth"]
        /\ user'[u]["twoFactorAuthSecret"] = user[u]["twoFactorAuthSecret"]
  BY <1>1, <1>4, <1>5, <1>6, WrittenFacts DEF WritesItsMatters
<1>10. q.op # "complete" => done'[u] = done[u]
  OBVIOUS
<1> HIDE DEF q, u
<1>11. TypeOK'
  <2>1. \A v \in Users \ accounts' : user'[v] = NewUser
    BY <1>1, <1>2, <1>4 DEF AccountsInv, TypeOK
  <2>2. QED
    BY <1>2, <1>3, <1>4, <1>7, <2>1 DEF AccountsInv, TypeOK
<1>12. RequestShape'
  BY <1>3 DEF AccountsInv, RequestShape
<1>13. LiveRequests'
  <2>1. SUFFICES ASSUME NEW s \in Requests, s # r, req[s].exists
                 PROVE  /\ req[s].email \in accounts /\ req[s].op \notin {None, "register"}
                        /\ WritesItsMatters(req[s]) /\ StillStands(req[s])'
    BY <1>2, <1>3 DEF LiveRequests
  <2>2. /\ req[s].email \in accounts /\ req[s].email \in Users
        /\ req[s].op \notin {None, "register"}
        /\ WritesItsMatters(req[s]) /\ StillStands(req[s])
        /\ req'[s] = req[s] /\ IsRequest(req[s])
    BY <1>3, <2>1 DEF AccountsInv, LiveRequests, TypeOK
  <2>3. CASE req[s].email # u
    BY <1>4, <1>8, <2>2, <2>3 DEF StillStands
  <2>4. CASE req[s].email = u
    <3>1. ASSUME u \notin entangled["twoFactor"], req[s].op \in {"enable", "disable", "qrcode"}
          PROVE  /\ tokenOf'[u] = tokenOf[u]
                 /\ Written(user'[u], req[s].writes)["twoFactorAuth"] =
                      Written(user[u], req[s].writes)["twoFactorAuth"]
                 /\ Written(user'[u], req[s].writes)["twoFactorAuthSecret"] =
                      Written(user[u], req[s].writes)["twoFactorAuthSecret"]
      <4>1. "twoFactor" \notin Decides(q)
        BY <1>1, <1>5, <2>1, <2>4, <3>1 DEF AccountsInv, OneDecides, q, u
      <4>2. user'[u] \in UserState
        BY <1>1, <1>4
      <4>3. \A d \in UserState : \A f \in DOMAIN NewUser :
              Written(d, req[s].writes)[f] =
                IF f \in DOMAIN req[s].writes THEN req[s].writes[f] ELSE d[f]
        BY <2>2, WrittenFacts
      <4>4. QED
        BY <1>1, <1>6, <1>9, <4>1, <4>2, <4>3
    <3>2. ASSUME u \notin entangled["completion"], req[s].op = "complete"
          PROVE  done'[u] = done[u]
      BY <1>1, <1>5, <1>10, <2>1, <2>4, <3>2 DEF AccountsInv, OneDecides, q, u
    <3>3. QED
      BY <2>2, <2>4, <3>1, <3>2 DEF StillStands
  <2>5. QED
    BY <2>2, <2>3, <2>4
<1>14. OneDecides' /\ FirstIsAlone'
  BY <1>2, <1>3 DEF AccountsInv, OneDecides, FirstIsAlone, None
<1>15. NothingOfNobody' /\ FirstsInv'
  BY <1>1, <1>2, <1>8 DEF AccountsInv, NothingOfNobody, FirstsInv
<1>16. EnabledSecretIsConfirmed'
  <2>1. SUFFICES ASSUME NEW v \in accounts \ entangled["twoFactor"]
                 PROVE  IF user'[v].twoFactorAuth
                        THEN tokenOf'[v] # None /\ user'[v].twoFactorAuthSecret = tokenOf'[v]
                        ELSE tokenOf'[v] = None
    BY <1>2 DEF EnabledSecretIsConfirmed
  <2>2. /\ v \in Users
        /\ IF user[v].twoFactorAuth
           THEN tokenOf[v] # None /\ user[v].twoFactorAuthSecret = tokenOf[v]
           ELSE tokenOf[v] = None
    BY DEF AccountsInv, EnabledSecretIsConfirmed, TypeOK
  <2>3. CASE v # u
    BY <1>4, <1>8, <2>2, <2>3
  <2>4. CASE v = u /\ "twoFactor" \notin Decides(q)
    BY <1>9, <2>2, <2>4
  <2>5. CASE v = u /\ "twoFactor" \in Decides(q)
    <3>1. q.op \in {"enable", "disable", "qrcode"}
      <4>1. q.op # "admin"
        BY <1>1, <1>5, <2>1, <2>5 DEF AccountsInv, OneDecides, q, u
      <4>2. QED
        BY <2>5, <4>1 DEF Decides
    <3>2. tokenOf'[u] = IF q.op = "enable" THEN q.secret
                        ELSE IF q.op = "disable" THEN None ELSE tokenOf[u]
      BY <1>1, <2>1, <2>5, <3>1 DEF AccountsInv, TypeOK, q, u
    <3>3. QED
      BY <1>1, <1>4, <2>1, <2>5, <3>1, <3>2 DEF StillStands, u
  <2>6. QED
    BY <2>3, <2>4, <2>5
<1>17. DoneInv'
  <2>1. SUFFICES ASSUME NEW v \in accounts \ entangled["completion"]
                 PROVE  \/ done'[v] = 0
                        \/ done'[v] = 1 /\ user'[v].verifiedEmail = TRUE
    BY <1>2 DEF DoneInv
  <2>2. v \in Users /\ (done[v] = 0 \/ (done[v] = 1 /\ user[v].verifiedEmail = TRUE))
    BY DEF AccountsInv, DoneInv, TypeOK
  <2>3. CASE v # u
    BY <1>4, <1>8, <2>2, <2>3
  <2>4. CASE v = u /\ q.op = "complete"
    <3>1. done[u] = 0 /\ "verifiedEmail" \in DOMAIN q.writes /\ q.writes["verifiedEmail"] = TRUE
      BY <1>1, <2>1, <2>4 DEF StillStands, u
    <3>2. done'[u] = 1
      BY <1>1, <2>1, <2>4, <3>1 DEF AccountsInv, TypeOK, q, u
    <3>3. user'[u]["verifiedEmail"] = TRUE
      BY <1>1, <1>4, <1>6, <3>1, WrittenFacts
    <3>4. QED
      BY <2>4, <3>2, <3>3
  <2>5. CASE v = u /\ q.op # "complete"
    <3>1. "verifiedEmail" \in DOMAIN q.writes => q.writes["verifiedEmail"] = TRUE
      BY <1>1, <1>5, <2>1, <2>5 DEF AccountsInv, OneDecides, WritesItsMatters, q, u
    <3>2. user'[u]["verifiedEmail"] = user[u]["verifiedEmail"] \/ user'[u]["verifiedEmail"] = TRUE
      BY <1>1, <1>4, <1>6, <3>1, WrittenFacts
    <3>3. QED
      BY <1>10, <2>2, <2>5, <3>2
  <2>6. QED
    BY <2>3, <2>4, <2>5
<1>18. QED
  BY <1>11, <1>12, <1>13, <1>14, <1>15, <1>16, <1>17 DEF AccountsInv

(* A request ends without having saved a document that was there.          *)
LEMMA EndKeeps ==
  ASSUME AccountsInv, NEW r \in Requests, End(r), UNCHANGED <<data, history>>
  PROVE  AccountsInv'
<1>1. /\ DOMAIN req' = Requests /\ req'[r] = NoRequest /\ NoRequest.exists = FALSE
      /\ NoRequest.op = None /\ IsRequest(NoRequest)
      /\ \A s \in Requests : s # r => req'[s] = req[s]
      /\ NoRequest = [op |-> NoRequest.op, email |-> NoRequest.email, step |-> NoRequest.step,
                      writes |-> NoRequest.writes, secret |-> NoRequest.secret,
                      exists |-> NoRequest.exists]
  BY EndFacts
<1>2. UNCHANGED <<accounts, user, firsts, crowded, tokenOf, done, entangled>>
  BY DEF data, history
<1>3. TypeOK'
  BY <1>1, <1>2 DEF AccountsInv, TypeOK
<1>4. RequestShape'
  BY <1>1 DEF AccountsInv, RequestShape
<1>5. LiveRequests'
  BY <1>1, <1>2 DEF AccountsInv, LiveRequests, StillStands, Written
<1>6. OneDecides' /\ FirstIsAlone'
  BY <1>1, <1>2 DEF AccountsInv, OneDecides, FirstIsAlone, None
<1>7. NothingOfNobody' /\ FirstsInv' /\ EnabledSecretIsConfirmed' /\ DoneInv'
  BY <1>2 DEF AccountsInv, NothingOfNobody, FirstsInv, EnabledSecretIsConfirmed, DoneInv
<1>8. QED
  BY <1>3, <1>4, <1>5, <1>6, <1>7 DEF AccountsInv
------------------------------------------------------------------------------
(* Registration *)

LEMMA BeginRegisterKeeps ==
  ASSUME AccountsInv, NEW r \in Requests, NEW u \in Users,
         NEW kind \in {"password", "saml", "invited"}, BeginRegister(r, u, kind)
  PROVE  AccountsInv'
<1>. DEFINE first == FirstRegistered(kind)
            verified == kind = "saml"
            w == [administrator |-> first, verifiedEmail |-> verified]
            q == [op |-> "register", email |-> u, step |-> "count", writes |-> w,
                  secret |-> None, exists |-> FALSE]
<1>1. /\ Start(r, q)
      /\ crowded' = (crowded \/ (accounts = {} /\ \E s \in Requests : req[s].op = "register"))
      /\ UNCHANGED <<accounts, user, firsts>> /\ UNCHANGED data
  BY DEF BeginRegister, data
<1>2. first \in BOOLEAN /\ verified \in BOOLEAN /\ (first => accounts = {})
  BY DEF FirstRegistered
<1> HIDE DEF first, verified
<1>3. /\ DOMAIN w = {"administrator", "verifiedEmail"} /\ \A f \in DOMAIN w : w[f] \in BOOLEAN
      /\ w["administrator"] => accounts = {}
  BY <1>2
<1> HIDE DEF w
<1>4. /\ q.email = u /\ q.op = "register" /\ q.exists = FALSE /\ q.writes = w
      /\ q = [op |-> q.op, email |-> q.email, step |-> q.step, writes |-> q.writes,
              secret |-> q.secret, exists |-> q.exists]
      /\ q.op # "admin"
  OBVIOUS
<1>5. IsRequest(q)
  BY <1>3 DEF IsRequest, Ops, NewUser
<1>6. Decides(q) = {}
  BY DEF Decides
<1> HIDE DEF q
<1>7. /\ DOMAIN req' = Requests /\ req'[r] = q
      /\ \A s \in Requests : s # r => req'[s] = req[s]
      /\ entangled' \in [Matters -> SUBSET Users]
      /\ \A m \in Matters : entangled'[m] = entangled[m]
      /\ tokenOf' = tokenOf /\ done' = done
  BY <1>1, <1>4, <1>6, StartFacts
<1>8. TypeOK'
  BY <1>1, <1>5, <1>7 DEF AccountsInv, TypeOK
<1>9. RequestShape'
  BY <1>4, <1>7 DEF AccountsInv, RequestShape
<1>10. LiveRequests'
  <2>1. \A s \in Requests : s # r /\ req[s].exists => StillStands(req[s])'
    BY <1>1, <1>4, StartDisturbsNone
  <2>2. QED
    BY <1>1, <1>4, <1>7, <2>1 DEF AccountsInv, LiveRequests
<1>11. OneDecides'
  BY <1>4, <1>7 DEF AccountsInv, OneDecides
<1>12. FirstIsAlone'
  <2>1. SUFFICES ASSUME NEW s \in Requests, req'[s].op = "register"
                 PROVE  /\ req'[s].email \in Users
                        /\ DOMAIN req'[s].writes = {"administrator", "verifiedEmail"}
                        /\ ~crowded' /\ req'[s].writes["administrator"] =>
                             accounts = {} /\ \A t \in Requests : req'[t].op = "register" => t = s
    BY <1>1 DEF FirstIsAlone
  <2>2. CASE s = r
    BY <1>1, <1>3, <1>4, <1>7, <2>2
  <2>3. CASE s # r
    BY <1>1, <1>7, <2>1, <2>3 DEF AccountsInv, FirstIsAlone
  <2>4. QED
    BY <2>2, <2>3
<1>13. NothingOfNobody' /\ FirstsInv'
  BY <1>1, <1>7 DEF AccountsInv, NothingOfNobody, FirstsInv
<1>14. EnabledSecretIsConfirmed' /\ DoneInv'
  BY <1>1, <1>4, StartDisturbsNone
<1>15. QED
  BY <1>8, <1>9, <1>10, <1>11, <1>12, <1>13, <1>14 DEF AccountsInv

LEMMA CountKeeps ==
  ASSUME AccountsInv, NEW r \in Requests, CountAddresses(r)
  PROVE  AccountsInv'
<1>1. CASE End(r)
  BY <1>1, EndKeeps DEF CountAddresses
<1>2. CASE req' = [req EXCEPT ![r].step = "save"]
  <2>. DEFINE q == req[r]
  <2>1. UNCHANGED <<accounts, user, firsts, crowded, tokenOf, done, entangled>>
        /\ q.op = "register" /\ DOMAIN req = Requests
    BY DEF CountAddresses, At, data, history, AccountsInv, TypeOK
  <2>2. q = [op |-> q.op, email |-> q.email, step |-> q.step, writes |-> q.writes,
             secret |-> q.secret, exists |-> q.exists]
    BY DEF AccountsInv, RequestShape
  <2>3. /\ DOMAIN req' = Requests
        /\ req'[r] = [op |-> q.op, email |-> q.email, step |-> "save", writes |-> q.writes,
                      secret |-> q.secret, exists |-> q.exists]
        /\ \A s \in Requests : s # r => req'[s] = req[s]
    BY <1>2, <2>1, <2>2
  <2>4. /\ req'[r].op = q.op /\ req'[r].email = q.email /\ req'[r].step = "save"
        /\ req'[r].writes = q.writes /\ req'[r].secret = q.secret /\ req'[r].exists = q.exists
    BY <2>3
  <2>5. IsRequest(q) /\ q.exists = FALSE
    BY <2>1 DEF AccountsInv, TypeOK, LiveRequests, IsRequest
  <2> HIDE DEF q
  <2>6. TypeOK'
    BY <2>1, <2>3, <2>4, <2>5 DEF AccountsInv, TypeOK, IsRequest
  <2>7. RequestShape'
    BY <2>3, <2>4 DEF AccountsInv, RequestShape
  <2>8. LiveRequests'
    BY <2>1, <2>3, <2>4, <2>5 DEF AccountsInv, LiveRequests, StillStands, Written
  <2>9. OneDecides'
    BY <2>1, <2>3, <2>4, <2>5 DEF AccountsInv, OneDecides
  <2>10. FirstIsAlone'
    BY <2>1, <2>3, <2>4 DEF AccountsInv, FirstIsAlone, q
  <2>11. NothingOfNobody' /\ FirstsInv' /\ EnabledSecretIsConfirmed' /\ DoneInv'
    BY <2>1 DEF AccountsInv, NothingOfNobody, FirstsInv, EnabledSecretIsConfirmed, DoneInv
  <2>12. QED
    BY <2>6, <2>7, <2>8, <2>9, <2>10, <2>11 DEF AccountsInv
<1>3. QED
  BY <1>1, <1>2 DEF CountAddresses

LEMMA InsertUserKeeps ==
  ASSUME AccountsInv, NEW r \in Requests, InsertUser(r)
  PROVE  AccountsInv'
<1>. DEFINE q == req[r]
            u == q.email
<1>1. /\ q.op = "register" /\ u \notin accounts /\ End(r)
      /\ accounts' = accounts \cup {u} /\ user' = [user EXCEPT ![u] = Written(NewUser, q.writes)]
      /\ firsts' = IF q.writes["administrator"] THEN firsts \cup {u} ELSE firsts
      /\ UNCHANGED <<crowded, tokenOf, done, entangled>>
  BY DEF InsertUser, At
<1>2. /\ DOMAIN req' = Requests /\ req'[r] = NoRequest /\ NoRequest.exists = FALSE
      /\ NoRequest.op = None /\ IsRequest(NoRequest)
      /\ \A s \in Requests : s # r => req'[s] = req[s]
      /\ NoRequest = [op |-> NoRequest.op, email |-> NoRequest.email, step |-> NoRequest.step,
                      writes |-> NoRequest.writes, secret |-> NoRequest.secret,
                      exists |-> NoRequest.exists]
  BY <1>1, EndFacts
<1>3. IsRequest(q) /\ NewUser \in UserState /\ DOMAIN q.writes = {"administrator", "verifiedEmail"}
  BY <1>1 DEF AccountsInv, TypeOK, FirstIsAlone, UserState, NewUser
<1>4. /\ Written(NewUser, q.writes) \in UserState
      /\ Written(NewUser, q.writes)["twoFactorAuth"] = FALSE
  <2>1. "twoFactorAuth" \in DOMAIN NewUser /\ NewUser["twoFactorAuth"] = FALSE
    BY DEF NewUser
  <2>2. QED
    BY <1>3, <2>1, WrittenFacts
<1> HIDE DEF q
<1>5. u \in Users
  BY <1>1 DEF AccountsInv, FirstIsAlone, q
<1>6. /\ user' \in [Users -> UserState] /\ user'[u]["twoFactorAuth"] = FALSE
      /\ \A v \in Users : v # u => user'[v] = user[v]
  BY <1>1, <1>4, <1>5 DEF AccountsInv, TypeOK
<1>7. tokenOf[u] = None /\ done[u] = 0
  BY <1>1, <1>5 DEF AccountsInv, NothingOfNobody
<1> HIDE DEF u
<1>8. TypeOK'
  <2>1. accounts' \subseteq Users /\ firsts' \subseteq accounts'
    BY <1>1, <1>5 DEF AccountsInv, TypeOK
  <2>2. \A v \in Users \ accounts' : user'[v] = NewUser
    BY <1>1, <1>6 DEF AccountsInv, TypeOK
  <2>3. \A s \in Requests : IsRequest(req'[s])
    BY <1>2 DEF AccountsInv, TypeOK
  <2>4. QED
    BY <1>1, <1>2, <1>6, <2>1, <2>2, <2>3 DEF AccountsInv, TypeOK
<1>9. RequestShape'
  BY <1>2 DEF AccountsInv, RequestShape
<1>10. LiveRequests'
  <2>1. SUFFICES ASSUME NEW s \in Requests, s # r, req[s].exists
                 PROVE  /\ req[s].email \in accounts' /\ req[s].op \notin {None, "register"}
                        /\ WritesItsMatters(req[s]) /\ StillStands(req[s])'
    BY <1>2 DEF LiveRequests
  <2>2. /\ req[s].email \in accounts /\ req[s].op \notin {None, "register"}
        /\ WritesItsMatters(req[s]) /\ StillStands(req[s]) /\ req'[s] = req[s]
    BY <1>2, <2>1 DEF AccountsInv, LiveRequests
  <2>3. user'[req[s].email] = user[req[s].email]
    BY <1>1, <1>6, <2>2 DEF AccountsInv, TypeOK
  <2>4. QED
    BY <1>1, <2>2, <2>3 DEF StillStands
<1>11. OneDecides'
  BY <1>1, <1>2 DEF AccountsInv, OneDecides
<1>12. FirstIsAlone'
  <2>1. SUFFICES ASSUME NEW s \in Requests, s # r, req[s].op = "register"
                 PROVE  /\ req[s].email \in Users
                        /\ DOMAIN req[s].writes = {"administrator", "verifiedEmail"}
                        /\ ~(~crowded /\ req[s].writes["administrator"])
    BY <1>1, <1>2 DEF FirstIsAlone, None
  <2>2. QED
    BY <1>1, <2>1 DEF AccountsInv, FirstIsAlone, q
<1>13. NothingOfNobody'
  BY <1>1 DEF AccountsInv, NothingOfNobody
<1>14. FirstsInv'
  <2>1. CASE ~crowded /\ q.writes["administrator"]
    <3>1. accounts = {} /\ firsts = {}
      BY <1>1, <2>1 DEF AccountsInv, FirstIsAlone, TypeOK, q
    <3>2. QED
      BY <1>1, <3>1 DEF FirstsInv
  <2>2. CASE crowded \/ ~q.writes["administrator"]
    BY <1>1, <2>2 DEF AccountsInv, FirstsInv
  <2>3. QED
    BY <2>1, <2>2
<1>15. EnabledSecretIsConfirmed' /\ DoneInv'
  <2>1. \A v \in accounts : v # u /\ user'[v] = user[v]
    BY <1>1, <1>6 DEF AccountsInv, TypeOK
  <2>2. QED
    BY <1>1, <1>6, <1>7, <2>1 DEF AccountsInv, EnabledSecretIsConfirmed, DoneInv
<1>16. QED
  BY <1>8, <1>9, <1>10, <1>11, <1>12, <1>13, <1>14, <1>15 DEF AccountsInv
------------------------------------------------------------------------------
(* The account that a request has read is no more.                         *)
LEMMA Forgotten ==
  ASSUME NEW q, q = [op |-> q.op, email |-> q.email, step |-> q.step, writes |-> q.writes,
                     secret |-> q.secret, exists |-> q.exists],
         NEW p, p = [q EXCEPT !.exists = FALSE]
  PROVE  /\ p.op = q.op /\ p.email = q.email /\ p.step = q.step /\ p.writes = q.writes
         /\ p.secret = q.secret /\ p.exists = FALSE
         /\ p = [op |-> p.op, email |-> p.email, step |-> p.step, writes |-> p.writes,
                 secret |-> p.secret, exists |-> p.exists]
<1>1. DOMAIN q = {"op", "email", "step", "writes", "secret", "exists"}
  OBVIOUS
<1>2. /\ DOMAIN p = DOMAIN q /\ p.exists = FALSE
      /\ \A f \in DOMAIN q : f # "exists" => p[f] = q[f]
      /\ p = [f \in DOMAIN q |-> p[f]]
  BY <1>1
<1>3. QED
  BY <1>1, <1>2

LEMMA DeleteKeeps ==
  ASSUME AccountsInv, NEW u \in Users, DeleteUser(u)
  PROVE  AccountsInv'
<1>1. /\ accounts' = accounts \ {u} /\ user' = [user EXCEPT ![u] = NewUser]
      /\ firsts' = firsts \ {u} /\ crowded' = crowded
      /\ tokenOf' = [tokenOf EXCEPT ![u] = None] /\ done' = [done EXCEPT ![u] = 0]
      /\ entangled' = [m \in Matters |-> entangled[m] \ {u}]
      /\ u \in accounts
  BY DEF DeleteUser
<1>2. DOMAIN req' = Requests
  BY DEF DeleteUser
<1>3. \A r \in Requests :
        /\ req'[r].op = req[r].op /\ req'[r].email = req[r].email /\ req'[r].step = req[r].step
        /\ req'[r].writes = req[r].writes /\ req'[r].secret = req[r].secret
        /\ req'[r].exists = IF req[r].email = u THEN FALSE ELSE req[r].exists
        /\ req[r].email # u => req'[r] = req[r]
        /\ req'[r] = [op |-> req'[r].op, email |-> req'[r].email, step |-> req'[r].step,
                      writes |-> req'[r].writes, secret |-> req'[r].secret,
                      exists |-> req'[r].exists]
  <2>1. SUFFICES ASSUME NEW r \in Requests
        PROVE  /\ req'[r].op = req[r].op /\ req'[r].email = req[r].email
               /\ req'[r].step = req[r].step /\ req'[r].writes = req[r].writes
               /\ req'[r].secret = req[r].secret
               /\ req'[r].exists = IF req[r].email = u THEN FALSE ELSE req[r].exists
               /\ req[r].email # u => req'[r] = req[r]
               /\ req'[r] = [op |-> req'[r].op, email |-> req'[r].email, step |-> req'[r].step,
                             writes |-> req'[r].writes, secret |-> req'[r].secret,
                             exists |-> req'[r].exists]
    OBVIOUS
  <2>2. req[r] = [op |-> req[r].op, email |-> req[r].email, step |-> req[r].step,
                  writes |-> req[r].writes, secret |-> req[r].secret, exists |-> req[r].exists]
    BY DEF AccountsInv, RequestShape
  <2>3. CASE req[r].email = u
    <3>1. req'[r] = [req[r] EXCEPT !.exists = FALSE]
      BY <2>3 DEF DeleteUser
    <3>2. QED
      BY <2>2, <2>3, <3>1, Forgotten
  <2>4. CASE req[r].email # u
    <3>1. req'[r] = req[r]
      BY <2>4 DEF DeleteUser
    <3>2. QED
      BY <2>2, <2>4, <3>1
  <2>5. QED
    BY <2>3, <2>4
<1>4. \A r \in Requests : req'[r].exists =>
        req'[r] = req[r] /\ req[r].exists /\ req[r].email # u
  BY <1>3
<1>5. \A v \in Users : v # u => /\ user'[v] = user[v] /\ tokenOf'[v] = tokenOf[v]
                                /\ done'[v] = done[v]
                                /\ \A m \in Matters : v \in entangled'[m] <=> v \in entangled[m]
  BY <1>1 DEF AccountsInv, TypeOK
<1>6. "twoFactor" \in Matters /\ "completion" \in Matters
  BY DEF Matters
<1>7. TypeOK'
  <2>1. \A r \in Requests : IsRequest(req'[r])
    <3>1. SUFFICES ASSUME NEW r \in Requests PROVE IsRequest(req'[r])
      OBVIOUS
    <3>2. IsRequest(req[r])
      BY DEF AccountsInv, TypeOK
    <3>3. req'[r].exists \in BOOLEAN
      BY <1>3, <3>2 DEF IsRequest
    <3>4. QED
      BY <1>3, <3>2, <3>3 DEF IsRequest
  <2>2. user' \in [Users -> UserState] /\ \A v \in Users \ accounts' : user'[v] = NewUser
    BY <1>1 DEF AccountsInv, TypeOK, UserState, NewUser
  <2>3. /\ tokenOf' \in [Users -> Secrets \cup {None}] /\ done' \in [Users -> 0 .. 2]
        /\ entangled' \in [Matters -> SUBSET Users]
    BY <1>1 DEF AccountsInv, TypeOK
  <2>4. QED
    BY <1>1, <1>2, <2>1, <2>2, <2>3 DEF AccountsInv, TypeOK
<1>8. RequestShape'
  BY <1>3 DEF RequestShape
<1>9. LiveRequests'
  <2>1. SUFFICES ASSUME NEW r \in Requests, req'[r].exists
                 PROVE  /\ req[r].email \in accounts' /\ req[r].op \notin {None, "register"}
                        /\ WritesItsMatters(req[r]) /\ StillStands(req[r])'
    BY <1>4 DEF LiveRequests
  <2>2. /\ req[r].email \in accounts /\ req[r].email # u /\ req[r].op \notin {None, "register"}
        /\ WritesItsMatters(req[r]) /\ StillStands(req[r]) /\ req'[r] = req[r]
    BY <1>4, <2>1 DEF AccountsInv, LiveRequests
  <2>3. req[r].email \in Users
    BY <2>2 DEF AccountsInv, TypeOK
  <2>4. QED
    BY <1>1, <1>5, <1>6, <2>2, <2>3 DEF StillStands
<1>10. OneDecides'
  <2>1. SUFFICES ASSUME NEW m \in Matters, NEW r \in Requests, req'[r].exists,
                        m \in Decides(req'[r]), req'[r].email \notin entangled'[m]
                 PROVE  /\ req'[r].op # "admin"
                        /\ \A t \in Requests : t # r /\ req'[t].exists /\ req'[t].email = req'[r].email =>
                             m \notin Decides(req'[t])
    BY DEF OneDecides
  <2>2. /\ req'[r] = req[r] /\ req[r].exists /\ req[r].email # u /\ req[r].email \in Users
    BY <1>4, <2>1 DEF AccountsInv, LiveRequests, TypeOK
  <2>3. QED
    BY <1>4, <1>5, <2>1, <2>2 DEF AccountsInv, OneDecides
<1>11. FirstIsAlone'
  BY <1>1, <1>3 DEF AccountsInv, FirstIsAlone
<1>12. NothingOfNobody'
  BY <1>1, <1>5 DEF AccountsInv, NothingOfNobody, TypeOK
<1>13. FirstsInv'
  BY <1>1 DEF AccountsInv, FirstsInv
<1>14. EnabledSecretIsConfirmed' /\ DoneInv'
  <2>1. \A v \in accounts' : v \in accounts /\ v # u /\ v \in Users
    BY <1>1 DEF AccountsInv, TypeOK
  <2>2. QED
    BY <1>5, <1>6, <2>1 DEF AccountsInv, EnabledSecretIsConfirmed, DoneInv
<1>15. QED
  BY <1>7, <1>8, <1>9, <1>10, <1>11, <1>12, <1>13, <1>14 DEF AccountsInv

LEMMA AccountsStep == AccountsInv /\ [Next]_vars => AccountsInv'
<1> SUFFICES ASSUME AccountsInv, [Next]_vars PROVE AccountsInv'
  OBVIOUS
<1>1. ASSUME NEW r \in Requests, NEW u \in Users,
             \/ \E kind \in {"password", "saml", "invited"} : BeginRegister(r, u, kind)
             \/ BeginComplete(r, u) \/ BeginConfirm(r, u) \/ BeginReset(r, u) \/ BeginProfile(r, u)
             \/ BeginAdmin(r, u)
             \/ BeginQRCode(r, u) \/ BeginEnable(r, u) \/ BeginDisable(r, u)
      PROVE  AccountsInv'
  BY <1>1, BeginRegisterKeeps, BeginCompleteKeeps, BeginOtherKeeps, BeginAdminKeeps,
     BeginTwoFactorKeeps
<1>2. ASSUME NEW r \in Requests, InsertDuplicate(r) \/ RequestFails(r)
      PROVE  AccountsInv'
  BY <1>2, EndKeeps DEF InsertDuplicate, RequestFails
<1>3. ASSUME NEW r \in Requests,
             Complete(r) \/ SaveUser(r) \/ AdminUpdate(r) \/ QRCode(r) \/ Enable(r) \/ Disable(r)
      PROVE  AccountsInv'
  <2>1. Save(r) /\ UNCHANGED <<firsts, crowded, entangled>>
    BY <1>3 DEF Complete, SaveUser, AdminUpdate, QRCode, Enable, Disable, history
  <2>2. tokenOf' = IF req[r].op \in {"enable", "disable"} /\ req[r].email \notin entangled["twoFactor"]
                   THEN [tokenOf EXCEPT ![req[r].email] =
                           IF req[r].op = "enable" THEN req[r].secret ELSE None]
                   ELSE tokenOf
    BY <1>3 DEF Complete, SaveUser, AdminUpdate, QRCode, Enable, Disable, history, Note
  <2>3. done' = IF req[r].op = "complete" /\ req[r].email \notin entangled["completion"]
                THEN [done EXCEPT ![req[r].email] = IF done[req[r].email] = 0 THEN 1 ELSE 2]
                ELSE done
    BY <1>3 DEF Complete, SaveUser, AdminUpdate, QRCode, Enable, Disable, history, Note
  <2>4. QED
    BY <2>1, <2>2, <2>3, SaveKeeps
<1>4. CASE Next
  BY <1>1, <1>2, <1>3, <1>4, CountKeeps, InsertUserKeeps, DeleteKeeps DEF Next
<1>5. CASE UNCHANGED vars
  <2>1. UNCHANGED <<accounts, user, req, firsts, crowded, tokenOf, done, entangled>>
    BY <1>5 DEF vars, data, history
  <2>2. TypeOK' /\ RequestShape'
    BY <2>1 DEF AccountsInv, TypeOK, RequestShape
  <2>3. LiveRequests' /\ OneDecides'
    BY <2>1 DEF AccountsInv, LiveRequests, StillStands, Written, OneDecides
  <2>4. FirstIsAlone' /\ NothingOfNobody' /\ FirstsInv' /\ EnabledSecretIsConfirmed' /\ DoneInv'
    BY <2>1 DEF AccountsInv, FirstIsAlone, NothingOfNobody, FirstsInv, EnabledSecretIsConfirmed,
                DoneInv
  <2>5. QED
    BY <2>2, <2>3, <2>4 DEF AccountsInv
<1>6. QED
  BY <1>4, <1>5

LEMMA AccountsInvInit == Init => AccountsInv
<1> SUFFICES ASSUME Init PROVE AccountsInv
  OBVIOUS
<1>1. \A r \in Requests : req[r] = NoRequest
  BY DEF Init
<1>2. NoRequest.exists = FALSE /\ NoRequest.op = None /\ IsRequest(NoRequest)
  <2>1. DOMAIN NoRequest.writes = {}
    BY DEF NoRequest
  <2>2. QED
    BY <2>1 DEF NoRequest, IsRequest, None
<1>3. TypeOK
  <2>1. user \in [Users -> UserState] /\ \A u \in Users : user[u] = NewUser
    BY DEF Init, UserState, NewUser
  <2>2. tokenOf \in [Users -> Secrets \cup {None}] /\ done \in [Users -> 0 .. 2]
    BY DEF Init
  <2>3. QED
    BY <1>1, <1>2, <2>1, <2>2 DEF Init, TypeOK
<1>4. RequestShape
  BY <1>1 DEF RequestShape, NoRequest
<1>5. LiveRequests /\ OneDecides /\ FirstIsAlone
  BY <1>1, <1>2 DEF LiveRequests, OneDecides, FirstIsAlone, None
<1>6. NothingOfNobody /\ FirstsInv /\ EnabledSecretIsConfirmed /\ DoneInv
  BY DEF Init, NothingOfNobody, FirstsInv, EnabledSecretIsConfirmed, DoneInv
<1>7. QED
  BY <1>3, <1>4, <1>5, <1>6 DEF AccountsInv

LEMMA AccountsInvariant == Spec => []AccountsInv
<1>1. QED
  BY AccountsInvInit, AccountsStep, PTL DEF Spec
------------------------------------------------------------------------------
(* However many registrations, deletions and other requests there are, the *)
(* count of accounts makes one administrator at most, as long as no two    *)
(* registrations overlapped when there were no accounts                    *)
(* (users.js create_user; saml.js).                                        *)
THEOREM OneFirstCorrect == Spec => []OneFirstAdministrator
<1>1. ASSUME AccountsInv PROVE OneFirstAdministrator
  <2>1. CASE \E u \in firsts : TRUE
    <3>1. PICK u \in firsts : TRUE
      BY <2>1
    <3>2. crowded \/ firsts = {u}
      BY <1>1, <3>1 DEF AccountsInv, FirstsInv
    <3>3. QED
      BY <3>2, FS_Singleton DEF OneFirstAdministrator
  <2>2. CASE firsts = {}
    BY <2>2, FS_EmptySet DEF OneFirstAdministrator
  <2>3. QED
    BY <2>1, <2>2
<1>2. QED
  BY <1>1, AccountsInvariant, PTL

(* Two-factor authentication that is on goes by the secret whose token the *)
(* user gave, whatever other requests save other fields of the document    *)
(* (two_factor_authentication.js; models/user.js).                         *)
THEOREM EnabledSecretCorrect == Spec => []EnabledSecretIsConfirmed
<1>1. AccountsInv => EnabledSecretIsConfirmed
  BY DEF AccountsInv
<1>2. QED
  BY <1>1, AccountsInvariant, PTL

(* The link that completes a registration works once, whatever else writes *)
(* the document in between (users.js complete_registration).               *)
THEOREM CompletedOnceCorrect == Spec => []CompletedOnce
<1>1. AccountsInv => CompletedOnce
  BY DEF AccountsInv, TypeOK, DoneInv, CompletedOnce
<1>2. QED
  BY <1>1, AccountsInvariant, PTL
==============================================================================
