------------------------------ MODULE Accounts ------------------------------
(***************************************************************************)
(* User accounts: how they are made, confirmed, changed and deleted        *)
(* (lib/users.js, lib/login.js, lib/saml.js, lib/models/user.js), and      *)
(* their two-factor authentication (lib/two_factor_authentication.js).     *)
(*                                                                         *)
(* A request works on the document of a user as it was read, either when   *)
(* the request was authenticated (lib/passport.js) or by a query of its    *)
(* own.  user.save() then writes the fields the request has changed, and   *)
(* no others: a field that is given the value that was read is not.        *)
(*                                                                         *)
(* Passwords, names and the other fields on which no request modelled here *)
(* depends are left out: a request that changes only these is "profile".   *)
(* The courses of a user are modelled in Courses, its progress in Progress.*)
(***************************************************************************)
EXTENDS Naturals, FiniteSets

CONSTANTS
  Users,    \* e-mail addresses, each of at most one account
  Secrets,  \* secrets two-factor authentication may generate
  Requests  \* requests that can be in progress at once

ASSUME AccountsAssumption == "none" \notin Secrets

VARIABLES
  accounts, \* addresses with an account
  user,     \* user[u]: the document of the account u
  req,      \* req[r]: what the request r has read and will save
  firsts,   \* history: accounts that registration made administrators
  crowded,  \* history: two registrations overlapped when there were no accounts
  tokenOf,  \* history: tokenOf[u]: the secret whose token switched two-factor
            \* authentication on, "none" since it was switched off
  done,     \* history: done[u]: times the registration of u was completed, up to 2
  entangled \* history: entangled[m]: accounts for which an administrator decided the
            \* matter m, or two requests that decide it overlapped; the two histories
            \* above are then given up

data == <<accounts, user>>
history == <<firsts, crowded, tokenOf, done, entangled>>
vars == <<data, req, history>>

None == "none"
Matters == {"twoFactor", "completion"}
Field(m) == IF m = "twoFactor" THEN "twoFactorAuth" ELSE "verifiedEmail"
UserState == [administrator : BOOLEAN, verifiedEmail : BOOLEAN, twoFactorAuth : BOOLEAN,
              twoFactorAuthSecret : Secrets \cup {None}]
NewUser == [administrator |-> FALSE, verifiedEmail |-> FALSE, twoFactorAuth |-> FALSE,
            twoFactorAuthSecret |-> None]

(* writes: the fields user.save() will write; secret: the two-factor       *)
(* secret that was read, for a request that depends on it; exists: the     *)
(* account that was read has not been deleted since.                       *)
Ops == {"register", "complete", "confirm", "reset", "profile", "admin", "qrcode", "enable",
        "disable"}
IsRequest(q) ==
  /\ q.op \in Ops \cup {None} /\ q.email \in Users \cup {None} /\ q.step \in {None, "count", "save"}
  /\ DOMAIN q.writes \subseteq DOMAIN NewUser
  /\ \A f \in DOMAIN q.writes :
       q.writes[f] \in (IF f = "twoFactorAuthSecret" THEN Secrets \cup {None} ELSE BOOLEAN)
  /\ q.secret \in Secrets \cup {None} /\ q.exists \in BOOLEAN
NoRequest == [op |-> None, email |-> None, step |-> None, writes |-> <<>>, secret |-> None,
              exists |-> FALSE]

Init ==
  /\ accounts = {}
  /\ user = [u \in Users |-> NewUser]
  /\ req = [r \in Requests |-> NoRequest]
  /\ firsts = {}
  /\ crowded = FALSE
  /\ tokenOf = [u \in Users |-> None]
  /\ done = [u \in Users |-> 0]
  /\ entangled = [m \in Matters |-> {}]

Busy(r) == req[r].op # None
At(r, op, step) == req[r].op = op /\ req[r].step = step

(* What a request decides.  Two at once that decide the same are in each   *)
(* other's way, and what an administrator decides is beyond what the user  *)
(* was told.                                                               *)
Decides(q) ==
  CASE q.op \in {"qrcode", "enable", "disable"} -> {"twoFactor"}
    [] q.op = "complete" -> {"completion"}
    [] q.op = "admin" -> {m \in Matters : Field(m) \in DOMAIN q.writes}
    [] OTHER -> {}

Start(r, q) ==
  LET rivals == {s \in Requests : req[s].email = q.email}
      decided == IF q.op = "admin" THEN Decides(q)
                 ELSE Decides(q) \cap UNION {Decides(req[s]) : s \in rivals}
  IN /\ ~Busy(r)
     /\ req' = [req EXCEPT ![r] = q]
     /\ entangled' = [m \in Matters |-> entangled[m] \cup (IF m \in decided THEN {q.email} ELSE {})]
     /\ tokenOf' = IF "twoFactor" \in decided THEN [tokenOf EXCEPT ![q.email] = None] ELSE tokenOf
     /\ done' = IF "completion" \in decided THEN [done EXCEPT ![q.email] = 0] ELSE done

Note(h, m, u, v) == IF u \in entangled[m] THEN h ELSE [h EXCEPT ![u] = v]

(* Mutant: the document is written whole.                                  *)
ChangedAll(old, new) == new

Changed(old, new) == [f \in {g \in DOMAIN new : new[g] # old[g]} |-> new[f]]

(* A request of a user, or about a user, that has an account.              *)
Begin(r, op, u, new) ==
  /\ u \in accounts
  /\ Start(r, [op |-> op, email |-> u, step |-> "save", writes |-> Changed(user[u], new),
               secret |-> IF op = "enable" THEN user[u].twoFactorAuthSecret ELSE None,
               exists |-> TRUE])
  /\ UNCHANGED <<data, firsts, crowded>>

End(r) == req' = [req EXCEPT ![r] = NoRequest]

(* The document d once the fields of w are written.                        *)
Written(d, w) == [f \in DOMAIN d |-> IF f \in DOMAIN w THEN w[f] ELSE d[f]]

Save(r) ==
  /\ req[r].step = "save" /\ req[r].exists
  /\ user' = [user EXCEPT ![req[r].email] = Written(@, req[r].writes)]
  /\ End(r)
  /\ UNCHANGED accounts
------------------------------------------------------------------------------
(* Registration: create_user, the first visit by SAML, and the accounts    *)
(* that are made for users who were invited *)

(* Mutant: the users whose address is verified are counted.                *)
FirstRegisteredVerified(kind) ==
  kind # "invited" /\ \A u \in accounts : ~user[u].verifiedEmail

(* Who registers when no account is counted is made an administrator.      *)
FirstRegistered(kind) == kind # "invited" /\ accounts = {}

BeginRegister(r, u, kind) ==
  /\ kind = "password" \/ u \notin accounts
  /\ Start(r, [op |-> "register", email |-> u, step |-> "count",
               writes |-> [administrator |-> FirstRegistered(kind),
                           verifiedEmail |-> (kind = "saml")],
               secret |-> None, exists |-> FALSE])
  /\ crowded' = (crowded \/ (accounts = {} /\ \E s \in Requests : req[s].op = "register"))
  /\ UNCHANGED <<data, firsts>>

(* Before a new document is saved, those with its address are counted.     *)
CountAddresses(r) ==
  /\ At(r, "register", "count")
  /\ IF req[r].email \in accounts THEN End(r)
     ELSE req' = [req EXCEPT ![r].step = "save"]
  /\ UNCHANGED <<data, history>>

InsertUser(r) ==
  LET u == req[r].email IN
  /\ At(r, "register", "save") /\ u \notin accounts
  /\ accounts' = accounts \cup {u}
  /\ user' = [user EXCEPT ![u] = Written(NewUser, req[r].writes)]
  /\ firsts' = IF req[r].writes.administrator THEN firsts \cup {u} ELSE firsts
  /\ End(r)
  /\ UNCHANGED <<crowded, tokenOf, done, entangled>>

(* The index on addresses refuses one that has come in since the count.    *)
InsertDuplicate(r) ==
  /\ At(r, "register", "save") /\ req[r].email \in accounts
  /\ End(r)
  /\ UNCHANGED <<data, history>>

BeginComplete(r, u) ==
  /\ ~user[u].verifiedEmail
  /\ Begin(r, "complete", u, [user[u] EXCEPT !.verifiedEmail = TRUE])

Complete(r) ==
  LET u == req[r].email IN
  /\ req[r].op = "complete" /\ Save(r)
  /\ done' = Note(done, "completion", u, IF done[u] = 0 THEN 1 ELSE 2)
  /\ UNCHANGED <<firsts, crowded, tokenOf, entangled>>

BeginConfirm(r, u) ==
  /\ ~user[u].verifiedEmail
  /\ Begin(r, "confirm", u, [user[u] EXCEPT !.verifiedEmail = TRUE])

(* A password that was forgotten is set anew from a link in an e-mail.     *)
BeginReset(r, u) == Begin(r, "reset", u, [user[u] EXCEPT !.verifiedEmail = TRUE])

(* update_user, set_write_access, upload_profile_pic, the name SAML gives  *)
BeginProfile(r, u) == Begin(r, "profile", u, user[u])

SaveUser(r) ==
  /\ req[r].op \in {"confirm", "reset", "profile"} /\ Save(r)
  /\ UNCHANGED history
------------------------------------------------------------------------------
(* Administrators *)

BeginAdmin(r, u) ==
  \E new \in UserState :
    /\ \E v \in accounts : user[v].administrator
    /\ new.twoFactorAuthSecret = user[u].twoFactorAuthSecret
    /\ Begin(r, "admin", u, new)

AdminUpdate(r) ==
  /\ req[r].op = "admin" /\ Save(r)
  /\ UNCHANGED history

DeleteUser(u) ==
  /\ \E v \in accounts : user[v].administrator
  /\ u \in accounts
  /\ accounts' = accounts \ {u}
  /\ user' = [user EXCEPT ![u] = NewUser]
  /\ req' = [r \in Requests |-> IF req[r].email = u THEN [req[r] EXCEPT !.exists = FALSE]
                                ELSE req[r]]
  /\ firsts' = firsts \ {u}
  /\ tokenOf' = [tokenOf EXCEPT ![u] = None]
  /\ done' = [done EXCEPT ![u] = 0]
  /\ entangled' = [m \in Matters |-> entangled[m] \ {u}]
  /\ UNCHANGED crowded
------------------------------------------------------------------------------
(* Two-factor authentication *)

(* Mutant: a new secret is given out although the old one is in use.       *)
BeginQRCodeAlways(r, u) ==
  \E s \in Secrets : Begin(r, "qrcode", u, [user[u] EXCEPT !.twoFactorAuthSecret = s])

BeginQRCode(r, u) ==
  \E s \in Secrets :
    /\ ~user[u].twoFactorAuth
    /\ Begin(r, "qrcode", u, [user[u] EXCEPT !.twoFactorAuthSecret = s])

QRCode(r) ==
  /\ req[r].op = "qrcode" /\ Save(r)
  /\ UNCHANGED history

(* The token of the user is one of the secret that was read.               *)
BeginEnable(r, u) ==
  /\ user[u].twoFactorAuthSecret # None
  /\ Begin(r, "enable", u, [user[u] EXCEPT !.twoFactorAuth = TRUE])

Enable(r) ==
  LET q == req[r] IN
  /\ q.op = "enable" /\ Save(r)
  /\ tokenOf' = Note(tokenOf, "twoFactor", q.email, q.secret)
  /\ UNCHANGED <<firsts, crowded, done, entangled>>

BeginDisable(r, u) ==
  Begin(r, "disable", u, [user[u] EXCEPT !.twoFactorAuth = FALSE, !.twoFactorAuthSecret = None])

Disable(r) ==
  LET u == req[r].email IN
  /\ req[r].op = "disable" /\ Save(r)
  /\ tokenOf' = Note(tokenOf, "twoFactor", u, None)
  /\ UNCHANGED <<firsts, crowded, done, entangled>>
------------------------------------------------------------------------------
(* A query fails, or the account to be saved is gone.                      *)
RequestFails(r) ==
  /\ Busy(r)
  /\ End(r)
  /\ UNCHANGED <<data, history>>

Next ==
  \/ \E r \in Requests, u \in Users :
       \/ \E kind \in {"password", "saml", "invited"} : BeginRegister(r, u, kind)
       \/ BeginComplete(r, u) \/ BeginConfirm(r, u) \/ BeginReset(r, u) \/ BeginProfile(r, u)
       \/ BeginAdmin(r, u)
       \/ BeginQRCode(r, u) \/ BeginEnable(r, u) \/ BeginDisable(r, u)
  \/ \E r \in Requests :
       \/ CountAddresses(r) \/ InsertUser(r) \/ InsertDuplicate(r)
       \/ Complete(r) \/ SaveUser(r) \/ AdminUpdate(r)
       \/ QRCode(r) \/ Enable(r) \/ Disable(r)
       \/ RequestFails(r)
  \/ \E u \in Users : DeleteUser(u)

Spec == Init /\ [][Next]_vars
------------------------------------------------------------------------------
(* Accounts and requests keep the shapes above, and who has no account has *)
(* nothing stored.                                                         *)
TypeOK ==
  /\ accounts \subseteq Users
  /\ user \in [Users -> UserState]
  /\ \A u \in Users \ accounts : user[u] = NewUser
  /\ DOMAIN req = Requests /\ \A r \in Requests : IsRequest(req[r])
  /\ firsts \subseteq accounts
  /\ crowded \in BOOLEAN
  /\ tokenOf \in [Users -> Secrets \cup {None}]
  /\ done \in [Users -> 0 .. 2]
  /\ entangled \in [Matters -> SUBSET Users]

(* Registration makes at most one administrator (users.js: "Make first     *)
(* registered user an administrator"), unless two registrations overlapped *)
(* when there were no accounts: the count comes long before the document   *)
(* is inserted.                                                            *)
OneFirstAdministrator == crowded \/ Cardinality(firsts) <= 1

(* Two-factor authentication that is on goes by the secret whose token the *)
(* user gave to switch it on, and one that was switched off is off.  Saves *)
(* of other fields never interfere; two overlapping requests of the user   *)
(* about its two-factor authentication, or an administrator, may.          *)
EnabledSecretIsConfirmed ==
  \A u \in accounts \ entangled["twoFactor"] :
    IF user[u].twoFactorAuth
    THEN tokenOf[u] # None /\ user[u].twoFactorAuthSecret = tokenOf[u]
    ELSE tokenOf[u] = None

(* A registration is completed once: whoever uses the link of the e-mail   *)
(* again does not set another password, unless the two requests overlapped *)
(* or an administrator has decided anew.                                   *)
CompletedOnce == \A u \in accounts \ entangled["completion"] : done[u] <= 1
==============================================================================
