------------------------------- MODULE EditLog -------------------------------
(***************************************************************************)
(* What the collaborative text editor promises its authors, independently  *)
(* of caching, saving and loading: an edit the server has accepted stays   *)
(* part of the document.  The only documents exempt from the promise are   *)
(* those in mayLose; the implementation has to name a fault before it may  *)
(* put a document there.                                                   *)
(***************************************************************************)
CONSTANTS
  Docs,     \* document identifiers ("<namespace>-<lesson>-<component>")
  Edits     \* identities of accepted edit messages

VARIABLES
  accepted, \* accepted[d]: the edits of d the server has acknowledged
  content,  \* content[d]: the edits the document d consists of now
  mayLose   \* documents hit by a fault

logVars == <<accepted, content, mayLose>>

LogInit ==
  /\ accepted = [d \in Docs |-> {}]
  /\ content = [d \in Docs |-> {}]
  /\ mayLose = {}

(* One more edit is acknowledged.  A document that has been hit by a fault *)
(* need not show it on top of what it showed before.                       *)
Accept(d, e) ==
  /\ \A x \in Docs : e \notin accepted[x]
  /\ accepted' = [accepted EXCEPT ![d] = @ \cup {e}]
  /\ \A x \in Docs \ mayLose :
        content'[x] = IF x = d THEN content[x] \cup {e} ELSE content[x]
  /\ UNCHANGED mayLose

(* A fault strikes the documents F; all other documents stay as they are.  *)
Fault(F) ==
  /\ mayLose' = mayLose \cup F
  /\ \A x \in Docs \ mayLose' : content'[x] = content[x]
  /\ UNCHANGED accepted

LogNext ==
  \/ \E d \in Docs, e \in Edits : Accept(d, e)
  \/ \E F \in SUBSET Docs : Fault(F)

LogSpec == LogInit /\ [][LogNext]_logVars
==============================================================================
