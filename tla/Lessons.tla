------------------------------- MODULE Lessons -------------------------------
(***************************************************************************)
(* The lessons of a course (lib/lessons.js; set_lesson_order and the lists *)
(* that update_namespace fills in, lib/namespaces.js).  A lesson is kept   *)
(* in three places: its document, the list of the course, and a directory  *)
(* of files that goes by its title.  Requests change them one after the    *)
(* other.                                                                  *)
(*                                                                         *)
(* The list of the course is changed by $push and $pullAll, or written     *)
(* whole: then the save fails if the course has a new version, which every *)
(* change of an array by a save gives it.  Announcements are arrays of the *)
(* same document (lib/announcements.js).                                   *)
(*                                                                         *)
(* One course is modelled; whose it is is the matter of module Courses,    *)
(* and the locks of a lesson that of LessonLocks.  The order of the list   *)
(* is left out.                                                            *)
(***************************************************************************)
EXTENDS FiniteSets

CONSTANTS
  Lessons,  \* identities of lessons (bounds the lessons of a run)
  Titles,   \* titles a lesson may have
  Requests  \* requests that can be in progress at once

ASSUME NoneIsNoTitle == "none" \notin Titles

VARIABLES
  state,     \* state[l]: the lesson l is "new" (not created), "stored" or "deleted"
  title,     \* title[l]: its title, once it is stored
  listed,    \* the lessons the course lists
  directory, \* titles with a directory
  seen,      \* the list as a client has last loaded it
  req,       \* req[r]: what the request r knows and has still to do
  raced,     \* history: titles that two requests at once worked on, that one failed
             \* with, or that a lesson was copied to although another had it
  rewritten  \* history: the list was written whole from data that were out of date,
             \* or while another request changed it

data == <<state, title, listed, directory, seen>>
history == <<raced, rewritten>>
vars == <<data, req, history>>

(* titles: those the request works on; from, to: the title it is given and *)
(* the one it sets; lessons: those it has found or stored; whole: the list *)
(* it will write, if it does; files: the titles whose files it has yet to  *)
(* put in place; fills: the course listed no lessons as it was read, so    *)
(* that all there are will be listed; stale: the course has a new version  *)
(* since, which matters to those who write an array whole.                 *)
RequestState ==
  [op : {"none", "create", "copy", "copyAll", "delete", "update", "order", "fill", "announce"},
   step : {"none", "lookup", "check", "files", "store", "collect", "list", "unlist", "drop",
           "rename", "move"},
   titles : SUBSET Titles, from : Titles \cup {"none"}, to : Titles \cup {"none"},
   lessons : SUBSET Lessons, whole : SUBSET Lessons, files : SUBSET Titles,
   fills : BOOLEAN, stale : BOOLEAN]
NoRequest == [op |-> "none", step |-> "none", titles |-> {}, from |-> "none", to |-> "none",
              lessons |-> {}, whole |-> {}, files |-> {}, fills |-> FALSE, stale |-> FALSE]
Request(op, step, titles) ==
  [NoRequest EXCEPT !.op = op, !.step = step, !.titles = titles,
                    !.fills = (listed = {} /\ op \in {"create", "copy", "copyAll"})]

Init ==
  /\ state = [l \in Lessons |-> "new"]
  /\ title = [l \in Lessons |-> "none"]
  /\ listed = {}
  /\ directory = {}
  /\ seen = {}
  /\ req = [r \in Requests |-> NoRequest]
  /\ raced = {}
  /\ rewritten = FALSE

Stored == {l \in Lessons : state[l] = "stored"}
Titled(t) == {l \in Stored : title[l] = t}

Busy(r) == req[r].op # "none"
At(r, ops, step) == req[r].op \in ops /\ req[r].step = step
InHand(t) == \E r \in Requests : Busy(r) /\ t \in req[r].titles

(* Requests that write the list whole from what they have read, and those  *)
(* such a write may undo.                                                  *)
Lists(q) == q.op \in {"create", "copy", "copyAll"}
Rewrites(q) == q.op = "fill" \/ q.fills
Undoes(p, q) == Rewrites(p) /\ (q.op = "delete" \/ (p.op = "fill" /\ Lists(q)))

Start(r, q) ==
  LET others == {req[s] : s \in {x \in Requests : Busy(x)}} IN
  /\ ~Busy(r)
  /\ req' = [req EXCEPT ![r] = q]
  /\ raced' = raced \cup UNION {p.titles \cup q.titles :
                                  p \in {o \in others : o.titles \cap q.titles # {}}}
  /\ rewritten' = (rewritten \/ \E p \in others : Undoes(p, q) \/ Undoes(q, p))
  /\ UNCHANGED data

Step(r, q) == req' = [req EXCEPT ![r] = q]

(* namespace.save() with a changed array: the course gets a new version.   *)
Saved(r, q) ==
  req' = [s \in Requests |-> IF s = r THEN q
                             ELSE IF req[s].fills \/ req[s].op \in {"order", "announce"}
                                  THEN [req[s] EXCEPT !.stale = TRUE]
                             ELSE req[s]]

End(r) == Step(r, NoRequest)
Fail(r) == End(r) /\ raced' = raced \cup req[r].titles
------------------------------------------------------------------------------
(* What the requests that store lessons share *)

(* The documents L are stored, under the titles of T.                      *)
Stores(r, T) ==
  \E L \in SUBSET {l \in Lessons : state[l] = "new"} :
    \E name \in [L -> T] :
      /\ {name[l] : l \in L} = T /\ \A l, m \in L : name[l] = name[m] => l = m
      /\ state' = [l \in Lessons |-> IF l \in L THEN "stored" ELSE state[l]]
      /\ title' = [l \in Lessons |-> IF l \in L THEN name[l] ELSE title[l]]
      /\ Step(r, [req[r] EXCEPT !.lessons = L, !.step = IF req[r].fills THEN "collect" ELSE "list"])

(* The list of a course that had no lessons is made from all there are.    *)
Collect(r) ==
  /\ At(r, {"create", "copy", "copyAll"}, "collect")
  /\ Step(r, [req[r] EXCEPT !.step = "list", !.whole = Stored])
  /\ UNCHANGED <<data, history>>

(* What is left to do once the lessons are listed: their files.            *)
Listed(q) ==
  IF q.files = {} THEN NoRequest
  ELSE [NoRequest EXCEPT !.op = q.op, !.step = "files", !.titles = q.titles, !.files = q.files]

(* Mutant: the version of the course is not asked for. *)
ListLessonsUnversioned(r) ==
  LET q == req[r] IN
  /\ At(r, {"create", "copy", "copyAll"}, "list")
  /\ listed' = IF q.fills THEN q.whole ELSE listed \cup q.lessons
  /\ Saved(r, Listed(q))
  /\ UNCHANGED <<state, title, directory, seen, history>>

(* namespace.save()                                                        *)
ListLessons(r) ==
  LET q == req[r] IN
  /\ At(r, {"create", "copy", "copyAll"}, "list")
  /\ IF q.fills /\ q.stale
     THEN Fail(r) /\ UNCHANGED listed
     ELSE /\ listed' = IF q.fills THEN q.whole ELSE listed \cup q.lessons
          /\ Saved(r, Listed(q))
          /\ UNCHANGED raced
  /\ UNCHANGED <<state, title, directory, seen, rewritten>>

(* unzipLessonFolder of create_lesson; ncp of copy_namespace_lessons, for  *)
(* one lesson after the other.                                             *)
PlaceFiles(r, t) ==
  LET q == [req[r] EXCEPT !.files = @ \ {t}] IN
  /\ At(r, {"create", "copyAll"}, "files") /\ t \in req[r].files
  /\ directory' = directory \cup {t}
  /\ Step(r, IF q.files = {} THEN NoRequest ELSE q)
  /\ UNCHANGED <<state, title, listed, seen, history>>
------------------------------------------------------------------------------
(* create_lesson *)

FindForCreate(r, t) ==
  Start(r, [Request("create", "lookup", {t}) EXCEPT !.to = t, !.files = {t}])

(* A lesson of the title that is there is kept, its files are replaced.    *)
LookupForCreate(r) ==
  LET q == req[r] IN
  /\ At(r, {"create"}, "lookup")
  /\ Step(r, IF Titled(q.to) = {} THEN [q EXCEPT !.step = "store"] ELSE Listed(q))
  /\ UNCHANGED <<data, history>>

StoreLesson(r) ==
  /\ At(r, {"create"}, "store")
  /\ Stores(r, {req[r].to})
  /\ UNCHANGED <<listed, directory, seen, history>>
------------------------------------------------------------------------------
(* copy_lesson, copy_namespace_lessons *)

FindForCopy(r, t) ==
  Start(r, [Request("copy", "files", {t}) EXCEPT !.to = t])

(* The files are copied first, whatever is there (ncp).  The lessons the   *)
(* source has are not asked for, nor those of the title.                   *)
CopyFiles(r) ==
  /\ At(r, {"copy"}, "files")
  /\ directory' = directory \cup {req[r].to}
  /\ Step(r, [req[r] EXCEPT !.step = "store"])
  /\ UNCHANGED <<state, title, listed, seen, history>>

StoreCopy(r) ==
  /\ At(r, {"copy"}, "store")
  /\ Stores(r, {req[r].to})
  /\ raced' = IF Titled(req[r].to) = {} THEN raced ELSE raced \cup {req[r].to}
  /\ UNCHANGED <<listed, directory, seen, rewritten>>

(* The lessons of another course, whose titles are T.  A title of a lesson *)
(* the course lists is replaced by one nobody has (with the time in it).   *)
FindForCopyAll(r, T) ==
  LET present == {title[l] : l \in listed \cap Stored}
      unused == Titles \ ({title[l] : l \in Stored} \cup T
                            \cup UNION {req[s].titles : s \in Requests})
  IN \E T2 \in SUBSET Titles :
       /\ T \ present \subseteq T2 /\ T2 \ (T \ present) \subseteq unused
       /\ Cardinality(T2) = Cardinality(T)
       /\ Start(r, [Request("copyAll", "store", T2) EXCEPT !.files = T2])

(* Lesson.insertMany()                                                     *)
InsertLessons(r) ==
  /\ At(r, {"copyAll"}, "store")
  /\ Stores(r, req[r].titles)
  /\ raced' = raced \cup {t \in req[r].titles : Titled(t) # {}}
  /\ UNCHANGED <<listed, directory, seen, rewritten>>
------------------------------------------------------------------------------
(* delete_lesson *)

(* Without a lesson of the title the request throws before it changes      *)
(* anything.                                                               *)
FindForDelete(r, t) ==
  \E l \in Titled(t) :
    Start(r, [Request("delete", "unlist", {t}) EXCEPT !.from = t, !.lessons = {l}])

(* Mutant: the lesson stays in the list. *)
UnlistNever(r) ==
  /\ At(r, {"delete"}, "unlist")
  /\ Step(r, [req[r] EXCEPT !.step = "files", !.lessons = {}])
  /\ UNCHANGED <<data, history>>

(* namespace.save() after pull                                             *)
Unlist(r) ==
  LET q == req[r] IN
  /\ At(r, {"delete"}, "unlist")
  /\ listed' = listed \ q.lessons
  /\ Saved(r, [q EXCEPT !.step = "files", !.lessons = {}])
  /\ UNCHANGED <<state, title, directory, seen, history>>

(* rmdir with its contents                                                 *)
RemoveFiles(r) ==
  /\ At(r, {"delete"}, "files")
  /\ directory' = directory \ {req[r].from}
  /\ Step(r, [req[r] EXCEPT !.step = "drop"])
  /\ UNCHANGED <<state, title, listed, seen, history>>

(* Lesson.deleteOne(): a lesson of the title, if there is one              *)
DropLesson(r) ==
  /\ At(r, {"delete"}, "drop")
  /\ IF Titled(req[r].from) = {}
     THEN UNCHANGED state
     ELSE \E l \in Titled(req[r].from) : state' = [state EXCEPT ![l] = "deleted"]
  /\ End(r)
  /\ UNCHANGED <<title, listed, directory, seen, history>>
------------------------------------------------------------------------------
(* update_lesson with a new title *)

FindForUpdate(r, t, new) ==
  /\ t # new
  /\ Start(r, [Request("update", "check", {t, new}) EXCEPT !.from = t, !.to = new])

(* Mutant: the new title is not looked up. *)
CheckTitleNever(r) ==
  /\ At(r, {"update"}, "check")
  /\ Step(r, [req[r] EXCEPT !.step = "lookup"])
  /\ UNCHANGED <<data, history>>

(* A title that a lesson has is refused.                                   *)
CheckTitle(r) ==
  /\ At(r, {"update"}, "check")
  /\ IF Titled(req[r].to) = {} THEN Step(r, [req[r] EXCEPT !.step = "lookup"]) ELSE End(r)
  /\ UNCHANGED <<data, history>>

LookupForUpdate(r) ==
  /\ At(r, {"update"}, "lookup")
  /\ IF Titled(req[r].from) = {}
     THEN End(r)
     ELSE \E l \in Titled(req[r].from) :
            Step(r, [req[r] EXCEPT !.step = "rename", !.lessons = {l}])
  /\ UNCHANGED <<data, history>>

(* lesson.save(), which fails when the lesson is gone                      *)
SaveTitle(r) ==
  LET q == req[r] IN
  /\ At(r, {"update"}, "rename")
  /\ IF q.lessons \subseteq Stored
     THEN /\ title' = [l \in Lessons |-> IF l \in q.lessons THEN q.to ELSE title[l]]
          /\ Step(r, [q EXCEPT !.step = "move", !.lessons = {}])
          /\ raced' = IF q.from \in raced THEN raced \cup {q.to} ELSE raced
     ELSE Fail(r) /\ UNCHANGED title
  /\ UNCHANGED <<state, listed, directory, seen, rewritten>>

(* Mutant: the files are copied. *)
MoveFilesKeeps(r) ==
  LET q == req[r] IN
  /\ At(r, {"update"}, "move")
  /\ IF q.from \in directory /\ q.to \notin directory
     THEN End(r) /\ directory' = directory \cup {q.to} /\ UNCHANGED raced
     ELSE Fail(r) /\ UNCHANGED directory
  /\ UNCHANGED <<state, title, listed, seen, rewritten>>

(* renameDirectory, which fails when there is nothing to rename, or the    *)
(* new title has a directory                                               *)
MoveFiles(r) ==
  LET q == req[r] IN
  /\ At(r, {"update"}, "move")
  /\ IF q.from \in directory /\ q.to \notin directory
     THEN End(r) /\ directory' = (directory \ {q.from}) \cup {q.to} /\ UNCHANGED raced
     ELSE Fail(r) /\ UNCHANGED directory
  /\ UNCHANGED <<state, title, listed, seen, rewritten>>
------------------------------------------------------------------------------
(* set_lesson_order, update_namespace, announcements *)

(* A client loads the list (get_namespaces).                               *)
Load ==
  /\ seen # listed
  /\ seen' = listed
  /\ UNCHANGED <<state, title, listed, directory, req, history>>

FindForOrder(r) ==
  Start(r, [Request("order", IF listed = {} THEN "collect" ELSE "list", {})
              EXCEPT !.lessons = listed, !.whole = seen])

CollectForOrder(r) ==
  /\ At(r, {"order"}, "collect")
  /\ Step(r, [req[r] EXCEPT !.step = "list", !.lessons = Stored])
  /\ UNCHANGED <<data, history>>

(* The client's list is taken if it is as long as the course's.            *)
SetOrder(r) ==
  LET q == req[r] IN
  /\ At(r, {"order"}, "list")
  /\ IF Cardinality(q.lessons) = Cardinality(q.whole) /\ ~q.stale
     THEN /\ listed' = q.whole
          /\ rewritten' = (rewritten \/ q.whole # listed)
          /\ Saved(r, NoRequest)
     ELSE End(r) /\ UNCHANGED <<listed, rewritten>>
  /\ UNCHANGED <<state, title, directory, seen, raced>>

(* update_namespace finds a course without lessons, and all lessons there  *)
(* are ...                                                                 *)
FindForFill(r) ==
  /\ listed = {}
  /\ Start(r, Request("fill", "collect", {}))

CollectForFill(r) ==
  /\ At(r, {"fill"}, "collect")
  /\ Step(r, [req[r] EXCEPT !.step = "list", !.whole = Stored])
  /\ UNCHANGED <<data, history>>

(* ... and writes them with its other changes, by updateOne, which neither *)
(* asks for the version nor changes it.                                    *)
FillList(r) ==
  /\ At(r, {"fill"}, "list")
  /\ listed' = req[r].whole
  /\ End(r)
  /\ UNCHANGED <<state, title, directory, seen, history>>

FindForAnnouncement(r) == Start(r, Request("announce", "list", {}))

SaveAnnouncement(r) ==
  /\ At(r, {"announce"}, "list")
  /\ IF req[r].stale THEN End(r) ELSE Saved(r, NoRequest)
  /\ UNCHANGED <<data, history>>
------------------------------------------------------------------------------
(* A call to the database or the file system fails.                        *)
RequestFails(r) ==
  /\ Busy(r)
  /\ Fail(r)
  /\ UNCHANGED <<data, rewritten>>

Next ==
  \/ \E r \in Requests, t \in Titles :
       FindForCreate(r, t) \/ FindForCopy(r, t) \/ FindForDelete(r, t) \/ PlaceFiles(r, t)
  \/ \E r \in Requests, t, new \in Titles : FindForUpdate(r, t, new)
  \/ \E r \in Requests, T \in SUBSET Titles \ {{}} : FindForCopyAll(r, T)
  \/ \E r \in Requests :
       \/ LookupForCreate(r) \/ StoreLesson(r)
       \/ Collect(r) \/ ListLessons(r)
       \/ CopyFiles(r) \/ StoreCopy(r) \/ InsertLessons(r)
       \/ Unlist(r) \/ RemoveFiles(r) \/ DropLesson(r)
       \/ CheckTitle(r) \/ LookupForUpdate(r) \/ SaveTitle(r) \/ MoveFiles(r)
       \/ FindForOrder(r) \/ CollectForOrder(r) \/ SetOrder(r)
       \/ FindForFill(r) \/ CollectForFill(r) \/ FillList(r)
       \/ FindForAnnouncement(r) \/ SaveAnnouncement(r)
       \/ RequestFails(r)
  \/ Load

Spec == Init /\ [][Next]_vars
------------------------------------------------------------------------------
TypeOK ==
  /\ state \in [Lessons -> {"new", "stored", "deleted"}]
  /\ title \in [Lessons -> Titles \cup {"none"}]
  /\ \A l \in Lessons : (title[l] = "none") <=> (state[l] = "new")
  /\ listed \cup seen \subseteq {l \in Lessons : state[l] # "new"}
  /\ directory \cup raced \subseteq Titles
  /\ req \in [Requests -> RequestState]
  /\ rewritten \in BOOLEAN

(* Nothing is promised of the lesson l: a request works on its title, or   *)
(* two did, or one failed with it.                                         *)
Excused(l) == rewritten \/ title[l] \in raced \/ InHand(title[l])

(* A lesson that is stored is listed by its course: otherwise no dashboard *)
(* shows it, and create_lesson finds it and does not list it either        *)
(* (lessons.js 173-185, 1375-1384, 1471-1484, namespaces.js 505-509).      *)
StoredAreListed == \A l \in Stored : Excused(l) \/ l \in listed

(* A lesson the course lists is stored, although other requests save the   *)
(* list at the same time (lessons.js 274-283, namespaces.js 764-773).      *)
ListedAreStored == \A l \in listed : Excused(l) \/ l \in Stored

(* No two lessons of a course share their title, by which requests find    *)
(* them (lessons.js 152-156, 379-386, 1462-1465).                          *)
TitlesAreUnique ==
  \A l, m \in Stored : l # m /\ title[l] = title[m] => title[l] \in raced

(* A stored lesson has its files, and a directory belongs to a lesson: one *)
(* that does not makes the deletion of the course fail and stands in the   *)
(* way of a renamed lesson (lessons.js 204, 277-283, 471-476, 1485-1507).  *)
FilesMatchLessons ==
  /\ \A l \in Stored : title[l] \in raced \/ InHand(title[l]) \/ title[l] \in directory
  /\ \A t \in directory : t \in raced \/ InHand(t) \/ Titled(t) # {}
==============================================================================
