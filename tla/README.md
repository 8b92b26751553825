# Specifications of isle-server

TLA+ modules of the stateful parts of the ISLE server: what they keep, what
each handler does to it, and what must stay true however requests, timers,
closing sockets, failing queries and restarts interleave. TLC checks the
modules on small instances; TLAPS proves some of the properties for instances
of any size. `PROJECT.json` maps every definition to the source lines it
stands for.

Node runs one callback at a time. An action is therefore what a callback does
between two `await`s; between them anything else may happen, and a query is
executed by the database at some moment between being sent and being answered.

## The system and its components

| Component | Source (`src/lib/`) | State | Interacts with | What is hard | Modelled in |
|---|---|---|---|---|---|
| Collaborative document store | `sockets/document/instance.js`, `text_editor_document.js` | `instances`, `instancesToSave`, `saveTimeout`, `instanceCount`, the stored documents | socket handler, timer, one HTTP request, database | overlapping loads and saves, eviction, crashes, failed updates | `DocumentStore`, `EditLog` |
| Document history | `instance.js`, `comments.js`, `cursors.js` | versions, steps, comment events | polling clients that keep versions | trimming, merging and reloading under clients with old versions | `DocumentHistory` |
| Editor presence | `instance.js`, `handler.js` | `users`, `userCount` of a document | rooms, document store | sockets closing during a load | `Presence` |
| Lesson rooms | `handler.js`, `room.js`, `member.js`, `open_rooms.js` | open rooms, members, sockets, owners, channels, groups, questions | every socket | lookups between 'join' and the room, many tabs, lost connections, clients that are told of changes only | `Rooms`, `Classroom` |
| Chats | `chat.js`, `room.js` | members, channels and backlog of chats | rooms | tabs that join and others that leave | `Chats`, `Classroom` |
| Event scheduler | `scheduler.js`, `events.js`, `create_events.js` | the collection of events | lessons, mail, statistics | overlapping ticks, saves nobody waits for, restarts | `Scheduler` |
| Lesson locks | `lessons.js` (update, activate, deactivate, delete) | `active`, `lockUntil`, `lockAfter` of a lesson and its events | scheduler | read-modify-write with several saves in between | `LessonLocks` |
| Cohorts and enrolment | `cohorts.js`, `utils/send_cohort_invitations.js` | members of a cohort, courses of a user | accounts, scheduler (mails) | several saves per request, in two collections, some not waited for | `Enrolment` |
| Courses | `namespaces.js`, `users.js` (sanitize) | owners of a course, courses of an owner, directories | users, lessons, mailer | two lists kept in several documents, saves nobody waits for, calls that fail | `Courses` |
| Lessons | `lessons.js`, `namespaces.js`, `announcements.js` | documents, the list of the course, directories by title | courses, file system | three places changed one after the other, a list that is pushed to and written whole | `Lessons` |
| Accounts, two-factor authentication | `users.js`, `login.js`, `saml.js`, `passport.js`, `two_factor_authentication.js` | user documents | all requests | documents read at authentication and saved later, the first registration | `Accounts` |
| Progress, grades, badges | `users.js`, `badges.js`, `badge_check/index.js` | counters and per-lesson objects of a user | clients, instructors | values computed from what was read, whole objects written | `Progress` |
| Others | roles, tickets, files, sticky notes, custom fields, settings, license, backups, mailer, wiring, validation, ProseMirror schema | | | see the end of this file | not modelled |

What makes each modelled component correct: an acknowledged edit is not lost
but by a named fault, and every edit is eventually written (store); a poll
that is answered returns exactly what the client lacks (history); the number of editors is
right (presence); a lesson has one room which serves everyone who is in it
and lists nobody else (rooms); a chat is heard inside its lesson only, with its whole backlog, and all
clients of a lesson show the same groups and questions (chats);
events are triggered once and the daily chain does not break (scheduler);
no cancelled lock strikes and no lock is forgotten (locks); who is enrolled in a
course and who is listed in its cohorts are the same people (enrolment); who is
an owner of a course has it among the own courses and the other way round
(courses); a lesson is stored, listed and has its files, or none of these
(lessons); one administrator comes of registration, and two-factor
authentication goes by the secret the user has confirmed (accounts); nothing
that was acknowledged is lost to a request of another kind (progress).

## Modules

`EditLog` is the abstract specification of the store: documents to which edits
are added, which only documents that were hit by a fault may lose.

`DocumentStore` has `getInstance` with its eviction (`GetCached`; or
`GetMissing`, `DbFind`, `GetLoaded`, or `FindFails`), `addEvents` as far as the store feels it,
`scheduleSaveToDatabase`, and `saveToDatabase` as a loop (`TimerFires` or
`HttpSave` start it, `UpdateDone` and `UpdateFails` are its turns). `Crash`
empties the memory. A document is the set of its edit messages. Details:

- Awaiting `getInstance` for a document in memory does not let another callback run
  that could be told apart, so `GetCached` is one action.
- Object keys are visited in any order; two uses within one millisecond are ordered.
- Whether a message is accepted or refused depends on positions in the
  document, so both are possible.
- The effect of an update and the next turn of the loop are one action; a
  crash may let an update in flight take effect.
- `instanceCount` drifts upwards when loads overlap; `MaxCount` bounds it.
- Ghost variables: `accepted` (what clients were promised), `faulted` (documents
  hit by an overlapping load or save, a failed update or a crash), `aborted`.

`DocumentHistory` is one document seen over its versions: `addSteps`
(`Instance.addEvents`) with trimming; `Save`, a copy with merged steps that is sent to
the database; and `Reload`, which takes any copy that was ever sent, or none, and
starts comment versions again. Any copy, because an update may have failed or been
overtaken by an older one, and the process may have died (`DocumentStore` says
when). A stored step is the interval of versions it stands for. A
poll changes nothing; `getEvents(v, cv)` is the answer to a client
with these versions, evaluated in every state for every version a client
of this load may hold. It may be that the history is lost, the steps and events, or
no answer at all: `eventsAfter` throws (`throws`) at the creation of a comment
that is gone, and `getEvents` with it. Comments go by being deleted, with the text they were on
(`gone` in `addSteps`), or in place of one that was deleted already (`deleted`);
`lost` records those that went without an event of their own. A message has one comment event
at most; cursors are left out.

`Rooms` has `Join`, `LookupFails` (the query for the user), `OnFind` (which makes a
room or joins one), `Leave` and `Disconnect`, with `leaveRooms` for what `Room.leave` does.
`OnFind` has two ways to learn whether the member is an owner: from the namespace
(`Verified`), or, when that query failed, from what the client said (`Unverified`);
`owner` keeps the answer. A room
made again after it was dropped is a new object of the same name. A socket is
one connection with one join. `late` records sockets whose join was completed after they had closed,
`creators` those whose join made a room, `unverified` those whose namespace could not be looked up.

`Chats` and `Presence` compose with `Rooms`: each action of `Rooms` that
touches a chat or a document is conjoined with what it does there
(`OnFindChats`, `LeaveChats`, `LeaveDocuments`, ...). `Chats` has one chat per
room; `Presence` one document, whose eviction is left unconstrained.

`Classroom` composes with `Chats` and adds what the clients of a lesson share:
groups, questions, the backlog of the chat, and what each client shows of them.
A client shows what it was last told: on joining (`Welcome`, `SendHistory`) and, through the channels
it is in by then, of every change (`SetGroups`, `SetQuestions`, `chatMessage`).
When a connection closes, its page is closed too (`ClosePage`), or goes on with another connection
of its user to the same lesson and shows there what it showed before (`Reconnect`), until it is told
otherwise (`oldGroups`, `oldQuestions`).
A message is in one backlog at a time and may be sent again when it has dropped out
of it; what clients show of messages no backlog has is not followed.

`Scheduler` has the collection of events with `checkEvents` and
`trigger_event` (`CheckEvents`, `TriggerEvent` take events up), the kinds of
`triggerEvent` that concern no lesson (`TriggerMail`, `TriggerStatistics` and
`SaveNextStatistics`), and the save of `done`, which is not awaited (`Finish`,
then `SaveDone` or `SaveDoneFails`). The save of the next event is awaited:
`SaveNextStatistics` is its effect on the database, `FinishSaved` what the call does when it has the
answer. Between them the call may fail or the process die, and both events stay open; `cut`
records the one that was carried out. Time is a flag `due`. A call that throws
drops what it has in hand (`CallFails`); where an unhandled rejection ends the
process, `Crash` follows. The count and the save of `create_events.js` are one
action; that all users are deleted again is not modelled.

`LessonLocks` composes with `Scheduler` for one lesson. It adds the events that
lock and unlock it (`FindLesson`; `SaveLesson`, the effect of the awaited save;
`LocksFinish`, when it is answered; a save writes the fields that
changed since the document was read, as mongoose does: `Changed`),
`update_lesson` as a list of steps that wait for the
database (`FindForUpdate`, `MarkEventDone`, `CreateEvent`, `SaveUpdate`), with
`UpdateFails` at any of them, and the requests that activate, deactivate and
delete a lesson. Populating the two events is one step with reading the lesson.
Two requests that work on the same lock at once can leave an event that no lesson refers to;
`raced` records it, and behaviours are followed up to that
point. Requests that work on different locks of the lesson do overlap.

`Enrolment` has `create_cohort`, `update_cohort`, `delete_cohort` and
`add_to_cohort` on one course, each as the reads and saves it consists of, and
`sendCohortInvitations`, which enrols users and makes accounts. A request keeps
what it has read (`known`, `read`) and the users it has still to save
(`todo`). A `user.save()` that takes a course out writes the whole array and
fails when another has saved since (`stale`, mongoose's version check);
one that adds a course uses `$addToSet` and succeeds. The saves of
`delete_cohort` are not waited for, so the removal of the cohort may come
before, between or after them. `RequestFails` ends a request anywhere.
Three histories name the users of whom nothing is promised: `disturbed` (a request
that worked on the user failed, or two requests conflicted, one of which takes users
out of a cohort), `shared` (taken out of one cohort while listed in another:
the code then takes the course away), `refused` (on a list with unknown
addresses while no mailer is configured: `create_cohort` lists the known ones without
enrolling them, `update_cohort` stops after it has taken the members out).
Requests that only add users never conflict.

`Courses` has `create_namespace`, `update_namespace`, `delete_namespace` and
`sanitize_user` as the queries and saves they consist of. A request keeps what
it has read (`known`, `read`), the users it has still to save (`todo`) and the
saves that are under way without being waited for (`sent`). Adding a course to
a user is `$addToSet`; taking it out writes the list as it was read. Two
histories name the exceptions: `disturbed`, users a failed request or two
conflicting ones worked on, and `stranded`, those taken out for a list of
owners none of whom has an account (`update_namespace` throws after the old owners have
lost the course and before the course is changed).

`Lessons` follows one course: the documents of its lessons, its list, and the
directories, through `create_lesson`, `copy_lesson`, `copy_namespace_lessons`,
`delete_lesson`, the renaming by `update_lesson`, `set_lesson_order`, the list
that `update_namespace` fills in, and announcements, which are arrays of the same
document. Lists are changed by `$push` and `$pullAll`, which always
succeed, or written whole, which fails when the course has a new version.
`raced` names titles that two requests worked on at once or one failed with;
`rewritten` says that the list was written whole from data out of date.

`Accounts` has registration (by password, SAML or invitation), completion,
confirmation, reset, updates by the user and by administrators, deletion, and the three
requests of two-factor authentication. Each reads a document and later saves
the fields it has changed (`Changed`, `Written`), as mongoose does. `crowded`
says that two registrations overlapped when there were no accounts, so that both
become administrators (`users.js` counts long before it inserts); `entangled`
names accounts whose two-factor authentication, or completion, two overlapping
requests decided, or an administrator. A disable that overlaps an enable may leave
authentication on without a secret, and a link of an e-mail that is used twice at once
completes a registration twice.

`Progress` has one user and the requests that add to its work: sessions,
adjusted progress, grades, messages about grades, badges. Each computes whole
objects from the user as read and sets them. `entangled` holds the pairs of
kinds of requests that overlapped on the same fields.

## Runs

| Run | Checks | Shows |
|---|---|---|
| `MCDocumentStore` | `TypeOK`, `CountCoversCache`, `PendingSaveIsKept`, `NoSilentLoss`, `ImplementsEditLog` | safety of the store and the refinement |
| `MCDocumentStoreOneRun` | `NeverAborts`, `PendingEventuallySaved` | without overlapping save runs none throws, and everything pending is written or its failure reported |
| `MCDocumentHistory` | `HistoryIsTail`, `CommentEventsAligned`, `RecentPollIsExact` | what is kept is the tail of the history, and recent clients get what they lack or, in the named case, no answer |
| `MCClassroom` | `PresentIsServed`, `MembersMatchSockets`, `GhostsAreLate`, `ChatMembersAreInRoom`, `ChatStaysInRoom`, `ClientsAgree`, `ListenersHaveBacklog` | rooms, chats and what clients show, together |
| `MCPresence` | `OwnersAreReached`, `CountMatchesActive`, `ActiveUnlessLate` | who hears what is meant for instructors, when a query may fail; the number of editors |
| `MCScheduler` | `StatisticsGoOn`, `TriggeredOnce` | the chain of statistics and repeated triggering, when calls overlap and are cut off |
| `MCLessonLocks` | `LocksArePending`, `LockedIsInactive` | locks under overlapping requests and ticks |
| `MCEnrolment` | `EnrolledAreMembers`, `MembersAreEnrolled` | enrolment and membership agree when requests overlap and fail |
| `MCCourses` | `OwnersHaveCourse`, `OwnedAreOwners`, `AlwaysOwned`, `NoLeftoverDirectory` | the two lists of ownership agree but for named causes; a course has owners and leaves no directory |
| `MCLessons` | `StoredAreListed`, `ListedAreStored`, `TitlesAreUnique`, `FilesMatchLessons` | documents, list and directories of lessons agree, titles are unique |
| `MCAccounts` | `OneFirstAdministrator`, `EnabledSecretIsConfirmed`, `CompletedOnce` | what registration and two-factor authentication promise under overlapping requests |
| `MCProgress` | `TotalIsSum`, `RecordsAreKept`, `OnlyAdjustmentsLower` | requests of different kinds do not lose each other's records |

Every module has a type invariant. All hold on the instances above; of them only the
one of the document store is named in a configuration, beside the properties
about more than one piece of state, and those of the store, the rooms, the chats,
the enrolment, the courses and the accounts are part of what is proved.

### Bounds

The faults the modules speak of need two of each actor: two requests that load
one document, two save runs, two tabs of a user beside another user, two calls of
the scheduler, two updates. The instances have that many.
`MCDocumentStore` has two documents and a limit of one, so that evictions happen and
choose. `MCDocumentHistory` keeps three steps of four, so that trimming and
merging meet, has one saved copy beside the empty document, so that a reload may go back, two comments and
three events, so that a client may lack the creation of a comment that is gone, and
reloads twice. `MCClassroom` has two lessons and two
generations of rooms, and a backlog of one message of two, so that messages are dropped; all queries for the
namespace succeed there (`MaxFailed`), since none of its properties says who is an owner, and the theorems
about them hold for any number of failures. `MCPresence`
has one lesson in which one of them may fail, and loads the document three times. Both have three
connections: one that closes, the one its page goes on with, and a witness. Three events are enough for a statistics
event, its successor and a mail; the locks need an old event, a
new one and one of the other kind. `MCEnrolment` has two users, two cohorts and two requests:
a user in both cohorts, two requests on one cohort, and a list of which one
address is new. Its constraint `SomeUndisturbed` follows a
behaviour until every user is disturbed, after which the invariants say nothing;
`MCCourses`, with two users, two courses and two requests, has the same.
`MCLessons` has three lessons of two titles, so that a title is used again, and
ends when both titles are raced or the list is rewritten. `MCAccounts` has two accounts,
so that one of them may administrate the other, two secrets, an old and a new
one, and ends when a matter is entangled or registrations crowded. `MCProgress`
has two lessons, a sum of two parts, and progress up to 2; it follows behaviours
past overlapping sessions, which overwrite each other and must still keep the total, and ends
at other overlaps. One crash is enough for every promise that
is about the state after a crash. Symmetry is declared for identities that are only compared, never in
the run with a liveness property.

`CHECK_DEADLOCK FALSE` is set where the model may come to rest: all
sockets closed, all events done.

### Fairness

Only `DocumentStore` has a liveness property. `FairSpec` assumes that a timer
that is due fires (the event loop) and that an update that was sent is
answered, successfully or not (the database driver has timeouts). Requests are
not assumed to come.

## Proofs

Each theorem is about every value of the constants: any number of sockets,
users, documents, events, requests and so on. Each rests on an inductive
invariant, since the property alone says too little of what is still in
progress: of copies in flight, of what a request has read, of events in hand.
TLC has checked these invariants on the instances of the runs.

- `DocumentStoreProofs`: `TypeCorrect`, `CountCorrect`, `PendingCorrect`,
  `LossCorrect`, `Refinement`. The inductive invariant is `IInv`, the
  conjunction of `TypeOK`, `CountCoversCache`, `TimerInv` and `LossInv`.
  `NoSilentLoss` alone is not inductive: it says what is visible of a document
  and nothing of a copy that is in flight or was read by a request. `Intact`
  says that a document no fault has hit has one writer and one loader at
  most, and that each copy of it agrees with what was accepted. The timer part ties
  `saveTimeout` to a timer that is armed. The refinement maps a document to
  `Visible(d)`; each step adds an edit or leaves the log unchanged.
  `OneRunNeverAborts` says under which condition no run throws: if none begins before the
  one before it has ended (`OneRun`: one call of `saveToDatabase` at a time). Then what a run still has to visit is
  pending, and so in memory (`QueueInv`); with overlapping runs it is not.
  It also holds the proofs about `DocumentHistory`: `TailCorrect`,
  `CommentEventsCorrect` and `PollCorrect`, from `HistoryInv`. Its parts are that every copy that was sent
  is a tail of its own version, so that loading it gives one again (`GoodCopy`), and that the
  comments there are, the events and `lost` account for each other (`CommentsInv`),
  which says when `eventsAfter` throws. `RecentPollIsExact` speaks of
  what a poll takes from the steps; `Fresh` says why it does: the steps made
  since the document was loaded are kept one by one, or as many as fit, each at the
  place its number has from the end. That merging credits no step to another client is an
  induction along a run of neighbouring steps (`RunsOfOneClient`).
- `ClassroomProofs`, about the rooms: `ServedCorrect`, `MembersCorrect`, `GhostsCorrect`, from
  `RoomsInv`, which adds to the three that a socket is listed in its current
  room only; and `OwnersCorrect` (`OwnersAreReached`), from `OwnersInv`, which adds that
  only an owner has the flag, unless his namespace could not be looked up, and that only sockets that have
  joined are in the channel.
  On what is built on the rooms: every step of a classroom is a step of the chats, and
  every step of the chats one of the rooms (`ClassroomImplementsChats`,
  `ChatsImplementRooms`), so that what holds of the rooms holds there. On top
  of it `ChatMembersCorrect` and `ChatStaysCorrect` need that the rooms made so far are
  counted, and that the chat of a room still to be made is empty (`MadeInv`, `FreshChats`):
  else a new room could find members in its chat; and that each socket listens on the side of its flag (`ChatSides`).
  `ClientsCorrect` and
  `BacklogCorrect` (`ClassroomInv`) need that a room that is not open keeps nothing and a client
  in no lesson shows nothing but what its page showed before (`Blank`), since nobody is told that there are no groups,
  and that a message is in one backlog at most (`ApartBacklogs`).
  It also holds the proofs about `Presence`, built on the rooms too: `CountCorrect`,
  since registering and removing keep the count of
  any set of active users, by the cardinality of a set with one element more
  or less; and `ActiveCorrect` (`ActiveUnlessLate`), which needs that a room that was dropped lists no
  sockets (`ClosedRoomsAreEmpty`), so that whoever leaves its document was its last tab.
- `SchedulerProofs`: `StatisticsCorrect`. The open event of the chain must not
  be among those about to be marked as done, and what is in hand or
  being saved exists, so that a new event is none of them (`ChainInv`).
  `TriggeredOnceCorrect`: as long as no event was taken up twice, an event is in one
  hand, and what is in hand is not yet settled; what was mailed is
  about to be marked as done or is (`Once`); what a call has carried out, or was cut off from marking as done,
  is beside the chain until it is taken up again.
  `LocksPending` and `LockedInactive` are about `LessonLocks`, from `CalmInv`, which holds until the
  first race while the lesson exists. It says, per request and field, which event is to be
  the lock by what the request has still to do (`Phase`): the old
  one until it is marked as done, none until the new one is created,
  then the one that the request will write; that two requests at work have no
  field in common; that an event in hand is the lesson's lock and no
  request works on it (`Striking`), and that the save that carries
  it out takes it from the lesson (`Strikes`).
- `EnrolmentProofs`: `EnrolledMembers` (that is, `EnrolledAreMembers`) and `EnrolmentTypes`.
  The invariant says per request what its
  remaining work is for (`Local`), that no two requests create the same cohort
  (`CreatesOne`), that two requests of which one removes share no undisturbed
  user, and if they work on the same cohort have none at all (`Exclusive`), and that an undisturbed user who is enrolled is a member
  of a cohort that exists or on the way in or out by a request (`Covered`).
  `MembersEnrolled` (`MembersAreEnrolled`) adds what a request
  has come to with each user of whom something is promised (`Phases`), and
  that a member who is not enrolled is awaited by a request (`Owed`).
- `CoursesProofs`: `CoursesOwned`, `DirectoriesGone`, `CourseTypes`. That a
  course has an owner needs that a request about to list owners has found an
  account of one of them (`Stage`); that no directory is left over needs that a
  course that is being created has none yet and one that is about to be dropped
  has none any more (`Known`), and that nobody else creates or drops a course while
  a request creates it (`Alone`). `OwnersCorrect` and `OwnedCorrect`, the two lists of
  ownership, rest on `Tidy`: two requests on one undisturbed user both create, and different
  courses (`Apart`); a request on a course works on all its owners but
  disturbed ones (`Covered`); what it has read and has still to
  save says whether the user has the course (`Phases`), and where no request works the two lists
  agree (`Agreed`).
- `LessonsProofs`: `StoredCorrect`, `ListedCorrect`, `TitlesCorrect`,
  `FilesCorrect`. The properties excuse titles that a request has in hand, and so say
  nothing of where it leaves them. The invariant says it: a title in nobody's hand is settled
  (`FreeSettled`: it has a directory if and only if a lesson has it, and the lesson is listed), one
  in hand is as far as the request's step implies (`Phase`), two requests share
  only titles that raced (`Apart`), the lessons a request has found still have
  its title (`Held`), and while the list was not rewritten no request undoes
  another's change of it, and a list made from all lessons holds stored ones only (`ListInv`).
  One lemma, `StepKeeps`, says what a step may do to titles, lessons and list; each
  action has one that shows it does no more. Two of them, `TitlesCorrect` and `FilesCorrect`, go beyond
  the run: it ends when the list is rewritten, the theorems do not.
- `AccountsProofs`: `OneFirstCorrect`, `EnabledSecretCorrect`,
  `CompletedOnceCorrect`. Of the requests about an account that is not
  entangled one at most decides its two-factor authentication, and one
  its completion (`OneDecides`), so that what it has read
  when it began still stands when it saves (`StillStands`), although others save
  other fields meanwhile. A registration that will make an administrator is
  the only one at work (`FirstIsAlone`).
- `ProgressProofs`: `SumCorrect`, `RecordsCorrect` and the action property `LoweredCorrect`.
  What a request will write was computed from the user as it was read, so the invariant
  says what these values still have in common with the user and with
  what was acknowledged since (`SumReq`, `TimeReq`, `RaiseReq`, ...); that this
  survives the other requests needs that two requests in progress that write the same
  fields are known to overlap (`Overlaps`). The sum over the lessons is the fold
  of the community modules: `TableExists` shows by induction on the size of a set that its
  recursive definition has a solution, and `SumOfOneMore` what one more
  session adds to it.

The proofs use the assumptions on the constants that the modules name
(finite sets, natural limits) and no others. Three say that the value `"none"`,
which stands for `null`, is not a secret (secrets are base32 strings of a
fixed length), nor the identity of a course, nor the title of a lesson.

Only model-checked: liveness (`PendingEventuallySaved`), which is out of the prover's reach.
The proofs that need an induction over numbers derive it (`SetInduction`) from
the existence of minimal elements in a well-founded relation (`WFMin`), since the
induction theorems of the library take operators, which no
installed prover can instantiate.

## Where the code and what it says of itself part

Met while modelling; the modules follow the code.

- `instance.js:209,220`: when the client's
  version is older than what is kept, the index is negative and counts from the
  end of the array. The answer that the history is lost needs both the steps and the
  comment events to be gone, and the cursors to be current (`instance.js:212-218`); for
  a client of this load the index of comment events is never negative.
  `RecentPollIsExact` is about clients with recent versions.
- `comments.js:82-88,106-112`: `index` answers `undefined` for a comment that is gone, and the test is for
  `null`. `eventsAfter` then throws, and the poll, steps included, has no answer; it has none
  either when the client asks again, until the document is loaded anew (`throws`, `CommentEventsAligned`).
- `comments.js:90-93`: for the same reason, deleting a comment that is gone removes the first one there
  is, under the name of the other (`deleted`).
- `handler.js:74-88`: when the query for the namespace fails, the error is logged and the member is an
  owner if the client has said so; an owner whose client has not is none (`Unverified`).
- `room.js:49` joins the first owner to `this.name + ':owners'` before `room.js:53` gives `this.name` a
  value, that is, to `undefined:owners`. According to `room.js:374` actions go "to all logged-in instructors
  of the room"; the instructor whose join made the room has none of them on that connection. `OwnersAreReached`
  says that it is just these (`creators`).
- `room.js:269,306`: who joins is told of groups and questions there are, and not that there are none. A page
  that lost its connection while they were removed goes on showing them when it has joined again
  (`Reconnect`, `ClientsAgree`).
- `handler.js:86`: a connection that is lost during the lookups of its join
  becomes a member of the room all the same, and for good (`late` in `Rooms`,
  `GhostsAreLate`).
- `handler.js:336`: a room whose last member lost the connection stays open, with
  its groups, questions and messages, for whoever joins next; one whose last member left
  (`handler.js:304`) is dropped with them.
- `chat.js:135,152` take whoever leaves a chat, and the members of one that is
  closed, out of its channel, but not out of the channels `:users` and `:owners` that
  messages are sent to: the clients go on listening (`leaveChat` in `Chats`).
- `chat.js:189` obscures the sender if `msg & msg.anonymous`, which is 0 for an
  object: nothing is obscured, although `chat.js:187` says that it should be. The two
  channels of a chat therefore carry the same messages, and `ChatStaysInRoom` promises nothing of anonymity.
- `scheduler.js:169,174` (and 59, 70): a call that fails, or a process that dies, after the database has saved what an
  event does and before the event is marked as done leaves it open: a second statistics event beside the first, or an
  event of a lock the lesson does not have any more (`cut`). Taken up again, the first makes a second chain.
- `scheduler.js:104`: the statistics event that finds no user has no successor, and a restart
  makes none once there are users (`lapsed`).
- `sticky_notes.js:267,343` compare two object ids by identity, so that
  only owners of the course change or delete a note.
- `roles.js:366,439,508` have no slash before their paths, so that no request reaches
  them, and nothing requires `helpers/check_permissions.js`.
- `custom_fields.js:224` throws for the last field, which has no other to change places
  with.

## Not modelled, and why

Positions inside documents, ProseMirror's schema and the compression of steps
are data the properties do not tell apart. Cursors are
kept in memory for those in the document and decide nothing else that is modelled.

Single documents on which nothing else depends, inserted, changed by one query
or deleted: tickets (whose messages are written whole under mongoose's
version check, so that one of two overlapping messages is refused), files, whose
document goes by the path, sticky notes, sketchpads, session data, custom
fields, and roles, which no check reads. Requests that read and change nothing. Settings and branding
are an object in memory, written to a file that is read at
the next start; backups, the license and mails are calls of other programs.

Two abstractions are worth knowing: `Courses` and `Enrolment` do not delete
accounts, after which a list may refer to nobody; and the cohorts that
`delete_namespace` leaves behind, and the renaming of a course, are in neither.
