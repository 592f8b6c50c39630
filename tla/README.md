# Formal models of Naseeb

Naseeb is a college-admissions workspace: a Django backend (`src/backend`) and a React client
(`src/frontend`) for students, counselors, their assistants and parents.  This directory holds
TLA+ models of its protocols, the TLC runs that check them on small instances, and TLAPS proofs
of theorems about them.

Contents

1. [The system](#1-the-system): its parts and how they interact
2. [What is modelled](#2-what-is-modelled): five protocols and how they map to the code
3. [The runs](#3-the-runs), their bounds and the fairness they assume
4. [The proofs](#4-the-proofs)
5. [What the models say about the code](#5-what-the-models-say-about-the-code): four
   disagreements, and smaller ones
6. [What is not modelled, and why](#6-what-is-not-modelled-and-why)
7. [What would come next](#7-what-would-come-next)

| protocol | model | instances | proofs |
|---|---|---|---|
| essay autosave | `EssayDoc`, `SaveQueue`, `EssayAutosave` | `MCEssayAutosave` | `SaveQueueTheorems`, `EssayAutosaveTheorems`, `EssayDraftTheorems` |
| sign-in session shared by tabs | `AuthSession` | `MCAuthSession` | `AuthSessionTheorems`, `AuthLockTheorems` |
| meetings and published times | `Bookings`, implements `Calendar` | `MCBookings` | `BookingsTheorems` |
| invites, seats and moves | `Enrollment` | `MCEnrollment` | `EnrollmentTheorems` |
| reviews, approvals and XP | `Reviews` | `MCReviews` | `ReviewsTheorems` |

How to run (inside `tla/`; a run's configuration names its module):

    tlc -workers 2 -config MCEssayAutosave_marks.cfg MCEssayAutosave
    tlc -workers 2 -config MCAuthSession_tabs.cfg MCAuthSession
    tlc -workers 2 -config MCBookings_calendar.cfg MCBookings
    tlc -workers 2 -config MCEnrollment_seats.cfg MCEnrollment
    tlc -workers 2 -config MCReviews_approvals.cfg MCReviews
    tlapm EnrollmentTheorems.tla      # and the other *Theorems modules

`PROJECT.json` lists the same facts for tools: components, runs, the map from definitions to
source lines, a mutant of the code for each property, the findings, the hazards and the
theorems.

---------------------------------------------------------------------------

## 1. The system

Paths below are relative to `src/`; `essay_lab/` is `backend/apps/admissions/essay_lab/` and
`essayLab/` is `frontend/src/essayLab/`.

### Essay lab (modelled)

| part | state | operations | talks to |
|---|---|---|---|
| **Save queue** `essayLab/saveQueue.js`, one per open tab | `seq`, `base`, `dirty`, `followUp`, `inFlight`, `pendingRetry`, `conflict`, `expired`, `status`, three timers; the draft in local storage | `change`, `flush`, `retryNow`, `hide`, `keepMine`, `adopt`, `acceptServer`, `close`/`reopen`, `forget`, `discard`, `flushAndWait`; the callbacks `succeeded` and `failed` | the autosave endpoint; the editor's `getSnapshot` |
| **Block operations and merge** `essayLab/docMerge.js`, `docDelta.js`, `essay_lab/doc.py` | none (pure) | diff, apply, hash, three-way merge | both sides of a save |
| **Tab session and editor** `essayLab/sessions.js`, `Editor.jsx`, `editorMerge.js` | the open document, `unsynced` (a draft to decide about), the poll under way | open, reconcile the draft, conflict effect, keep mine / load latest, absorb remote changes | save queue, changes endpoint |
| **Autosave endpoint** `essay_lab/views.py` | `EssayTab.doc`, `save_seq`, `last_client_save_id` | `autosave`, checkpoints and their restore, tabs, trash | every writer of a tab |
| **Collaboration** `essay_lab/collab_views.py`, `collab.py`, `writes.py` | threads, suggestions, `collab_seq` | comment, suggest, decide; `changes` | writes the tab's text through `write_doc` |
| **Coach** `essay_lab/coach.py`, `views.py` | checkpoints, daily limit | depth check around an AI call | reads the tab outside the lock |
| **Sharing** `essay_lab/access.py`, `tabs.py`, `essayLab/sharing.js` | who may read or write, order of tabs | share, unshare, reorder | every essay view |

What makes it hard: a save is answered seconds later or never, while the student types on; a
request that timed out may still be stored; the retry carries the same id; counselors and the
student's other device write the same row; polls race with saves; the page can die at any moment
and come back with a draft. Correct means: nothing typed is lost without the student being told,
"Saved" is true, nobody's work is overwritten unseen, and text does reach the server.

### Accounts and sessions

| part | state | operations | hard part | model |
|---|---|---|---|---|
| **Browser session** `frontend/src/authTokens.js`, `sessionKeys.js`, `api.js`, `App.jsx` | access token in memory; sign-in id and refresh counter in local storage | refresh (with or without Web Locks), sign in, change password, sign out, reload | two tabs share one refresh cookie; a late answer after sign-out | `AuthSession` |
| **Server session** `backend/apps/users/auth_views.py`, `auth_cookies.py`, `authentication.py` | outstanding and blacklisted tokens, revoked session ids, password version | rotate, log out, change the password | a refresh between the check and the revocation | `AuthSession` |
| **Invites and seats** `backend/apps/admissions/invites.py`, `users/entitlements.py` | invites, pending students, plan seats | invite, revoke, accept, confirm, reject, create | single-use claim; a cap counted under one lock and changed under another | `Enrollment` |
| **Tenancy** `admissions/tenancy.py`, `views/students.py`, `users/views.py` | school and counselor of a student, in the account and in the profile | move, deactivate, reactivate, assign, transfer, edit | moves against editors that save whole rows; two lock orders | `Enrollment` |
| **Assistants** `admissions/assistants.py` | assistant accounts, assigned students | invite, assign, deactivate | assignment against deactivation | none |
| **Parent portal** `admissions/views/parents.py` | parent links and invites | invite, accept, unlink | the claim pattern of the student invites | none |

### Work, meetings, messages and limits

| part | state | operations | hard part | model |
|---|---|---|---|---|
| **Meetings** `admissions/views/portal.py`, `meetings.py` | published times, meetings | publish, repeat, move and delete a time; claim, book, decide, reschedule, delete a meeting | validation before the lock, deletion without one | `Bookings` |
| **Roadmaps, reviews, XP** `admissions/services.py`, `views/roadmaps.py`, `views/records.py`, `views/common.py` | status of missions, tasks and applications; XP transactions, total and level | edit, submit, decide, send back, approve | a PATCH validated before an approval and saved after it; XP exactly once | `Reviews` |
| **Budgets, throttles, caches** `admissions/ai_budget.py`, `users/throttles.py`, `users/cache_safety.py`, `admissions/progress_cache.py` | counters and versions in the cache | count first and give back; read through | a counter seen full for a moment; values cached under a version that moved | none |
| **Scheduled jobs** `core/jobs.py` | an advisory lock | idempotent batches | two schedulers | none |
| **Messaging** `admissions/views/messaging.py`, `frontend/src/lib/messageHistory.js`, `poller.js` | messages by id | send, poll by last id | ids commit out of order | none |
| **Client lists** `frontend/src/lib/latestRequest.js`, `pagedList.js` | newest request, pages | load, filter, more | a late answer to an older request | none |
| **Client queues** `frontend/src/screenTimeQueue.js`, `dashboardLayoutSync.js` | seconds or layouts not yet sent | add, upload | what arrives during an upload; a lost answer | none |

Catalog, college search, CV and the pages themselves hold no protocol state.

**How the parts interact.**  Every request of a signed-in tab carries the session's access
token, so a refresh can be wanted at any moment by any tab.  A student enters through an invite
or an account created by staff; confirming takes a seat of the plan, moving takes one in the
other school.  On the server the parts meet in rows and their locks: `StudentProfile` is written
by enrollment, by forms and by awards of XP, `User` rows are locked both as accounts and as the
calendars of staff.  Each model keeps the rows its protocol decides about.  The other writers of
those rows that the code has (account editors in `Enrollment`, forms in `Reviews`) are actions
in it.

---------------------------------------------------------------------------

## 2. What is modelled

### Essay autosave

Three modules, each building on the one before:

    EssayDoc          documents, ops v2, three-way merge      (docMerge.js, doc.py)
      SaveQueue       the queue's functions as operators      (saveQueue.js)
        EssayAutosave the protocol: client, network, server   (sessions.js, Editor.jsx, views.py, ...)
          MCEssayAutosave             instances for TLC
          EssayAutosaveTheorems       proofs (with SaveQueueTheorems)
            EssayDraftTheorems        proofs about the draft

#### EssayDoc

A document is a function from blocks (`bid`) to sets of pieces: typed text, feedback marks, text
from elsewhere.  `Changed`, `OpConflicts` and `ApplyOps` are ops v2 as `diffBlocksV2` builds
them and `apply_ops_v2` applies them; `MergeConflicts` and `MergeBlocks` are the client's merge,
in which a mark is transplanted into a rewritten block unless its range is gone (the free
parameter `dropped`).  A block's hash is the block: equal hashes mean equal blocks.

#### SaveQueue

A queue is a record with the fields of the closure in `createSaveQueue`; each function the
handle or a callback runs without yielding is one operator.  An operator covers the whole call:
`SettleClean` writes the draft, sets the status and flushes or arms the timer, as the code does.

| operator | code | operator | code |
|---|---|---|---|
| `Change` | `change` | `SettleClean`, `Landed`, `AckedBase` | `succeeded` |
| `Flush`, `SendSnapshot`, `MakePayload` | `flush` | `Resync`, `Conflicted`, `Unauthorized`, `Unreachable`, `Rejected` | the branches of `failed` |
| `RetryNow`, `Resend` | `retryNow` | `KeepMine`, `Adopt`, `AcceptServer` | the same names |
| `Hide` | `hide` | `WriteDraftNow`, `ScheduleSync` | the same names |

A timer is a flag: armed or not.  An armed timer may fire at any moment, so every delay
(debounce, throttle, backoff) is covered and no property depends on one.

#### EssayAutosave

| variable | stands for |
|---|---|
| `tab`, `versions` | the `EssayTab` row, and (history) the text stored as each `save_seq` |
| `queue`, `editor`, `unsynced`, `page` | the open tab on this device |
| `sent`, `reply`, `poll` | the queue's request, its answer and a poll's answer, on the wire |
| `late` | an abandoned request the server may still process |
| `seen`, `skipped` | history: foreign pieces this client has shown or merged; a replay answer named a version the client never got |
| `edits`, `crashes` | bounded counters |

*Server* actions are transactions.  Every writer of a tab locks the essay row and then the tab
row before it reads the tab, so one action per request is what the locks give.  `AutosaveSent`
and `AutosaveLate` run the same endpoint (`Autosave`, `AutosaveAnswer`): replay by id, stale
`base_seq`, delta whose result is not the client's document (`resync`), block hash mismatch
(`block_conflict`), merge onto a newer version, unchanged text, store.  `CounselorMarks`,
`OtherDeviceSaves` and `OtherDeviceRestores` are the other writers: what they do to
`last_client_save_id` differs, and matters for replays.

*Client* actions are JavaScript callbacks.  `Edit`, `FlushNow`, `HidePage`, `RetryByHand`,
`KeepMineOnConflict`, `LoadLatest`, `KeepLocalDraft` and `DiscardLocalDraft` are the student;
`SyncTimer`, `DraftTimer`, `RetryTimer` the timers; `ReceiveReply` the answer; `ConflictEffect`
the React effect that runs after a 409, later than the answer and after anything the student
typed in between; `PollChanges` and `AbsorbRemote` the changes poll, with every interleaving
between its request and its answer.

*Failures*: `LoseRequest` (request or answer lost, timeout, 5xx; the lost request may survive as
`late`), `RefuseRequest` (401 or another 4xx), `Crash` (the page dies; only the draft survives)
and `Open` (reconcile the draft: discard, send or ask).

#### Abstractions

* The tab's blocks are fixed: inserting, deleting and moving blocks, and v1 ops, are left out.
  Everything the protocol decides, it decides per block.
* A block's text is a set of pieces; an edit adds or removes a piece.  The student cannot delete
  a feedback mark; other people's text disappears from a block only through saves, merges and
  restores, which is what `NoBlindOverwrite` is about.
* At most one abandoned request is alive at a time, and ids are recycled so that `NewId` never
  equals one that is still alive (the code's are random UUIDs).
* Validation may rewrite a stored document (`Rewrites`): the client then sees a hash that is not
  its own, and the model keeps the text.
* Local storage never fails; `closed`, `forgotten` and the waiters of `flushAndWait` are left
  out.

### AuthSession

Tabs of one browser profile share the refresh cookie, the sign-in hint in local storage and the
Web Lock; each keeps its access token in memory and may have one refresh, one sign-out and one
sign-in (or password change) under way.

| variable | stands for |
|---|---|
| `issued`, `revoked`, `spent`, `changed` | server: tokens of each session, revoked sessions, blacklisted tokens, sessions opened by a password change |
| `late` | requests the browser gave up on and the server may still serve |
| `cookie`, `hint`, `lastId`, `holder` | browser: the cookie, `SESSION_HINT_KEY`, sign-in ids drawn, the tab that holds `AUTH_LOCK` |
| `access`, `ended`, `user` | per tab: the token, `endedHere`, whether a signed-in user is shown |
| `signals`, `mail` | per tab: storage events and shared access tokens not yet handled |
| `ref`, `out`, `inn` | per tab: `createRefresher`'s run, the sign-out, the sign-in |
| `wire` | per tab and kind of request: sent, checked, answered, landed or lost |
| `setting`, `calls`, `faults` | which instance this behaviour is, two bounded counters |
| `opened` | per tab, history: the sign-ins it kept the tokens of, each with its session and its sign-in id |

A refresh token is `<<s, n>>`, the n-th of the server's session `s`; the access token that came
with it carries the same pair.  *Server*: `CheckRefresh` and `IssueRefresh` are the two halves
of `SafeTokenRefreshSerializer.validate`, so a logout fits in between; `ServeLogout`,
`ServeSignIn`, and `ServeLate` for requests nobody waits for.  The cookie changes when the
answer reaches the browser (`Land`), the tab's code runs later (`RefreshAnswer`,
`SignOutAnswer`, `SignInAnswer`). *Refresher*: `RefreshCall`, `RefreshStart` (alone or under the
lock), `RefreshHanded` (another tab's token was adopted while waiting), `RefreshLook` and
`RefreshAgain` (settle, then the second try). *Sign-out*: `UserSignOut` or `SessionRefused`,
`SignOutQueue`, `SignOutSend`, `SignOutAnswer`, `RetrySignOut`, `ForgetSession`, and
`HandleSignal` in the other tabs.  *Faults*: `Fail` (5xx, 429), `TimeOut`, `Reload`.

Abstractions: an access token does not expire by itself, since a refresh may be wanted at any
moment; other API requests are only the reason for a refresh; the essay sync before a sign-out
is left out.

### Bookings and Calendar

Times count quarters of an hour.  A request of `BookingViewSet` that takes the per-staff lock
runs in three steps with every other request in between:

| step | actions | code |
|---|---|---|
| it is validated, without a lock | `BeginClaim`, `BeginBook`, `BeginPublish`, `BeginRepeat`, `BeginMoveSlot`, `BeginMove` | serializers, first lines of the views |
| it takes its locks and checks again | `EnterClaim` ... `EnterMove`; a reschedule locks its meeting first (`LockMove`) | `select_for_update`, `overlapping`, `clashes` |
| it writes and commits | `SaveClaim` ... `SaveMove` | `serializer.save`, `save`, `create` |

`Approve`, `Reject`, `Complete` and `Cancel` hold one row lock and check under it: one step,
possible while nobody holds the row.  Deleting a slot or a meeting takes no lock:
`BeginDropSlot` and `DropSlot`, `BeginDestroy` and `Destroy` are the check and the delete.
`Tick` is time passing.  The state is `slot`, `booking`, `now`, `req` (what each request loaded
and where it is), `person` and `row` (who holds which lock).

`Calendar` is what a calendar promises: intervals of one staff member that are reserved, moved
and released in single steps and never overlap.  `Reserved` maps every open meeting to its
interval and every other id to `Free`; `ImplementsCalendar` says that the three-step requests
implement it.

Abstractions: links, notes, notices and the names of the requester are left out; a weekly
request adds two times (`RepeatSize`).

### Enrollment

The model of how students enter a school, take its seats, move and leave.  A request is one
transaction.  It waits for one row lock at a time (`Lock...`, `FindInvite`, `Accepting`,
`CheckSeat`), checks what the code checks with that lock in hand, and writes and commits last
(`Save...`). `Take` is the pattern: if the row is free, either lock it and go on, or answer and
roll back.

| request | steps | code |
|---|---|---|
| accept | `FindInvite`, `Accepting`, `Claim`, `SaveAccept` | `accept_invite`: invite row, school row, conditional UPDATE, insert |
| create | `CheckSeat`, `SaveCreate` | `create_student_account`, `entitlements.check` |
| confirm, reject | `LockConfirm`, `CheckSeat`, `SaveConfirm`; `LockReject`, `SaveReject` | `confirm_student`, `reject_student` |
| patch | `LockProfile`, `LockMove`, `CheckSeat`, `SaveMove`, or `SavePatch` alone | `perform_update`, `move_student` |
| deactivate, reactivate | `LockProfile`, `LockSetActive`, `CheckSeat`, `SaveSetActive` | `set_student_active` |
| edit | `LockEdit`, `EnsureProfile`, `LockEditMove`, `CheckSeat`, `SaveEdit` | account editor, `ensure_student_profile` |
| assign | `LockList` for all rows but the last, `LockAssign`, `SaveAssign` | `assign_counselor` |
| transfer | `LockTransfer`, `StartClear`, `LockList`, `LockClear`, `SaveTransfer` | `transfer_counselor`, `user_left_school` |

`CreateInvite`, `RevokeInvite`, `Expire` and `Lapse` (a plan ends) are single steps.  A
student's record holds the school twice, `acct` (the User row) and `school` (the profile),
because the code does and because requests write them apart.  What an editor loaded before its
transaction began is kept in `seen`, and its last step writes that back, as `serializer.save()`
writes every column.  The history variable `stale` becomes true when that overwrote a change the
editor had not seen (`Overwrites`).  `Abort` is the database ending a deadlock: it may roll back
any request on a circle of waiting requests.

Two requests lock several profiles.  `assign_counselor` locks the list it was given, and the
UPDATE of `user_left_school` the students it found; neither says in which order, and
`StudentProfile` has no ordering.  In the model the rows are taken one at a time in any order
(`rest` is what is left, `LockNext` the next row).  What was decided before the last lock can be
old by then: the list is looked at again, account rows excepted (`there`), and a transfer clears
a row it waited for only if it still is outside the new school.

Abstractions: an address is a model value, or `None` for one nobody else uses; one subscription
state per school; counselors have no capacity; a list to assign names students that exist.  The
counselor, the list and the joined User rows of an assignment are read in one step, before the
first lock.  Creating an invite is one step although its UPDATE may replace several older ones
(two creations for an address that has several open invites could wait for each other in the
database, which the model does not show).

### Reviews

The work of one student: `work` maps missions, tasks and applications to a status, `awards` is
the set of missions with an `XPTransaction` row, `xp` and `level` are columns of the profile.  A
PATCH is validated against the row as it was loaded (`BeginSubmit`, `BeginTask`,
`BeginApplication`, `BeginStaff`) and written in a later step: `SaveTask` and `SaveApplication`
look again under the row lock, as `perform_update` does for students, `SaveBlind` is every save
that does not.  An approval locks the mission (`LockMission`), then the profile (`LockProfile`),
awards and saves (`SaveApproval`).  `Decide`, `SendBack`, `ApproveTask` and `ApproveLevel` hold
one row lock and check under it.  `BeginForm` and `SaveForm` are a form that loads the profile
and later saves it whole; `stale` records that it wrote back an older `xp` or `level`.

Abstractions: `WAITLISTED` goes with the other decisions and `LATE` with "todo"; content, due
dates, notes and notices are left out.

---------------------------------------------------------------------------

## 3. The runs

### Essay autosave

These runs use `MCEssayAutosave`.  Deadlock is checked in all of them.  `Blocks` is a symmetry
set except in the liveness run.

| run | about | blocks | edits | crashes | late, restore | others | states |
|---|---|---|---|---|---|---|---|
| `marks` | badge, timers and draft, with retries, refusals, a crash | 2 | 2 | 1 | 2, 0 | counselor | 607k |
| `writers` | base, overwriting, merging and versions, with three writers | 2 | 1 | 1 | 2, 0 | counselor, other device | 341k |
| `restore` | a checkpoint restored under the client (an old text with a new `save_seq`) | 2 | 1 | 1 | 2, 2 | counselor, restore | 295k |
| `live` | typing reaches the server | 1 | 2 | 0 | 2, 0 | counselor | 63k |
| `replay`, `hide`, `keepmine` | counterexamples, see section 5 | 2 | 1-2 | 0 | 0, 0 | counselor | |

The properties, and what it takes to break one:

* `TypeOK`: the shapes of all variables.
* `SavedBadgeIsTrue`: the badge says "Saved" only over a text some stored version equals.  The
  code says "Saved" in four places (settling, an unchanged flush, accepting the server's text,
  opening), each with a different reason.
* `NeverStranded`: dirty text always has a timer, a request, a retry or a status that tells the
  student.  `change` arms no timer while a request is out, so every way a request can end must.
* `DraftCoversText`: unsettled text is in the draft, unless the throttled write is due.
* `BaseIsServerVersionUnlessSkipped`: `base` is the text the server stored as `seq`, the belief
  every delta is computed from.
* `NeverGoesBack`: the version under the open editor never gets older, in whatever order polls
  and saves are answered.
* `NoBlindOverwrite`: a save removes other people's work only if this client had shown it, asked
  about it or merged with it.
* `MergeWithBaseKeepsTyping`: taking a newer version into the editor keeps typing the server
  does not have.
* `TypingReachesServer` (liveness): typed text reaches the server, is taken out again, or the
  client stops and says why.

**Why the bounds are enough.**  Two blocks are what a merge needs (one side changes one, the
other side the other, or both the same); two edits let one be typed during a save and one after
it; one crash gives a draft, a dead page's late request and a reopened page; `MaxLate = 2` lets
a request be abandoned both before and after another writer's version; `MaxRestore = 2` restores
over the client's save or over a mark.  The run `writers` has one edit because three writers
with two edits exceed the time given to a run; `marks` has two.

**Fairness** (`FairSpec`).  Weak fairness of `SyncTimer`, `RetryTimer` and `ConflictEffect`: an
armed `setTimeout` fires and a React effect runs while the page is open.  Strong fairness of
`AutosaveSent` and `ReceiveReply`: the queue sends a failed request again for ever, and a
request sent again and again eventually gets through, as does an answer.  Nothing is assumed of
the student, of other writers or of polls.  `live` needs no crash: the property is about an open
page (`page = "gone"` ends the obligation).

### The other protocols

| run | module | instance | states |
|---|---|---|---|
| `tabs` | `MCAuthSession` | 2 tabs; five settings: with Web Locks, two sessions and one refresh or one session and two, with one fault, or two faults; without Web Locks, two refreshes and a fault, or two sessions | 178k |
| `calendar` | `MCBookings` | 1 staff member, 2 slots, 2 meetings, 2 requests, times 1..3, meetings of 1 or 2 quarters; six scripts | 227k |
| `seats` | `MCEnrollment` | 2 schools with 2 seats and 1 seat, 1 counselor, 3 students, 2 invites, 1 address, cap 1, 3 requests; eleven scripts, four beginnings | 135k |
| `moves` | `MCEnrollment` | one student, two PATCHes: counterexample, see section 5 | |
| `approvals` | `MCReviews` | 2 missions one after the other, 1 task, 1 application, 2 requests, 75 XP an approval, level up to 3 | 3.4M |

A *script* says how many requests of each kind arrive; a behaviour picks one, so one run covers
several races without the product of them all.  Deadlock is checked in `approvals`.  It is not
in `tabs`, `calendar`, `seats` and `moves`, where a behaviour ends when its script, its clock or
its counters have run out; there "everyone waits on everyone" is a liveness property instead
(`CallsSettle`, `RequestsEnd`).

`tabs`

* `NoUsedCookieIsSent`: with Web Locks no tab presents a cookie that was already rotated away.
  To break it, two tabs must refresh so that one has read the cookie when the other's answer
  lands.
* `RejectedRefreshEndsDeadSession`: a rejected refresh ends the session of every tab only if the
  cookie in the browser is dead, or a password change has just set it.  A tab that merely lost a
  race must not sign the others out.  With Web Locks this is claimed of every rejection. Without
  them it is claimed of the first one while the tabs of one session only refresh
  (`OneQuietSession`): both tabs send the same cookie, and the loser pauses (`RefreshLook`)
  until the winner has kept and counted its token.
* `ConfirmedSignOutLeavesNoCookie`: a sign-out the user was told is complete leaves no live
  cookie of a session the browser knew when it began, with a refresh between its check and its
  issue at that moment.  Without Web Locks it is claimed while there is a single session.
* `SignOutSparesNewerSignIn`: with Web Locks, a sign-out that is served or lands late takes
  nothing from a session a tab signed in to after it began.
* Both compare sign-in ids, and an id tells a newer sign-in only if a sign-in drew it
  (`HintOfSignIn`): see section 5 for the other ways to draw one.
* `EndedTabGetsNoToken`: a tab that signed out gets a token only from a sign-in or a password
  change of its own.
* `CallsSettle` (liveness): refreshes, sign-outs and sign-ins end; nobody waits for a lock for
  ever.

`calendar`

* `NoDoubleBooking`, `SlotsDisjoint`: whatever was validated before the lock, no two open
  meetings and no two published times of one person overlap.
* `BookingMatchesSlot`: a meeting that points at a published time has that time, while staff
  moves or deletes the time and the student claims it.
* `ClosedMeetingIsFinal`: a reschedule under way does not reopen or move a meeting that was
  rejected, completed or cancelled.
* `RequestsEnd` (liveness): reschedules lock row, then person; nobody locks the other way round.
* `ImplementsCalendar`: the refinement.

`seats`

* `PersonalInviteAdmitsOne`, `RevokedInviteAdmitsNobody`: two joins by one link, a link revoked
  or replaced between a join's check and its claim, a student rejected and deleted in between.
* `JoinsWithinCap`, `SeatTakenWithinPlan`: the pending cap and the plan are counted under the
  school's row, and changed by requests that hold other rows.  Both are claimed until an editor
  has overwritten a change it had not seen (`stale`); `SeatTakenWithinPlan` also says that until
  then account and profile name the same school.
* `ConfirmedIsNotDeleted`: a rejection looks again under the profile's lock.
* `DeadlockTakesEditorOrLists`: the services lock in one order; a circle always contains an
  account editor or a transfer, or two assignments whose lists overlap, one of which waits for
  the other with rows in hand.  Such a circle of two assignments does occur in the run.
* `RequestsEnd` (liveness), with the database breaking circles.

`approvals`

* `XpFollowsApprovals`: approvals, resubmissions and forms interleave, and each mission has
  earned its XP once; the total is what the transaction rows say unless a form wrote back an
  older one, and the level is never above what the rows entitle to.
* `ReviewStands`: a student's save validated before a decision does not undo it, for tasks and
  applications.

**Why the bounds are enough.**  Two tabs race for one cookie; two sessions are an old one and
the sign-in after it; two faults are both tries of a sign-out.  They are not all there is: a
sign-out, a password change and a late signal in three tabs have histories that two tabs do not
have.  The theorems of section 4 about `AuthSession` are for any number of tabs, sessions and
faults, and state every safety property of `tabs`.  Two meetings and two slots make a clash, two
requests a race, a third time leaves room to move to.  In `seats`, a plan of two seats is filled
by two students while a third joins, one seat in the other school makes a move fail or take the
last one, and a cap of one makes the second join fail.  Two unassigned students of one school
and two assignments make lists that overlap in both rows.  In `approvals`, two approvals of 75
XP pass the first threshold of 100 and stay below the second, at 300, so that a level and the XP
meant for it can part.

**Fairness.**  `AuthSession`: weak fairness of the server, of handing over each answer, and of
each tab's refresher, sign-out and sign-in.  These are callbacks, timers and the browser's grant
of a free lock; nobody must click, and a request that is lost counts as a fault, of which there
are finitely many.  `Bookings`: weak fairness of each request: one whose lock is free takes it
and one that holds its locks goes on.  `Enrollment`: the same with `Abort`, since PostgreSQL
ends a deadlock.  `Reviews` claims no liveness.

Each property has a mutant in the modules (comments "Mutant of ..."): a plausible bug in one
operator, under which TLC finds the property violated.

---------------------------------------------------------------------------

## 4. The proofs

Every theorem is checked by TLAPS from the assumptions named in the modules, for every value of
the constants; TLC evaluates the assumptions in the runs.

### Essay autosave

The theorems hold for every set of blocks, pieces and edits, with no bound on the number of
versions, crashes or late requests other than that the bounds are naturals.

| theorem (`EssayAutosaveTheorems`; the last four in `EssayDraftTheorems`) | states |
|---|---|
| `TypeCorrect` | `Spec => []TypeOK` |
| `NothingIsStranded` | `Spec => []NeverStranded` |
| `BaseIsSourced` | `Spec => []BaseIsServerVersionUnlessSkipped` |
| `EditorNeverGoesBack` | `Spec => NeverGoesBack` |
| `Invariance` | `Spec => []IInv`, on which the others rest |
| `DraftIsCurrent` | `Spec => []DraftCoversText` |
| `SavedIsSaved` | `Spec => []SavedBadgeIsTrue` |
| `MergeSparesTyping` | `Spec => MergeWithBaseKeepsTyping` |
| `NothingIsOverwrittenBlindly` | `Spec => NoBlindOverwrite` |

**Assumptions**, each named in the module that declares the constants: the three sets of pieces
are disjoint (`PiecesAreDistinct`), `None` is not a document, a request, a draft, a conflict or
an answer (`NoneIsNothing`, `NoneIsNoAnswer`), the bounds are naturals (`BoundsAreNaturals`).

**The inductive invariant** `IInv` is the conjunction of four parts, none of which is inductive
alone:

* `TypeOK`;
* `Wire`: what is on the wire belongs to the queue's request.  It gives `inFlight # None`
  exactly when a request or its answer is on its way, and what an answer may say given the
  request in flight;
* `Alive(queue)`: the queue's own state machine.  Who arms which timer, which fields exclude one
  another (a request in flight, a request to be retried, a conflict), and which status goes with
  them.  `NeverStranded` follows from `Alive` and `Wire`;
* `Sourced`: every document the client may come to build on (the base, the document of an
  answer, of a conflict, of a poll) is the version stored under the number that comes with it.
  This is what makes the base true again after a merge, a keep-mine or a poll, and for the base
  it is conditional on `~skipped`: see section 5.

**Argument.**  `SaveQueueTheorems` proves about each operator of the queue, independently of the
protocol, that it returns a queue on the same version with the same request in flight
(`...Keeps`, `...Type`) and keeps it `Alive` (`...Alive`).  `EssayAutosaveTheorems` has one
lemma per client action, or group of actions alike, and one for the server's, which cite those
(`...IInv`); `StepIInv` puts them together.  `NeverGoesBack` is the step version: the queue's
`seq` moves only to the `seq` of an answer, a conflict or a poll, and `Sourced` with the guards
of `absorbRemote` and `adopt` bounds those from below.

**The draft.**  `DraftCoversText` is proved from a second invariant, `DInv`, on top of `IInv`.
Every function of the queue either writes the text into the draft (`Covered`) or leaves the
draft alone and unsettles nothing (`Quieter`), with two exceptions that need a fact about the
protocol.  A settled queue drops its draft: sound because nothing is unsettled then.  Keep mine
on a *draft* unsettles the queue without writing: sound because the draft the student was asked
about is still the one on the device (`Asked`), which holds because nothing is unsettled while
the question stands.

**The badge.**  `SavedIsSaved` needs that a queue is clean only over text that is somewhere: on
its way, in the request to be retried, or stored under the queue's version (`Tells`, per
operator of the queue `...Tells`; `BInv` for the protocol).  An answer makes a queue clean only
if the text it answers for is what the server stored under that request's id.  So `BInv` also
says what the server and the late requests hold under each id: a request names the text it was
made from (`Honest`), and two requests with one id are one request (`Twins`).

**The merge.**  `MergeSparesTyping`: what a merge may drop is what its base holds, and a base
that came from the server or from this tab (`Sourced`) holds no piece typed since.

**Blind overwrites.**  `NInv` says that whatever this tab sent or is about to send was made from
a version whose foreign pieces it has seen (`seen`), so that a document stored over a version
can only lack pieces the student was shown.  All steps of the client that make or keep requests
satisfy one notion (`Careful`), which preserves `NInv`; where a replay made the base wrong
(`skipped`) it claims nothing, see section 5.

### The other protocols

| theorem | states | module |
|---|---|---|
| `TypeCorrect` | `TypeOK`, in every module | `AuthSessionTheorems`, `BookingsTheorems`, `EnrollmentTheorems`, `ReviewsTheorems` |
| `SignedOutStaysOut` | `Spec => EndedTabGetsNoToken` | `AuthSessionTheorems` |
| `RotatedCookieIsNotSent` | `Spec => []NoUsedCookieIsSent` | `AuthLockTheorems` |
| `RejectionEndsDeadSession` | `Spec => RejectedRefreshEndsDeadSession` | `AuthLockTheorems` |
| `SignOutLeavesNoCookie` | `Spec => ConfirmedSignOutLeavesNoCookie` | `AuthLockTheorems` |
| `NewerSignInIsSpared` | `Spec => SignOutSparesNewerSignIn` | `AuthLockTheorems` |
| `MeetingsStayDisjoint`, `SlotsStayDisjoint`, `MeetingsMatchTheirSlots` | `NoDoubleBooking`, `SlotsDisjoint`, `BookingMatchesSlot` | `BookingsTheorems` |
| `ClosedMeetingsStay` | `Spec => ClosedMeetingIsFinal` | `BookingsTheorems` |
| `BookingsImplementCalendar` | `Spec => ImplementsCalendar` | `BookingsTheorems` |
| `InvitesAdmitOne`, `RevokedAdmitNobody` | `PersonalInviteAdmitsOne`, `RevokedInviteAdmitsNobody` | `EnrollmentTheorems` |
| `ConfirmedStay` | `Spec => ConfirmedIsNotDeleted` | `EnrollmentTheorems` |
| `DeadlocksTakeEditorsOrLists` | `Spec => []DeadlockTakesEditorOrLists` | `EnrollmentTheorems` |
| `PlansHoldUntilStale`, `CapsHoldUntilStale` | `SeatTakenWithinPlan`, `JoinsWithinCap` | `EnrollmentTheorems` |
| `XpIsAwardedOnce`, `ReviewsStand` | `XpFollowsApprovals`, `ReviewStands` | `ReviewsTheorems` |
| `Invariance` | the inductive invariant of each | `BookingsTheorems`, `EnrollmentTheorems`, `ReviewsTheorems` |

They hold for any number of tabs, people, rows and requests.  **Assumptions**: `AuthConstants`,
`BookingConstants`, `RowsAreRows`, `EnrollmentConstants`, `PopulationsAreReal` and
`ReviewConstants`.  They say that model values such as `None` are not rows, that ids are
naturals, that durations have a longest one, that the sets that are counted are finite, and that
schools begin with no more students than seats.

**AuthSession.**  `SignedOutStaysOut` rests on the epoch: a refresh remembers that its tab ended
since (`stale`).  For `RotatedCookieIsNotSent`, a used cookie can only be sent if a tab read the
cookie before another tab's answer replaced it, so the invariant is about who may touch the
cookie: with locks, and while no answer was lost and no password changed (`Calm`), at most the
holder of the lock has a request that reads or writes the cookie (`Exclusive`, `OnlyInside`),
every token in use was issued (`AllKnown`), the cookie in the browser was not rotated away
except by the answer on its way to the holder (`CookieFresh`), and the holder's request carries
that cookie (`CarriesCookie`).

The other three theorems are not limited to calm behaviours: answers are lost, requests are
served late, pages reload and passwords change.  What a step may do is said once, variable by
variable: the server only adds rows (`Rows`), a request goes from stage to stage (`Turns`), the
hint goes, keeps its id or gets a new one (`HintMoves`), a sign-out goes on as it began
(`OutMove`).  The invariant `Lasting` has two halves.  Without the lock: where a request can be
(`Places`); the `Story` of the hint, that is which sign-in drew an id, that an answered sign-in
is new to the browser, and what a sign-out began with; and `Single`, that while there is one
session it is revoked once the cookie is gone.  Behind the lock (`LockFacts`):

* `Guarded`: at most one call is inside, and only a password change has a request outside;
* `Rejections`: a refresh carries the cookie that is still there or was replaced by a password
  change, so that a rejection is about that cookie;
* `Newest`: leaving password changes aside, the cookie, what is carried and what is answered are
  of the last sign-in kept, and sign-ins a sign-out did not know are later than those it did;
* `Ending`: a sign-out that was sent is of the session the hint tells of, and once its answer
  has landed no session it knew has the cookie.

`CookieUnderLock` is the step they share: while a sign-out or a sign-in is inside, only its own
answer and a password change set the cookie.  A sign-out that was sent leaves no cookie by
`Ending`.  One that was skipped found the id of a later sign-in, and by `Newest` the cookie is
not of an earlier one.

Without Web Locks `RejectionEndsDeadSession` has an argument of its own, about a race of tabs
that carry one cookie while nothing else happened.  `Contest` says that while the hint is the
one a tab sent its cookie under, either that cookie is still the browser's, or its successor is
in another tab's hands (`Winner`: the cookie is set, the script that keeps and counts the token
has still to run).  The pause of `RefreshLook` outlasts such a script, so a loser that finds the
hint unchanged after it knows that there was no winner and that the cookie is dead (`Refusals`:
what the server turned down stays dead).  With one session no sign-in is answered
(`Unanswered`), so nothing but refreshes has set the cookie.

**Bookings.**  Validation proves nothing, since it precedes the lock.  The invariant says which
locks a request holds at each step, that nobody holds a lock without such a request, and that
what was checked under them is still true: between `Enter` and `Save` only the holder of the
person's lock changes that person's open meetings and published times, except to close or delete
some, which cannot create an overlap.  The refinement has the same argument: a step that changes
one open meeting reserves or releases its interval, and every other step leaves `Reserved` as it
is.

**Enrollment.**  `Base` (theorem `Invariance`) is the shape of the transactions: the locks each
request holds at each step and what it read under them.  From it follow the invites, with the
invariant `Counted` (the students who came by an invite, and the join between its claim and its
insert, are counted on the invite), and the confirmations. The plans need more: `Good`, which
says of every request that is about to write (`Told`) that the seat it checked is still free. It
is inductive because every step is calm towards the others (`Calm`): it leaves alone what
another request has locked, and fills a school's seats only when it holds that school's row.
Editors are the exception, which is why `Good` is claimed until `stale`.  A deadlock is a cycle
of requests each waiting for a row the next one holds.  Every service takes its rows in one
order (invite, profile, User, school: `Ordered`, and `Alone` for those that take a single row),
so along a cycle of services the row waited for would rise for ever.  Three kinds of request can
close one: the account editor, which locks the User before the profile; a counselor's transfer,
which locks the school first; and an assignment, which waits for a profile with others in hand
(`Lists` says what it and a transfer hold and still have to lock).  An assignment that waits for
a profile held by anything but an assignment does not close a cycle, since that request waits
for a later kind of row, and an assignment holds none.

**Reviews.**  Whoever approves holds the mission and then the profile; the award and the row
that makes it unique are written in the same step, and a form that saved the profile meanwhile
can only have lowered the total.

**Only model-checked:** the liveness properties (`TypingReachesServer`, `CallsSettle`, and
`RequestsEnd` in two modules): liveness under fairness and `ENABLED` are outside the prover's
reach.  Every other property of a passing run is stated by a theorem.

---------------------------------------------------------------------------

## 5. What the models say about the code

Four statements in the source are not true of the program; each has a run whose counterexample
is a trace of the code.

* **`replay`: base is not always "the last document the server acknowledged"**
  (`saveQueue.js:143`, `:237`).  The answer to a *merged* save is lost; the retry is answered as
  a replay, without a hash; the queue takes its own text as base of a version that also holds
  the counselor's mark.  The next delta is refused (`resync`), the document goes in full with
  the right `save_seq`, and the mark is gone.  `skipped` records that this happened:
  `BaseIsServerVersionUnlessSkipped` and `NoBlindOverwrite` speak of runs where it did not,
  `SavedBadgeIsTrue` claims less where it did.
* **`hide`: "write the draft now"** (`saveQueue.js:380`).  `hide` does not test `inFlight`.
  After a blur has flushed the text, and before the throttled write, hiding the page writes
  nothing; a page killed then has no draft.
* **`keepmine`: "the student's unsaved paragraphs stay"** (`Editor.jsx:766`).  Without a base
  there is nothing to merge from: Keep mine replaces the editor's text by the server's.
* **`moves`: "The account and the profile always change together"**
  (`admissions/tenancy.py:109`).  A PATCH of another field loads the profile, a second PATCH
  moves the student, and the first one then saves the school it loaded: the account is in the
  new school, the profile in the old one.

Smaller ones were met while modelling.  Where a property would otherwise be false because of
one, its definition says what it leaves out:

* **Sign-out and sign-in ids.**  `endOnServer` (`authTokens.js:259`) takes a session for a newer
  one when the hint has another id than the sign-out began with; it then skips the logout and
  still resolves true, against `api.js:259` ("Resolves true once the server ended the session").
  Sign-ins are not all that draws an id: `changePassword` saves its tokens outside the lock and
  without the epoch check, also after a sign-out began, and a refresh that finds no hint,
  because a signal removed it, draws one too.  `ConfirmedSignOutLeavesNoCookie` and
  `SignOutSparesNewerSignIn` therefore trust the hint when a sign-in drew it (`HintOfSignIn`).
* **A rejected refresh after a password change.**  The change has set its cookie and the tab is
  reloaded before its script ran; a refresh of another tab, sent with the cookie before, is
  rejected and ends the session of every tab, although the new cookie lives (`JustChanged`).
* **A lost race without Web Locks.**  The loser of a refresh race pauses `settleMs` once and
  tries again once (`authTokens.js:173`).  If the second cookie is rotated away by a third
  refresh meanwhile, or the winner's answer takes longer than the pause, the session ends for
  every tab although it lives, against `authTokens.js:133` ("Only when nobody refreshed is the
  session over").
* **A second refresh answered 5xx or 429** clears the session, while the comment at
  `authTokens.js:141` says other failures keep it.  `RejectedRefreshEndsDeadSession` is about
  rejections.
* **Storage events and reloads.**  A sign-out signal handled late clears a newer hint; a tab
  that is still booting does not listen to it; a reload between a sign-in's cookie and its hint
  leaves a cookie without a hint; without Web Locks a refresh of the old session can land after
  a new sign-in.
* **Deleting a meeting** reads it without a lock (`portal.py:408`): a reschedule under way can
  make it an upcoming one, which the delete then removes against its docstring.  Deleting a
  published time can leave an open meeting without its slot.
* **Account editor and services** lock User and profile in opposite orders, so one of the two
  may be rolled back.
* **Assignments of overlapping lists.**  `students.py:578` locks its list without `order_by`:
  two assignments that name the same two students, or an assignment and a transfer, can wait for
  each other, and the database rolls one back.
* **Assignments and rejected accounts.**  An assignment can span two schools when a transfer
  commits in between (against `tenancy.py:33`). A PATCH of an account that was rejected
  meanwhile inserts it again, confirmed.  The pending cap is enforced by accepting only: a full
  save can make a student pending again.
* **Missions** lack the second look that tasks and applications have: a student's submit or a
  staff edit validated before an approval takes `COMPLETED` back (against
  `serializers/roadmaps.py:73`, "An approved mission cannot be changed by a student"); a staff
  PATCH of a task does the same.  The XP is not awarded a second time, which is what
  `XpFollowsApprovals` shows.
* **Forms that save the profile whole** can lower `xp_total` and `level` (`stale` in `Reviews`).

---------------------------------------------------------------------------

## 6. What is not modelled, and why

In the modelled parts:

* *Essay autosave*: close, reopen, forget and discard of a queue, waiters of `flushAndWait`,
  this device's own checkpoint restore, failing storage, structural block operations, v1 ops,
  tabs without an editor.
* *Sessions*: requests other than the auth calls, the refresh token in a logout's body, tokens
  of older versions, locked schools, expiry.
* *Meetings*: an admin's PATCH, a student's own double booking, a change of school, the lists of
  free times.
* *Enrollment*: deactivated schools and individual workspaces, counselor capacity and
  deactivation, assistants, what a move does to channels, parents and credentials, rejections
  refused by a protected row, an account PATCH that itself moves or activates.
* *Reviews*: creating and deleting work, bulk tasks, attachments, the roadmap that is extended
  after level one, section reviews, notes, notices and reminders.

Components without a model:

* *Assistants and the parent portal* repeat the claim pattern of `Enrollment`; the assignment to
  an assistant being deactivated is a listed hazard without a property.
* *Budgets, throttles, caches, jobs, messaging, client lists and client queues* are small
  protocols, each with one or two interesting interleavings.  They are listed as hazards.
* *Coach and sharing*: an AI call between two reads, and a table over roles.
* *Catalog, search, CV, landing page, careers, challenges, assessment, translations and pages*:
  most of the lines of the repository.  They are data, queries, formatting and rendering,
  without state that several actors change; a model could only repeat them.  For this reason the
  models stand for a small share of all lines, although they cover most of the lines in which
  requests, tabs and devices race.
* The AI providers, mail and PostgreSQL are outside.  Row locks, commit, rollback and the
  resolution of deadlocks are modelled as the code relies on them.

---------------------------------------------------------------------------

## 7. What would come next

1. `TabStore`: what autosave promises (versions are only appended, a request is stored at most
   once, a reader sees a stored version), with `EssayAutosave` shown to implement it, as
   `Bookings` is for `Calendar`.
2. The rest of the queue: close, reopen, forget, discard, waiters, failing draft writes and
   `restoreCheckpoint`; then inserting, deleting and moving blocks in `EssayDoc`.
3. Assistants, counselor capacity and deactivated schools in `Enrollment`.
4. Small models of the client's lists and queues, the budgets and the caches.

Proofs: that `EssayAutosave` implements `TabStore`, once it is stated; invariants that are not
checked yet because the code breaks them in rare orders, bounded by what breaks them (a lower
`xp_total` in `Reviews`, a profile without its account in `Enrollment`).
