------------------------------ MODULE Reviews ------------------------------
(***************************************************************************)
(* The work of one student under review, and the XP it earns: roadmap       *)
(* missions, tasks and applications (views/roadmaps.py, views/records.py,   *)
(* views/common.py and their serializers in backend/apps/admissions), the   *)
(* award (services.py) and the level (views/students.py, models.py).        *)
(*                                                                          *)
(* A PATCH is validated against the row as it was loaded and is written in  *)
(* a later step.  The approval of a mission holds the mission's row lock    *)
(* and then the profile's.  The other decisions lock one row, check it and  *)
(* commit: one step, possible only while nobody holds the row.              *)
(***************************************************************************)
EXTENDS Integers, FiniteSets

CONSTANTS
    Missions, Tasks, Applications,
    Before,      \* [Missions -> prerequisite or None]
    Requests,
    Amount,      \* ROADMAP_APPROVAL_XP
    MaxLevel,    \* MAX_LEVEL
    Profile, None

Work == Missions \cup Tasks \cup Applications
\* WAITLISTED goes with the decisions, and a task's LATE with "todo".
Decisions == {"accepted", "rejected"}
StatusOf(i) ==
    IF i \in Missions THEN {"planned", "in_progress", "submitted", "completed"}
    ELSE IF i \in Tasks THEN {"todo", "in_progress", "submitted", "approved"}
    ELSE {"planned", "applied"} \cup Decisions
Status == UNION {StatusOf(i) : i \in Work}

ASSUME ReviewConstants ==
    /\ Missions \cap Tasks = {} /\ Missions \cap Applications = {} /\ Tasks \cap Applications = {}
    /\ IsFiniteSet(Missions)
    /\ Before \in [Missions -> Missions \cup {None}]
    /\ Amount \in Nat /\ MaxLevel \in Nat \ {0}
    /\ Profile \notin Work
    /\ None \notin Work \cup {Profile} \cup Requests

VARIABLES
    own,     \* tasks the student gave themselves (is_self_assigned, never changes)
    work,    \* [Work -> status]
    awards,  \* missions with an XPTransaction row
    xp,      \* StudentProfile.xp_total
    level,   \* StudentProfile.level
    req,     \* [Requests -> the request being served]
    owner,   \* [Work \cup {Profile} -> request that holds the row lock, or None]
    stale    \* history: a form has written back an older xp or level

vars == <<own, work, awards, xp, level, req, owner, stale>>

Idle == [op |-> "none", pc |-> "idle", item |-> None, to |-> None, xp |-> 0, level |-> 1]
Begin(r, op, pc, i, to) ==
    /\ req[r] = Idle
    /\ req' = [req EXCEPT ![r] = [Idle EXCEPT !.op = op, !.pc = pc, !.item = i, !.to = to]]
    /\ UNCHANGED <<own, work, awards, xp, level, owner, stale>>
At(r, op, pc) == req[r].op = op /\ req[r].pc = pc
Free(x) == owner[x] = None

\* Commit, or roll back when nothing was written.
Finish(r) ==
    /\ req' = [req EXCEPT ![r] = Idle]
    /\ owner' = [x \in DOMAIN owner |-> IF owner[x] = r THEN None ELSE owner[x]]
Unearned == UNCHANGED <<own, awards, xp, level, stale>>

\* Level 1 starts at 0; each next level costs 100 XP more.
Required(l) == (100 * l * (l - 1)) \div 2
EligibleLevel(l, points) ==
    /\ l = 1 \/ Required(l) <= points
    /\ l = MaxLevel \/ points < Required(l + 1)

(***************************************************************************)
(* The student's PATCH.                                                     *)
(***************************************************************************)
\* A mission can only be submitted, after its prerequisite.
BeginSubmit(r) ==
    \E i \in Missions :
        /\ work[i] \notin {"submitted", "completed"}
        /\ Before[i] # None => work[Before[i]] = "completed"
        /\ Begin(r, "submit", "save", i, "submitted")

\* An assigned task is submitted; on a task of their own, and on an application,
\* the student chooses an open status, or names none and keeps the loaded one.
BeginTask(r) ==
    \E i \in Tasks, to \in {"todo", "in_progress", "submitted"} :
        /\ work[i] # "approved"
        /\ i \notin own => work[i] # "submitted" /\ to = "submitted"
        /\ Begin(r, "task", "save", i, to)

BeginApplication(r) ==
    \E i \in Applications, to \in {"planned", "applied"} :
        /\ work[i] \notin Decisions
        /\ Begin(r, "application", "save", i, to)

\* The staff's PATCH: an approval cannot be chosen, only kept (validate_status).
BeginStaff(r) ==
    \E i \in Missions \cup Tasks : \E to \in StatusOf(i) :
        /\ to \in {"completed", "approved"} => work[i] = to
        /\ Begin(r, "staff", "save", i, to)

\* Mission PATCHes and the staff's task PATCH write the validated status over
\* whatever is there by now.
SaveBlind(r) ==
    LET i == req[r].item IN
    /\ At(r, "submit", "save") \/ At(r, "staff", "save")
    /\ Free(i)
    /\ work' = [work EXCEPT ![i] = req[r].to]
    /\ Finish(r) /\ Unearned

\* Mutant of SaveTask: the row is not looked at again.
SaveTaskBlind(r) ==
    LET i == req[r].item IN
    /\ At(r, "task", "save")
    /\ Free(i)
    /\ work' = [work EXCEPT ![i] = req[r].to]
    /\ Finish(r) /\ Unearned

\* TaskViewSet.perform_update: the row is locked and its status checked again.
SaveTask(r) ==
    LET i == req[r].item
        refused == work[i] = "approved" \/ (i \notin own /\ work[i] = "submitted")
    IN
    /\ At(r, "task", "save")
    /\ Free(i)
    /\ work' = IF refused THEN work ELSE [work EXCEPT ![i] = req[r].to]
    /\ Finish(r) /\ Unearned

\* ApplicationViewSet.perform_update: validate_status runs again on the locked row.
SaveApplication(r) ==
    LET i == req[r].item IN
    /\ At(r, "application", "save")
    /\ Free(i)
    /\ work' = IF work[i] \in Decisions THEN work ELSE [work EXCEPT ![i] = req[r].to]
    /\ Finish(r) /\ Unearned

(***************************************************************************)
(* Decisions.                                                               *)
(***************************************************************************)
\* A counselor may record, change or withdraw an admission decision.
Decide(i) ==
    \E to \in StatusOf(i) :
        /\ i \in Applications /\ Free(i) /\ work[i] # to
        /\ work' = [work EXCEPT ![i] = to]
        /\ UNCHANGED <<own, awards, xp, level, req, owner, stale>>

\* Mutant of SendBack: the status has the name applications give it.
SendBackPlanned(i) ==
    /\ i \in Missions \cup Tasks /\ Free(i) /\ work[i] = "submitted"
    /\ work' = [work EXCEPT ![i] = "planned"]
    /\ UNCHANGED <<own, awards, xp, level, req, owner, stale>>

\* Submitted work goes back to its student.
SendBack(i) ==
    /\ i \in Missions \cup Tasks /\ Free(i) /\ work[i] = "submitted"
    /\ work' = [work EXCEPT ![i] = "in_progress"]
    /\ UNCHANGED <<own, awards, xp, level, req, owner, stale>>

ApproveTask(i) ==
    /\ i \in Tasks /\ Free(i) /\ work[i] = "submitted"
    /\ work' = [work EXCEPT ![i] = "approved"]
    /\ UNCHANGED <<own, awards, xp, level, req, owner, stale>>

\* A repeated approval of a completed mission goes through too.
BeginApprove(r) == \E i \in Missions : Begin(r, "approve", "mission", i, None)

LockMission(r) ==
    LET i == req[r].item IN
    /\ At(r, "approve", "mission")
    /\ Free(i)
    /\ IF work[i] \in {"submitted", "completed"}
       THEN owner' = [owner EXCEPT ![i] = r] /\ req' = [req EXCEPT ![r].pc = "profile"]
       ELSE Finish(r)
    /\ UNCHANGED <<own, work, awards, xp, level, stale>>

\* Mutant of LockProfile: xp_total is read without the row lock.
LockProfileNot(r) ==
    /\ At(r, "approve", "profile")
    /\ req' = [req EXCEPT ![r].pc = "award", ![r].xp = xp]
    /\ UNCHANGED <<own, work, awards, xp, level, owner, stale>>

\* award_approval_xp locks the student and reads their XP ...
LockProfile(r) ==
    /\ At(r, "approve", "profile")
    /\ Free(Profile)
    /\ owner' = [owner EXCEPT ![Profile] = r]
    /\ req' = [req EXCEPT ![r].pc = "award", ![r].xp = xp]
    /\ UNCHANGED <<own, work, awards, xp, level, stale>>

\* Mutant of Earned: the transaction row does not tell a repeated approval.
EarnedAgain(r) == req[r].xp + Amount

\* ... a mission with a transaction row earns nothing (get_or_create) ...
Earned(r) == IF req[r].item \in awards THEN xp ELSE req[r].xp + Amount

\* ... and everything commits at once.
SaveApproval(r) ==
    /\ At(r, "approve", "award")
    /\ work' = [work EXCEPT ![req[r].item] = "completed"]
    /\ awards' = awards \cup {req[r].item}
    /\ xp' = Earned(r)
    /\ Finish(r)
    /\ UNCHANGED <<own, level, stale>>

\* approve_level.
ApproveLevel ==
    /\ Free(Profile)
    /\ \E l \in 1..MaxLevel : EligibleLevel(l, xp) /\ l > level /\ level' = l
    /\ UNCHANGED <<own, work, awards, xp, req, owner, stale>>

\* The onboarding form, or a PATCH of the profile: the row is loaded without a
\* lock and saved whole.
BeginForm(r) ==
    /\ req[r] = Idle
    /\ req' = [req EXCEPT ![r] = [Idle EXCEPT !.op = "form", !.pc = "save", !.xp = xp, !.level = level]]
    /\ UNCHANGED <<own, work, awards, xp, level, owner, stale>>
SaveForm(r) ==
    /\ At(r, "form", "save")
    /\ Free(Profile)
    /\ xp' = req[r].xp /\ level' = req[r].level
    /\ stale' = (stale \/ xp' # xp \/ level' # level)
    /\ Finish(r)
    /\ UNCHANGED <<own, work, awards>>

Init ==
    /\ own \in SUBSET Tasks
    /\ work = [i \in Work |-> IF i \in Tasks THEN "todo" ELSE "planned"]
    /\ awards = {} /\ xp = 0 /\ level = 1 /\ stale = FALSE
    /\ req = [r \in Requests |-> Idle]
    /\ owner = [x \in Work \cup {Profile} |-> None]

Serve(r) ==
    \/ SaveBlind(r) \/ SaveTask(r) \/ SaveApplication(r) \/ SaveForm(r)
    \/ LockMission(r) \/ LockProfile(r) \/ SaveApproval(r)

Next ==
    \/ \E r \in Requests :
        \/ BeginSubmit(r) \/ BeginTask(r) \/ BeginApplication(r) \/ BeginStaff(r)
        \/ BeginApprove(r) \/ BeginForm(r) \/ Serve(r)
    \/ \E i \in Work : Decide(i) \/ SendBack(i) \/ ApproveTask(i)
    \/ ApproveLevel

Spec == Init /\ [][Next]_vars

(***************************************************************************)
(* Properties.                                                              *)
(***************************************************************************)
Request ==
    [op : {"none", "submit", "task", "application", "staff", "approve", "form"},
     pc : {"idle", "save", "mission", "profile", "award"},
     item : Work \cup {None}, to : Status \cup {None}, xp : Nat, level : Nat]

\* Types of the work, the profile, the requests and the locks; every piece of
\* work has a status of its own kind.
TypeOK ==
    /\ own \subseteq Tasks
    /\ work \in [Work -> Status] /\ \A i \in Work : work[i] \in StatusOf(i)
    /\ awards \subseteq Missions
    /\ xp \in Nat /\ level \in Nat /\ stale \in BOOLEAN
    /\ req \in [Requests -> Request]
    /\ owner \in [Work \cup {Profile} -> Requests \cup {None}]

\* An approved mission has earned its XP and no mission earns it twice: the total
\* is what the transaction rows say, however approvals, edits and resubmissions
\* interleave, and only a form that writes the profile back whole can leave it
\* short; nobody is above the level those rows entitle them to
\* (award_approval_xp: "exactly once").
XpFollowsApprovals ==
    LET due == Amount * Cardinality(awards) IN
    /\ \A i \in Missions : work[i] = "completed" => i \in awards
    /\ xp <= due /\ (~stale => xp = due)
    /\ level = 1 \/ Required(level) <= due

\* A student's save, however old the row it was validated against, takes back
\* neither an approved task nor a recorded admission decision (perform_update's
\* second look under the row lock).
ReviewStands ==
    [][\A i \in Tasks \cup Applications :
         work[i] \in {"approved"} \cup Decisions /\ work'[i] # work[i] =>
             ~ \E r \in Requests : req[r].item = i /\ req[r].op \in {"task", "application"} /\ req'[r] = Idle]_vars
=============================================================================
