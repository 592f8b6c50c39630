----------------------------- MODULE Enrollment -----------------------------
(***************************************************************************)
(* How students enter a school, take its plan seats, move and leave:        *)
(* invites.py, tenancy.py and views/students.py of                          *)
(* backend/apps/admissions, entitlements.py, services.py and the account    *)
(* editor (views.py, serializers.py) of backend/apps/users.                 *)
(*                                                                          *)
(* A request is one transaction.  It waits for one row lock at a time       *)
(* (Lock...), checks what the code checks with that lock in hand, and       *)
(* writes and commits in its last step (Save...).  Between two steps every  *)
(* other request runs.  What an editor loaded before its transaction began  *)
(* is kept in `seen`: its last step writes that back.                       *)
(***************************************************************************)
EXTENDS Integers, FiniteSets

CONSTANTS
    Schools, Counselors, Requests,
    Students,    \* ids of student accounts, numbered as the database does
    Invites,     \* ids of invites, likewise
    Emails,      \* addresses an invite may name
    Home,        \* [Counselors -> Schools], where each counselor begins
    Populations, \* students the schools may begin with, see Population
    Seats,       \* [Schools -> Nat], max_students of the school's plan
    PendingCap,  \* MAX_PENDING_STUDENTS_PER_SCHOOL
    Scripts,     \* bound: how many requests of each kind arrive
    None, Gone   \* an id not used yet, a deleted account

Ops == {"accept", "create", "confirm", "reject", "patch", "edit", "deactivate",
        "reactivate", "assign", "transfer", "invite", "revoke", "expire", "lapse"}

Account == [school : Schools,                   \* the profile's
            acct : Schools,                     \* the User row's
            active : BOOLEAN, off : BOOLEAN,    \* is_active, deactivated_at
            pending : BOOLEAN,                  \* awaiting_confirmation
            counselor : Counselors \cup {None},
            via : Invites \cup {None}, email : Emails \cup {None}]
Invite == [school : Schools, counselor : Counselors, email : Emails \cup {None},
           uses : Nat, status : {"open", "revoked", "expired"}]

\* Accounts as create_student_account leaves them.
Enrolled(a) == a.acct = a.school /\ a.active /\ ~a.off /\ ~a.pending /\ a.via = None
SeatsOf(accounts, k) ==
    {s \in Students : accounts[s] \notin {None, Gone} /\ accounts[s].acct = k
                      /\ accounts[s].active /\ ~accounts[s].pending}
Population ==
    {p \in [Students -> Account \cup {None}] :
        /\ \A s \in Students : p[s] # None =>
             Enrolled(p[s]) /\ (p[s].counselor # None => Home[p[s].counselor] = p[s].school)
        /\ \A k \in Schools : Cardinality(SeatsOf(p, k)) <= Seats[k]}

ASSUME EnrollmentConstants ==
    /\ Students \subseteq Nat /\ Invites \subseteq Nat
    /\ IsFiniteSet(Students) /\ IsFiniteSet(Invites)
    /\ Home \in [Counselors -> Schools]
    /\ Seats \in [Schools -> Nat] /\ PendingCap \in Nat
    /\ Scripts \subseteq [Ops -> Nat]
    /\ None \notin Requests \cup Students \cup Invites \cup Emails \cup Counselors \cup Schools
    /\ None # Gone
    /\ None \notin Account /\ Gone \notin Account /\ None \notin Invite

ASSUME PopulationsAreReal == \A p \in Populations : p \in Population

VARIABLES
    stu,    \* [Students -> account with its profile, None or Gone]
    cou,    \* [Counselors -> Schools], the counselor's school
    inv,    \* [Invites -> StudentInvite row, or None]
    lapsed, \* schools whose workspace is read-only
    req,    \* [Requests -> the request being served]
    owner,  \* [Rows -> request that holds the row lock, or None]
    left,   \* [Ops -> requests that may still arrive] (bound)
    stale   \* history: an editor has overwritten a change it had not seen

vars == <<stu, cou, inv, lapsed, req, owner, left, stale>>

Rows == ({"profile", "user"} \X Students) \cup ({"school"} \X Schools) \cup ({"invite"} \X Invites)

Exists(s) == stu[s] \notin {None, Gone}
Idle == [op |-> "none", pc |-> "idle"]
At(r, ops, pc) == req[r].op \in ops /\ req[r].pc = pc
Taken(e) == e # None /\ \E s \in Students : Exists(s) /\ stu[s].email = e

(***************************************************************************)
(* Steps every request is made of.                                         *)
(***************************************************************************)
Job(op, pc, s, i, to, c, e, seen) ==
    [op |-> op, pc |-> pc, student |-> s, invite |-> i, to |-> to, counselor |-> c,
     email |-> e, seen |-> seen]
Begin(r, job) ==
    /\ req[r] = Idle /\ left[job.op] > 0
    /\ req' = [req EXCEPT ![r] = job]
    /\ left' = [left EXCEPT ![job.op] = @ - 1]
    /\ UNCHANGED <<stu, cou, inv, lapsed, owner, stale>>

\* Mutant of Released: a request that ends keeps its locks.
ReleasedNone(r) == owner

Released(r) == [x \in Rows |-> IF owner[x] = r THEN None ELSE owner[x]]

\* Commit, or roll back when nothing was written.
Finish(r) == req' = [req EXCEPT ![r] = Idle] /\ owner' = Released(r)

\* The row lock is free or its own: with it in hand the request goes on to
\* `next` when `ok`, else it answers and its transaction ends.
Take(r, x, ok, next) ==
    /\ owner[x] \in {None, r}
    /\ IF ok THEN owner' = [owner EXCEPT ![x] = r] /\ req' = [req EXCEPT ![r].pc = next]
       ELSE Finish(r)

Data == <<stu, cou, inv, lapsed, stale>>

\* entitlements.check: one more seat for s fits the plan of school k.
SeatFits(k, s) ==
    /\ k \notin lapsed
    /\ Cardinality(SeatsOf(stu, k) \ {s}) + 1 <= Seats[k]

\* Mutant of CheckSeat: the school row is not locked.
CheckSeatUnlocked(r) ==
    /\ At(r, {"create", "confirm", "patch", "edit", "reactivate"}, "school")
    /\ IF SeatFits(req[r].to, req[r].student)
       THEN req' = [req EXCEPT ![r].pc = "save"] /\ UNCHANGED owner
       ELSE Finish(r)
    /\ UNCHANGED <<Data, left>>

CheckSeat(r) ==
    /\ At(r, {"create", "confirm", "patch", "edit", "reactivate"}, "school")
    /\ Take(r, <<"school", req[r].to>>, SeatFits(req[r].to, req[r].student), "save")
    /\ UNCHANGED <<Data, left>>

\* Bound: an id is left for every account a request may still insert.
Room == Cardinality({s \in Students : stu[s] = None})
          > Cardinality({r \in Requests : req[r].op \in {"accept", "create"}})
NextId(table, i) == table[i] = None /\ \A j \in DOMAIN table : table[j] = None => i <= j

Insert(account) ==
    \E s \in Students : NextId(stu, s) /\ stu' = [stu EXCEPT ![s] = account]

(***************************************************************************)
(* Invites.                                                                *)
(***************************************************************************)
\* A personal invite replaces the unused ones for the same address.
CreateInvite(c, e) ==
    LET k == cou[c]
        Replaced == {i \in Invites : /\ inv[i] # None /\ e # None
                                     /\ inv[i].email = e /\ inv[i].school = k
                                     /\ inv[i].status # "revoked" /\ inv[i].uses = 0}
    IN
    /\ left["invite"] > 0 /\ ~Taken(e)
    /\ \A i \in Replaced : owner[<<"invite", i>>] = None
    /\ \E new \in Invites :
        /\ NextId(inv, new)
        /\ inv' = [i \in Invites |->
             IF i = new THEN [school |-> k, counselor |-> c, email |-> e, uses |-> 0, status |-> "open"]
             ELSE IF i \in Replaced THEN [inv[i] EXCEPT !.status = "revoked"] ELSE inv[i]]
    /\ left' = [left EXCEPT !["invite"] = @ - 1]
    /\ UNCHANGED <<stu, cou, lapsed, req, owner, stale>>

\* Mutant of RevokeInvite: the row gets a status no invite has.
RevokeInviteMisspelt(i) ==
    /\ left["revoke"] > 0 /\ inv[i] # None /\ inv[i].status # "revoke"
    /\ owner[<<"invite", i>>] = None
    /\ inv' = [inv EXCEPT ![i].status = "revoke"]
    /\ left' = [left EXCEPT !["revoke"] = @ - 1]
    /\ UNCHANGED <<stu, cou, lapsed, req, owner, stale>>

RevokeInvite(i) ==
    /\ left["revoke"] > 0 /\ inv[i] # None /\ inv[i].status # "revoked"
    /\ owner[<<"invite", i>>] = None
    /\ inv' = [inv EXCEPT ![i].status = "revoked"]
    /\ left' = [left EXCEPT !["revoke"] = @ - 1]
    /\ UNCHANGED <<stu, cou, lapsed, req, owner, stale>>

\* Time passes expires_at, whoever holds the row.
Expire(i) ==
    /\ left["expire"] > 0 /\ inv[i] # None /\ inv[i].status = "open"
    /\ inv' = [inv EXCEPT ![i].status = "expired"]
    /\ left' = [left EXCEPT !["expire"] = @ - 1]
    /\ UNCHANGED <<stu, cou, lapsed, req, owner, stale>>

\* Mutant of Usable: the use count is forgotten.
UsableAgain(i) ==
    /\ inv[i] # None /\ inv[i].status = "open"
    /\ cou[inv[i].counselor] = inv[i].school

\* usable_invites: a personal invite admits one student.
Usable(i) ==
    /\ inv[i] # None /\ inv[i].status = "open"
    /\ inv[i].email # None => inv[i].uses < 1
    /\ cou[inv[i].counselor] = inv[i].school

BeginAccept(r) ==
    \E i \in Invites, e \in Emails \cup {None} :
        /\ Room /\ inv[i] # None /\ (inv[i].email # None => e = inv[i].email)
        /\ Begin(r, Job("accept", "invite", None, i, inv[i].school, inv[i].counselor, e, None))

\* Mutant of FindInvite: the invite is read without its row lock.
FindInviteUnlocked(r) ==
    /\ At(r, {"accept"}, "invite")
    /\ IF Usable(req[r].invite) /\ ~Taken(req[r].email)
       THEN req' = [req EXCEPT ![r].pc = "school"] /\ UNCHANGED owner
       ELSE Finish(r)
    /\ UNCHANGED <<Data, left>>

\* find_invite(lock=True), then AcceptSerializer.
FindInvite(r) ==
    /\ At(r, {"accept"}, "invite")
    /\ Take(r, <<"invite", req[r].invite>>, Usable(req[r].invite) /\ ~Taken(req[r].email), "school")
    /\ UNCHANGED <<Data, left>>

Waiting(k) == {s \in Students : Exists(s) /\ stu[s].school = k /\ stu[s].pending /\ stu[s].active}

\* Mutant of Accepting: the school row is not locked.
AcceptingUnlocked(r) ==
    LET k == req[r].to IN
    /\ At(r, {"accept"}, "school")
    /\ IF k \notin lapsed /\ Cardinality(Waiting(k)) < PendingCap
       THEN req' = [req EXCEPT ![r].pc = "claim"] /\ UNCHANGED owner
       ELSE Finish(r)
    /\ UNCHANGED <<Data, left>>

\* _accepting: the school takes another unconfirmed student.
Accepting(r) ==
    LET k == req[r].to IN
    /\ At(r, {"accept"}, "school")
    /\ Take(r, <<"school", k>>, k \notin lapsed /\ Cardinality(Waiting(k)) < PendingCap, "claim")
    /\ UNCHANGED <<Data, left>>

\* The conditional UPDATE that counts the use.
Claim(r) ==
    /\ At(r, {"accept"}, "claim")
    /\ IF Usable(req[r].invite) THEN req' = [req EXCEPT ![r].pc = "save"] /\ UNCHANGED owner
       ELSE Finish(r)
    /\ UNCHANGED <<Data, left>>

\* A taken address rolls the claim back with the rest.
SaveAccept(r) ==
    LET q == req[r] IN
    /\ At(r, {"accept"}, "save")
    /\ \/ /\ ~Taken(q.email)
          /\ Insert([school |-> q.to, acct |-> q.to, active |-> TRUE, off |-> FALSE, pending |-> TRUE,
                     counselor |-> q.counselor, via |-> q.invite, email |-> q.email])
          /\ inv' = [inv EXCEPT ![q.invite].uses = @ + 1]
       \/ Taken(q.email) /\ UNCHANGED <<stu, inv>>
    /\ Finish(r)
    /\ UNCHANGED <<cou, lapsed, left, stale>>

(***************************************************************************)
(* Quick-create, confirm, reject.                                          *)
(***************************************************************************)
\* By a counselor for themselves, or by the school's account for no one.
BeginCreate(r) ==
    \E c \in Counselors \cup {None}, k \in Schools, e \in Emails \cup {None} :
        /\ Room /\ (c # None => k = cou[c])
        /\ Begin(r, Job("create", "school", None, None, k, c, e, None))

\* A taken address is replaced with a placeholder.
SaveCreate(r) ==
    LET q == req[r] IN
    /\ At(r, {"create"}, "save")
    /\ Insert([school |-> q.to, acct |-> q.to, active |-> TRUE, off |-> FALSE, pending |-> FALSE,
               counselor |-> q.counselor, via |-> None, email |-> IF Taken(q.email) THEN None ELSE q.email])
    /\ Finish(r)
    /\ UNCHANGED <<cou, inv, lapsed, left, stale>>

BeginDecide(r) ==
    \E op \in {"confirm", "reject"}, s \in Students :
        /\ Exists(s) /\ stu[s].pending /\ stu[s].active
        /\ Begin(r, Job(op, "profile", s, None, None, None, None, None))

LockConfirm(r) ==
    LET s == req[r].student
        ok == Exists(s) /\ stu[s].pending
    IN
    /\ At(r, {"confirm"}, "profile")
    /\ owner[<<"profile", s>>] = None
    /\ IF ok THEN /\ owner' = [owner EXCEPT ![<<"profile", s>>] = r]
                  /\ req' = [req EXCEPT ![r].pc = "school", ![r].to = stu[s].school]
       ELSE Finish(r)
    /\ UNCHANGED <<Data, left>>

SaveConfirm(r) ==
    /\ At(r, {"confirm"}, "save")
    /\ stu' = [stu EXCEPT ![req[r].student].pending = FALSE]
    /\ Finish(r)
    /\ UNCHANGED <<cou, inv, lapsed, left, stale>>

\* Mutant of LockReject: who was confirmed meanwhile is not spared.
LockRejectAny(r) ==
    LET s == req[r].student IN
    /\ At(r, {"reject"}, "profile")
    /\ Take(r, <<"profile", s>>, Exists(s), "user")
    /\ UNCHANGED <<Data, left>>

\* Mutant of LockReject: the User row is locked before the profile.
LockUserFirst(r) ==
    LET s == req[r].student IN
    /\ At(r, {"reject"}, "profile")
    /\ IF owner[<<"user", s>>] # r THEN Take(r, <<"user", s>>, TRUE, "profile")
       ELSE Take(r, <<"profile", s>>, Exists(s) /\ stu[s].pending, "user")
    /\ UNCHANGED <<Data, left>>

LockReject(r) ==
    LET s == req[r].student IN
    /\ At(r, {"reject"}, "profile")
    /\ Take(r, <<"profile", s>>, Exists(s) /\ stu[s].pending, "user")
    /\ UNCHANGED <<Data, left>>

\* user.delete(): the profile goes with the account.
SaveReject(r) ==
    LET s == req[r].student IN
    /\ At(r, {"reject"}, "user")
    /\ owner[<<"user", s>>] \in {None, r}
    /\ stu' = [stu EXCEPT ![s] = Gone]
    /\ Finish(r)
    /\ UNCHANGED <<cou, inv, lapsed, left, stale>>

(***************************************************************************)
(* The profile editor.  A PATCH that names another school moves the student *)
(* first (move_student); then serializer.save() writes every column of the  *)
(* profile as it was loaded.                                               *)
(***************************************************************************)
BeginPatch(r) ==
    \E s \in Students, k \in Schools :
        /\ Exists(s)
        /\ Begin(r, Job("patch", IF k = stu[s].school THEN "write" ELSE "profile",
                        s, None, k, None, None, stu[s]))

\* What the last step of an editor writes back is not what the row holds now.
Overwrites(r) ==
    LET s == req[r].student
        seen == req[r].seen
    IN
    \/ At(r, {"patch"}, "write") /\ Exists(s) /\ (stu[s].school # seen.school \/ stu[s].pending # seen.pending)
    \/ At(r, {"patch"}, "save") /\ stu[s].pending # seen.pending
    \/ At(r, {"edit"}, "save") /\ (~Exists(s) \/ stu[s].acct # seen.acct \/ stu[s].active # seen.active)

\* The loaded columns; the school and the counselor come from move_student when
\* it moved the student.
Written(s, seen, school, counselor) ==
    [stu[s] EXCEPT !.school = school, !.counselor = counselor, !.pending = seen.pending, !.off = seen.off]

\* The profile of a deleted account cannot be written.
SavePatch(r) ==
    LET s == req[r].student
        seen == req[r].seen
    IN
    /\ At(r, {"patch"}, "write")
    /\ owner[<<"profile", s>>] \in {None, r}
    /\ stu' = IF Exists(s) THEN [stu EXCEPT ![s] = Written(s, seen, seen.school, seen.counselor)] ELSE stu
    /\ Finish(r)
    /\ stale' = (stale \/ Overwrites(r))
    /\ UNCHANGED <<cou, inv, lapsed, left>>

\* move_student, deactivation and reactivation lock the profile, then the User.
LockProfile(r) ==
    LET s == req[r].student IN
    /\ At(r, {"patch", "deactivate", "reactivate"}, "profile")
    /\ Take(r, <<"profile", s>>, Exists(s), "user")
    /\ UNCHANGED <<Data, left>>

\* Already there, move_student returns early and the loaded profile is written;
\* an inactive account moves without a seat.
LockMove(r) ==
    LET s == req[r].student
        there == stu[s].school = req[r].to /\ stu[s].acct = req[r].to
    IN
    /\ At(r, {"patch"}, "user")
    /\ Take(r, <<"user", s>>, TRUE,
            IF there THEN "write" ELSE IF stu[s].active THEN "school" ELSE "save")
    /\ UNCHANGED <<Data, left>>

\* A counselor of another school stays behind.
Kept(c, k) == IF c # None /\ cou[c] = k THEN c ELSE None

SaveMove(r) ==
    LET s == req[r].student
        k == req[r].to
    IN
    /\ At(r, {"patch"}, "save")
    /\ stu' = [stu EXCEPT ![s] = [Written(s, req[r].seen, k, Kept(stu[s].counselor, k)) EXCEPT !.acct = k]]
    /\ Finish(r)
    /\ stale' = (stale \/ Overwrites(r))
    /\ UNCHANGED <<cou, inv, lapsed, left>>

(***************************************************************************)
(* set_student_active.                                                     *)
(***************************************************************************)
BeginSetActive(r) ==
    \E op \in {"deactivate", "reactivate"}, s \in Students :
        /\ Exists(s)
        /\ Begin(r, Job(op, "profile", s, None, None, None, None, None))

\* Nothing to do, nothing is written; a reactivation takes a seat again.
LockSetActive(r) ==
    LET s == req[r].student
        on == req[r].op = "reactivate"
    IN
    /\ At(r, {"deactivate", "reactivate"}, "user")
    /\ owner[<<"user", s>>] = None
    /\ IF stu[s].active = on /\ stu[s].off # on THEN Finish(r)
       ELSE /\ owner' = [owner EXCEPT ![<<"user", s>>] = r]
            /\ req' = [req EXCEPT ![r].pc = IF on /\ ~stu[s].active THEN "school" ELSE "save",
                                  ![r].to = stu[s].acct]
    /\ UNCHANGED <<Data, left>>

SaveSetActive(r) ==
    LET on == req[r].op = "reactivate" IN
    /\ At(r, {"deactivate", "reactivate"}, "save")
    /\ stu' = [stu EXCEPT ![req[r].student].active = on, ![req[r].student].off = ~on]
    /\ Finish(r)
    /\ UNCHANGED <<cou, inv, lapsed, left, stale>>

(***************************************************************************)
(* The account editor.  Saving the User row writes the loaded school and    *)
(* is_active back (the same seat is not checked again); then                *)
(* ensure_student_profile moves a profile that is in another school.        *)
(***************************************************************************)
BeginEdit(r) ==
    \E s \in Students :
        /\ Exists(s)
        /\ Begin(r, Job("edit", "user", s, None, None, None, None, stu[s]))

\* A deleted account is inserted again, unless its address is taken.
LockEdit(r) ==
    LET s == req[r].student IN
    /\ At(r, {"edit"}, "user")
    /\ Take(r, <<"user", s>>, Exists(s) \/ ~Taken(req[r].seen.email), "ensure")
    /\ UNCHANGED <<Data, left>>

EnsureProfile(r) ==
    LET s == req[r].student
        home == req[r].seen.acct
    IN
    /\ At(r, {"edit"}, "ensure")
    /\ req' = IF Exists(s) /\ stu[s].school # home
              THEN [req EXCEPT ![r].pc = "profile", ![r].to = home] ELSE [req EXCEPT ![r].pc = "save"]
    /\ UNCHANGED <<Data, owner, left>>

LockEditMove(r) ==
    LET s == req[r].student IN
    /\ At(r, {"edit"}, "profile")
    /\ Take(r, <<"profile", s>>, TRUE,
            IF stu[s].school # req[r].to /\ req[r].seen.active THEN "school" ELSE "save")
    /\ UNCHANGED <<Data, left>>

SaveEdit(r) ==
    LET s == req[r].student
        seen == req[r].seen
        home == seen.acct
        fresh == [school |-> home, acct |-> home, active |-> seen.active, off |-> FALSE, pending |-> FALSE,
                  counselor |-> None, via |-> None, email |-> seen.email]
        saved == [stu[s] EXCEPT !.acct = home, !.active = seen.active]
        moved == [saved EXCEPT !.school = home, !.counselor = Kept(@, home)]
    IN
    /\ At(r, {"edit"}, "save")
    /\ stu' = [stu EXCEPT ![s] = IF ~Exists(s) THEN fresh
                                 ELSE IF req[r].to # None /\ stu[s].school # home THEN moved ELSE saved]
    /\ Finish(r)
    /\ stale' = (stale \/ Overwrites(r))
    /\ UNCHANGED <<cou, inv, lapsed, left>>

(***************************************************************************)
(* assign_counselor and transfer_counselor.  Both read the counselor, or    *)
(* their students, before they lock anything.                              *)
(***************************************************************************)
\* The students whose profiles a request has locked.
HeldBy(r) == {s \in Students : Exists(s) /\ owner[<<"profile", s>>] = r}

\* `to` is the counselor's school as it was read.  `seen` is the list: an admin
\* may reassign, a counselor connects only unassigned students; whether all the
\* accounts were `there` is joined in when the statement begins.  `student` is
\* the row the request waits for, `rest` what is then left to lock, in any order.
BeginAssign(r) ==
    \E c \in Counselors, admin \in BOOLEAN, list \in SUBSET {s \in Students : Exists(s)} :
        \E first \in list :
            Begin(r, Job("assign", "profile", first, None, cou[c], c, None,
                         [admin |-> admin, list |-> list, rest |-> list \ {first},
                          there |-> \A s \in list : stu[s].acct = cou[c]]))

\* A row of the list is locked, or passed over when its student is gone.
LockNext(r) ==
    LET s == req[r].student IN
    /\ owner[<<"profile", s>>] = None
    /\ owner' = IF Exists(s) THEN [owner EXCEPT ![<<"profile", s>>] = r] ELSE owner

LockList(r) ==
    /\ At(r, {"assign", "transfer"}, "profile")
    /\ LockNext(r)
    /\ \E next \in req[r].seen.rest :
         req' = [req EXCEPT ![r].student = next, ![r].seen.rest = @ \ {next}]
    /\ UNCHANGED <<Data, left>>

Assignable(s, q) ==
    Exists(s) /\ stu[s].school = q.to /\ (q.seen.admin \/ stu[s].counselor = None)

\* The last row: now the whole list is looked at.
LockAssign(r) ==
    LET q == req[r] IN
    /\ At(r, {"assign"}, "profile") /\ q.seen.rest = {}
    /\ IF q.seen.there /\ \A s \in q.seen.list : Assignable(s, q)
       THEN LockNext(r) /\ req' = [req EXCEPT ![r].pc = "save"]
       ELSE owner[<<"profile", q.student>>] = None /\ Finish(r)
    /\ UNCHANGED <<Data, left>>

SaveAssign(r) ==
    /\ At(r, {"assign"}, "save")
    /\ stu' = [s \in Students |-> IF s \in HeldBy(r) THEN [stu[s] EXCEPT !.counselor = req[r].counselor]
                                  ELSE stu[s]]
    /\ Finish(r)
    /\ UNCHANGED <<cou, inv, lapsed, left, stale>>

Outside(c, k) == {s \in Students : Exists(s) /\ stu[s].counselor = c /\ stu[s].school # k}

BeginTransfer(r) ==
    \E c \in Counselors, k \in Schools :
        /\ cou[c] # k /\ Outside(c, k) = {}
        /\ Begin(r, Job("transfer", "school", None, None, k, c, None, None))

LockTransfer(r) ==
    /\ At(r, {"transfer"}, "school")
    /\ Take(r, <<"school", req[r].to>>, req[r].to \notin lapsed, "clear")
    /\ UNCHANGED <<Data, left>>

\* user_left_school: one UPDATE clears the assignments outside the new school.
\* It finds its rows first and then takes them one at a time, in any order.
StartClear(r) ==
    LET Found == Outside(req[r].counselor, req[r].to) IN
    /\ At(r, {"transfer"}, "clear")
    /\ \/ Found = {} /\ req' = [req EXCEPT ![r].pc = "save"]
       \/ \E first \in Found :
            req' = [req EXCEPT ![r].pc = "profile", ![r].student = first,
                               ![r].seen = [rest |-> Found \ {first}]]
    /\ UNCHANGED <<Data, owner, left>>

LockClear(r) ==
    /\ At(r, {"transfer"}, "profile") /\ req[r].seen.rest = {}
    /\ LockNext(r)
    /\ req' = [req EXCEPT ![r].pc = "save"]
    /\ UNCHANGED <<Data, left>>

\* A row it waited for is cleared if it still is outside.
SaveTransfer(r) ==
    LET c == req[r].counselor
        Cleared == HeldBy(r) \cap Outside(c, req[r].to)
    IN
    /\ At(r, {"transfer"}, "save")
    /\ cou' = [cou EXCEPT ![c] = req[r].to]
    /\ stu' = [s \in Students |-> IF s \in Cleared THEN [stu[s] EXCEPT !.counselor = None] ELSE stu[s]]
    /\ Finish(r)
    /\ UNCHANGED <<inv, lapsed, left, stale>>

\* The subscription ends: the workspace is read-only.
Lapse(k) ==
    /\ left["lapse"] > 0 /\ k \notin lapsed
    /\ lapsed' = lapsed \cup {k}
    /\ left' = [left EXCEPT !["lapse"] = @ - 1]
    /\ UNCHANGED <<stu, cou, inv, req, owner, stale>>

(***************************************************************************)
(* The database ends a deadlock by rolling one of the requests back.       *)
(***************************************************************************)
Needs(r) ==
    LET q == req[r] IN
    CASE q.pc \in {"profile", "user"} -> {<<q.pc, q.student>>}
      [] q.pc = "write" -> {<<"profile", q.student>>}
      [] q.pc = "school" -> {<<"school", q.to>>}
      [] q.pc = "invite" -> {<<"invite", q.invite>>}
      [] OTHER -> {}
Blocks(q, r) == q # r /\ \E x \in Needs(r) : owner[x] = q

\* Requests each of which waits for another of them.
Deadlocked(set) == set # {} /\ \A r \in set : \E q \in set : Blocks(q, r)

Abort(r) ==
    /\ \E set \in SUBSET Requests : r \in set /\ Deadlocked(set)
    /\ Finish(r)
    /\ UNCHANGED <<Data, left>>

Init ==
    /\ stu \in Populations
    /\ cou = Home
    /\ inv = [i \in Invites |-> None]
    /\ lapsed = {}
    /\ req = [r \in Requests |-> Idle]
    /\ owner = [x \in Rows |-> None]
    /\ left \in Scripts
    /\ stale = FALSE

Arrive(r) ==
    \/ BeginAccept(r) \/ BeginCreate(r) \/ BeginDecide(r) \/ BeginPatch(r) \/ BeginSetActive(r)
    \/ BeginEdit(r) \/ BeginAssign(r) \/ BeginTransfer(r)
Wait(r) ==
    \/ FindInvite(r) \/ Accepting(r) \/ Claim(r) \/ CheckSeat(r) \/ LockConfirm(r) \/ LockReject(r)
    \/ LockProfile(r) \/ LockMove(r) \/ LockSetActive(r) \/ LockEdit(r) \/ EnsureProfile(r)
    \/ LockEditMove(r) \/ LockList(r) \/ LockAssign(r) \/ LockTransfer(r) \/ StartClear(r) \/ LockClear(r)
Save(r) ==
    \/ SaveAccept(r) \/ SaveCreate(r) \/ SaveConfirm(r) \/ SaveReject(r) \/ SavePatch(r) \/ SaveMove(r)
    \/ SaveSetActive(r) \/ SaveEdit(r) \/ SaveAssign(r) \/ SaveTransfer(r)

Next ==
    \/ \E r \in Requests : Arrive(r) \/ Wait(r) \/ Save(r) \/ Abort(r)
    \/ \E c \in Counselors, e \in Emails \cup {None} : CreateInvite(c, e)
    \/ \E i \in Invites : RevokeInvite(i) \/ Expire(i)
    \/ \E k \in Schools : Lapse(k)

Spec == Init /\ [][Next]_vars

\* A request whose lock is free takes it, one that holds its locks goes on, and
\* the database notices deadlocks.
Fairness == \A r \in Requests : WF_vars(Wait(r) \/ Save(r) \/ Abort(r))
FairSpec == Spec /\ Fairness

(***************************************************************************)
(* Properties.                                                             *)
(***************************************************************************)
\* Types of the accounts, the invites, the requests and the locks.
TypeOK ==
    /\ stu \in [Students -> Account \cup {None, Gone}]
    /\ cou \in [Counselors -> Schools]
    /\ inv \in [Invites -> Invite \cup {None}]
    /\ lapsed \subseteq Schools
    /\ owner \in [Rows -> Requests \cup {None}]
    /\ left \in [Ops -> Nat] /\ DOMAIN req = Requests /\ stale \in BOOLEAN

\* A personal invite admits one student, whoever submits its form twice and even
\* after that student was rejected and deleted; no account comes in uncounted
\* (the claim in accept_invite).
PersonalInviteAdmitsOne ==
    \A i \in Invites : inv[i] # None =>
        /\ inv[i].email # None => inv[i].uses <= 1
        /\ Cardinality({s \in Students : Exists(s) /\ stu[s].via = i}) <= inv[i].uses

\* Once an invite is revoked, or replaced by a newer one, no join under way gets
\* through (revoke_invite, create_invite against accept_invite).
RevokedInviteAdmitsNobody ==
    [][\A i \in Invites : inv[i] # None /\ inv[i].status = "revoked" => inv'[i].uses = inv[i].uses]_vars

Joined(s, k) == stu[s] = None /\ stu'[s] # None /\ stu'[s].pending /\ stu'[s].school = k

\* Joins by different invites at the same time do not take a school over its cap
\* on unconfirmed students (_accepting), unless an editor's late write made a
\* student unconfirmed again.
JoinsWithinCap ==
    [][stale \/ \A k \in Schools :
         (\E s \in Students : Joined(s, k)) => Cardinality(Waiting(k)') <= PendingCap]_vars

\* "The account and the profile always change together" (move_student).
AccountFollowsProfile == \A s \in Students : Exists(s) => stu[s].acct = stu[s].school

\* Confirmations, new accounts, moves and reactivations, however they interleave,
\* never take a school over its plan and never part an account from its profile;
\* only an editor that wrote back what it had loaded before another request
\* changed it can (entitlements.check, move_student).
SeatTakenWithinPlan ==
    stale \/ /\ \A k \in Schools : Cardinality(SeatsOf(stu, k)) <= Seats[k]
             /\ AccountFollowsProfile

\* A student who was confirmed is not deleted by a rejection that another member
\* of staff sent at the same time (reject_student).
ConfirmedIsNotDeleted ==
    [][\A s \in Students : Exists(s) /\ ~stu[s].pending => stu'[s] # Gone]_vars

\* The services lock invite, profile, User and school in this order: a deadlock
\* takes an account editor, a counselor's transfer, or two assignments whose
\* lists overlap, one of which waits for the other with rows of its own in hand.
DeadlockTakesEditorOrLists ==
    \A set \in SUBSET Requests : Deadlocked(set) =>
        \/ \E r \in set : req[r].op \in {"edit", "transfer"}
        \/ \E q, r \in set :
             /\ req[q].op = "assign" /\ req[r].op = "assign" /\ Blocks(q, r)
             /\ \E x \in Rows : owner[x] = r

\* Every request ends.
RequestsEnd == \A r \in Requests : req[r] # Idle ~> req[r] = Idle
=============================================================================
