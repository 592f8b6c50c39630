------------------------- MODULE EnrollmentTheorems -------------------------
(***************************************************************************)
(* Proofs about Enrollment, for every number of schools, counselors,        *)
(* students, invites and requests: what the row locks of the services keep, *)
(* and what only an editor's late write can break.                          *)
(***************************************************************************)
EXTENDS Enrollment, FiniteSetTheorems, TLAPS

(***************************************************************************)
(* Requests, made inductive: what each kind carries, where it can be, and   *)
(* which row locks it holds there.                                          *)
(***************************************************************************)
Steps == {"invite", "school", "claim", "save", "profile", "user", "write", "ensure", "clear"}
\* What an assignment and a transfer carry while they lock rows one at a time.
Lists ==
    [rest : SUBSET Students]
      \cup [admin : BOOLEAN, list : SUBSET Students, rest : SUBSET Students, there : BOOLEAN]
Jobs ==
    [op : Ops, pc : Steps, student : Students \cup {None}, invite : Invites \cup {None},
     to : Schools \cup {None}, counselor : Counselors \cup {None}, email : Emails \cup {None},
     seen : Account \cup Lists \cup {None}]

OfStudent == {"confirm", "reject", "patch", "edit", "deactivate", "reactivate", "assign"}
Fit(q) ==
    /\ q.op \in OfStudent => q.student \in Students
    /\ q.op \in {"accept", "create"} => q.student = None
    /\ q.op \in {"accept", "create", "patch", "transfer"} => q.to \in Schools
    /\ q.op = "accept" => q.invite \in Invites
    /\ q.op \in {"patch", "edit"} => q.seen \in Account
    /\ q.op \in {"assign", "transfer"} => q.counselor \in Counselors
    /\ q.pc = "school" => q.to \in Schools
    /\ q.op = "confirm" /\ q.pc = "save" => q.to \in Schools
    /\ q.op \in {"deactivate", "reactivate"} /\ q.pc = "save" => q.to \in Schools
    /\ q.op = "edit" /\ q.pc = "profile" => q.to \in Schools
    /\ q.op \in {"assign", "transfer"} /\ q.pc = "profile" => q.student \in Students /\ q.seen \in Lists

HasInvite(q) == q.op = "accept" /\ q.pc \in {"school", "claim", "save"}
HasSchool(q) ==
    \/ q.op = "accept" /\ q.pc \in {"claim", "save"}
    \/ q.op \in {"create", "confirm"} /\ q.pc = "save"
HasProfile(q) ==
    \/ q.op = "confirm" /\ q.pc \in {"school", "save"}
    \/ q.op = "reject" /\ q.pc = "user"
    \/ q.op \in {"patch", "deactivate", "reactivate"} /\ q.pc \in {"user", "school", "save"}
HasUser(q) ==
    \/ q.op \in {"patch", "deactivate", "reactivate"} /\ q.pc \in {"school", "save"}
    \/ q.op = "edit" /\ q.pc \in {"ensure", "profile", "school", "save"}

\* What request r, being q, knows with the locks `own`.
KnowsAs(r, q, own) ==
    /\ HasInvite(q) => own[<<"invite", q.invite>>] = r
    /\ HasSchool(q) => own[<<"school", q.to>>] = r
    /\ HasProfile(q) => own[<<"profile", q.student>>] = r /\ Exists(q.student)
    /\ HasUser(q) => own[<<"user", q.student>>] = r
    /\ q.op = "reject" /\ q.pc = "user" => stu[q.student].pending
    /\ q.op = "accept" => inv[q.invite] # None
    /\ q.op = "accept" /\ q.pc = "save" =>
         inv[q.invite].status # "revoked" /\ (inv[q.invite].email # None => inv[q.invite].uses < 1)
Knows(r) == KnowsAs(r, req[r], owner)

DataOK ==
    /\ stu \in [Students -> Account \cup {None, Gone}]
    /\ cou \in [Counselors -> Schools]
    /\ inv \in [Invites -> Invite \cup {None}]
    /\ lapsed \subseteq Schools
    /\ stale \in BOOLEAN
RequestsOK ==
    /\ req \in [Requests -> {Idle} \cup Jobs] /\ \A r \in Requests : req[r] \in Jobs => Fit(req[r])
    /\ left \in [Ops -> Nat]
    /\ owner \in [Rows -> Requests \cup {None}]
Base == DataOK /\ RequestsOK /\ \A r \in Requests : Knows(r)

(***************************************************************************)
(* Facts about the data.                                                   *)
(***************************************************************************)
LEMMA IdFacts ==
    /\ None \notin Requests /\ None \notin Students /\ None \notin Invites /\ None \notin Emails
    /\ None \notin Counselors /\ None \notin Schools /\ None # Gone
    /\ None \notin Account /\ Gone \notin Account /\ None \notin Invite
    /\ Students \subseteq Nat /\ Invites \subseteq Nat
    /\ \A a \in Account : a \notin {None, Gone}
BY EnrollmentConstants

LEMMA RowFacts ==
    /\ \A s \in Students : <<"profile", s>> \in Rows /\ <<"user", s>> \in Rows
    /\ \A k \in Schools : <<"school", k>> \in Rows
    /\ \A i \in Invites : <<"invite", i>> \in Rows
BY DEF Rows

LEMMA IdleFacts ==
    /\ Idle.op = "none" /\ Idle.pc = "idle"
    /\ \A q \in Jobs : q.op \in Ops /\ q # Idle
    /\ "none" \notin Ops
BY DEF Idle, Jobs, Ops, Steps

LEMMA IdleKnows == ASSUME NEW r, NEW own PROVE KnowsAs(r, Idle, own)
BY DEF KnowsAs, Idle, HasInvite, HasSchool, HasProfile, HasUser

LEMMA JobType ==
    ASSUME RequestsOK, NEW r \in Requests, NEW ops \in SUBSET Ops, NEW pc, At(r, ops, pc)
    PROVE  req[r] \in Jobs /\ Fit(req[r]) /\ req[r].op \in ops /\ req[r].pc = pc
BY IdleFacts DEF RequestsOK, At

LEMMA LiveAccount ==
    ASSUME DataOK, NEW s \in Students, Exists(s) PROVE stu[s] \in Account
BY DEF DataOK, Exists

(***************************************************************************)
(* What a step of r leaves to the others.                                   *)
(***************************************************************************)
\* Locks are only taken when free and released by their owner.
LocksKept(r) == \A x \in Rows : owner[x] \notin {None, r} => owner'[x] = owner[x]

\* What is locked by another is not written.
DataKept(r) ==
    /\ \A s \in Students :
         Exists(s) /\ owner[<<"profile", s>>] \notin {None, r} =>
             Exists(s)' /\ stu'[s].pending = stu[s].pending
    /\ \A i \in Invites :
         inv[i] # None =>
             /\ inv'[i] # None
             /\ owner[<<"invite", i>>] \notin {None, r} =>
                  /\ inv'[i].email = inv[i].email /\ inv'[i].uses = inv[i].uses
                  /\ inv'[i].status = "revoked" => inv[i].status = "revoked"

LEMMA OtherKnows ==
    ASSUME Base, NEW r, NEW q \in Requests, q # r, req'[q] = req[q], LocksKept(r), DataKept(r)
    PROVE  Knows(q)'
<1> USE IdFacts, RowFacts
<1>1. Knows(q) /\ q # None /\ (req[q] = Idle \/ (req[q] \in Jobs /\ Fit(req[q])))
  BY DEF Base, RequestsOK
<1>2. CASE req[q] = Idle
  BY <1>2, IdleKnows DEF Knows, KnowsAs, Idle, HasInvite, HasSchool, HasProfile, HasUser
<1>3. CASE req[q] \in Jobs /\ Fit(req[q])
  <2>0. PICK job : job = req[q]
    OBVIOUS
  <2>1. HasInvite(job) => job.invite \in Invites /\ owner[<<"invite", job.invite>>] = q
    BY <1>1, <1>3, <2>0 DEF Knows, KnowsAs, Fit, HasInvite
  <2>2. HasSchool(job) => job.to \in Schools /\ owner[<<"school", job.to>>] = q
    BY <1>1, <1>3, <2>0 DEF Knows, KnowsAs, Fit, HasSchool
  <2>3. HasProfile(job) =>
          job.student \in Students /\ owner[<<"profile", job.student>>] = q /\ Exists(job.student)
    BY <1>1, <1>3, <2>0 DEF Knows, KnowsAs, Fit, HasProfile, OfStudent
  <2>4. HasUser(job) => job.student \in Students /\ owner[<<"user", job.student>>] = q
    BY <1>1, <1>3, <2>0 DEF Knows, KnowsAs, Fit, HasUser, OfStudent
  <2>5. /\ HasInvite(job) => owner'[<<"invite", job.invite>>] = q
        /\ HasSchool(job) => owner'[<<"school", job.to>>] = q
        /\ HasProfile(job) => owner'[<<"profile", job.student>>] = q /\ stu'[job.student] \notin {None, Gone}
        /\ HasUser(job) => owner'[<<"user", job.student>>] = q
    BY <1>1, <2>1, <2>2, <2>3, <2>4 DEF LocksKept, DataKept, Exists
  <2>6. job.op = "reject" /\ job.pc = "user" => stu'[job.student].pending
    <3> SUFFICES ASSUME job.op = "reject", job.pc = "user" PROVE stu'[job.student].pending
      OBVIOUS
    <3>1. HasProfile(job) /\ stu[job.student].pending
      BY <1>1, <2>0 DEF HasProfile, Knows, KnowsAs
    <3> QED
      BY <1>1, <2>3, <3>1 DEF DataKept
  <2>7. job.op = "accept" =>
          /\ inv'[job.invite] # None
          /\ job.pc = "save" =>
               /\ inv'[job.invite].status # "revoked"
               /\ inv'[job.invite].email # None => inv'[job.invite].uses < 1
    <3> SUFFICES ASSUME job.op = "accept"
                 PROVE  /\ inv'[job.invite] # None
                        /\ job.pc = "save" =>
                             /\ inv'[job.invite].status # "revoked"
                             /\ inv'[job.invite].email # None => inv'[job.invite].uses < 1
      OBVIOUS
    <3>1. job.invite \in Invites /\ inv[job.invite] # None
      BY <1>1, <1>3, <2>0 DEF Fit, Knows, KnowsAs
    <3>2. job.pc = "save" => HasInvite(job) /\ inv[job.invite].status # "revoked"
                             /\ (inv[job.invite].email # None => inv[job.invite].uses < 1)
      BY <1>1, <2>0 DEF HasInvite, Knows, KnowsAs
    <3> QED
      BY <1>1, <2>1, <3>1, <3>2 DEF DataKept
  <2>8. req'[q] = job
    BY <2>0
  <2> QED
    BY <2>5, <2>6, <2>7, <2>8 DEF Knows, KnowsAs, Exists
<1> QED
  BY <1>1, <1>2, <1>3

(***************************************************************************)
(* Steps of a request.                                                     *)
(***************************************************************************)
LEMMA Ended ==
    ASSUME Base, NEW r \in Requests, Finish(r), DataOK', DataKept(r), UNCHANGED left
    PROVE  Base'
<1> USE IdFacts
<1>1. /\ req \in [Requests -> {Idle} \cup Jobs] /\ req' = [req EXCEPT ![r] = Idle]
      /\ owner \in [Rows -> Requests \cup {None}]
      /\ owner' = [x \in Rows |-> IF owner[x] = r THEN None ELSE owner[x]]
  BY DEF Base, RequestsOK, Finish, Released
<1>2. req'[r] = Idle /\ \A q \in Requests : q # r => req'[q] = req[q]
  BY <1>1
<1>3. RequestsOK'
  BY <1>1, <1>2, IdleFacts DEF Base, RequestsOK
<1>4. LocksKept(r)
  BY <1>1 DEF LocksKept
<1>5. ASSUME NEW q \in Requests, q # r PROVE Knows(q)'
  BY <1>2, <1>4, <1>5, OtherKnows
<1>6. Knows(r)'
  BY <1>2 DEF Knows, KnowsAs, Idle, HasInvite, HasSchool, HasProfile, HasUser
<1> QED
  BY <1>3, <1>5, <1>6 DEF Base

LEMMA DataSame == ASSUME NEW r, UNCHANGED Data PROVE DataKept(r)
BY DEF Data, DataKept, Exists

LEMMA DataOKSame == ASSUME DataOK, UNCHANGED Data PROVE DataOK'
BY DEF Data, DataOK

\* Without a write, a request that ends changes nothing but its locks.
LEMMA Gave ==
    ASSUME Base, NEW r \in Requests, Finish(r), UNCHANGED <<Data, left>>
    PROVE  Base'
BY Ended, DataSame, DataOKSame DEF Base

LEMMA Went ==
    ASSUME Base, NEW r \in Requests, NEW job \in Jobs, Fit(job), req' = [req EXCEPT ![r] = job],
           UNCHANGED <<Data, left>>, owner' \in [Rows -> Requests \cup {None}], LocksKept(r),
           KnowsAs(r, job, owner')
    PROVE  Base'
<1>1. req \in [Requests -> {Idle} \cup Jobs]
  BY DEF Base, RequestsOK
<1>2. req'[r] = job /\ \A q \in Requests : q # r => req'[q] = req[q]
  BY <1>1
<1>3. RequestsOK'
  BY <1>1, <1>2, IdleFacts DEF Base, RequestsOK
<1>4. DataOK' /\ DataKept(r)
  BY DataSame, DataOKSame DEF Base
<1>5. ASSUME NEW q \in Requests, q # r PROVE Knows(q)'
  BY <1>2, <1>4, <1>5, OtherKnows
<1>6. Knows(r)'
  BY <1>2 DEF Knows, KnowsAs, Data, Exists
<1> QED
  BY <1>3, <1>4, <1>5, <1>6 DEF Base

\* Taking a lock, or answering without it.
LEMMA Taken1 ==
    ASSUME Base, NEW r \in Requests, NEW x \in Rows, owner[x] \in {None, r},
           owner' = [owner EXCEPT ![x] = r]
    PROVE  /\ owner' \in [Rows -> Requests \cup {None}] /\ LocksKept(r) /\ owner'[x] = r
           /\ \A y \in Rows : owner[y] = r => owner'[y] = r
BY DEF Base, RequestsOK, LocksKept

LEMMA BeginSafe ==
    ASSUME Base, NEW r \in Requests, NEW job \in Jobs, Fit(job), Begin(r, job), KnowsAs(r, job, owner)
    PROVE  Base'
<1>1. req' = [req EXCEPT ![r] = job] /\ UNCHANGED <<Data, owner>> /\ left' = [left EXCEPT ![job.op] = @ - 1]
  BY DEF Begin, Data
<1>2. req \in [Requests -> {Idle} \cup Jobs] /\ left[job.op] > 0
  BY DEF Base, RequestsOK, Begin
<1>3. req'[r] = job /\ \A q \in Requests : q # r => req'[q] = req[q]
  BY <1>1, <1>2
<1>4. left' \in [Ops -> Nat]
  BY <1>1, <1>2, IdleFacts DEF Base, RequestsOK
<1>5. RequestsOK'
  BY <1>1, <1>2, <1>3, <1>4, IdleFacts DEF Base, RequestsOK
<1>6. DataOK' /\ DataKept(r) /\ LocksKept(r)
  BY <1>1, DataSame, DataOKSame DEF Base, LocksKept
<1>7. ASSUME NEW q \in Requests, q # r PROVE Knows(q)'
  BY <1>3, <1>6, <1>7, OtherKnows
<1>8. Knows(r)'
  BY <1>1, <1>3 DEF Knows, KnowsAs, Data, Exists
<1> QED
  BY <1>5, <1>6, <1>7, <1>8 DEF Base

(***************************************************************************)
(* A request arrives.                                                      *)
(***************************************************************************)
LEMMA ArriveSafe == ASSUME Base, NEW r \in Requests, Arrive(r) PROVE Base'
<1>0. DataOK
  BY DEF Base
<1>1. CASE BeginAccept(r)
  <2>1. PICK i \in Invites, e \in Emails \cup {None} :
          inv[i] # None /\ Begin(r, Job("accept", "invite", None, i, inv[i].school, inv[i].counselor, e, None))
    BY <1>1 DEF BeginAccept
  <2>2. inv[i].school \in Schools /\ inv[i].counselor \in Counselors
    BY <1>0, <2>1 DEF DataOK, Invite
  <2>3. PICK job : job = Job("accept", "invite", None, i, inv[i].school, inv[i].counselor, e, None)
    OBVIOUS
  <2>4. /\ job \in Jobs /\ job.op = "accept" /\ job.pc = "invite" /\ job.student = None
        /\ job.invite = i /\ job.to \in Schools
    BY <2>2, <2>3, IdFacts DEF Ops, Steps, Job, Jobs
  <2>5. Fit(job) /\ KnowsAs(r, job, owner)
    BY <2>1, <2>4 DEF Fit, OfStudent, KnowsAs, HasInvite, HasSchool, HasProfile, HasUser
  <2> QED
    BY <2>1, <2>3, <2>4, <2>5, BeginSafe
<1>2. CASE BeginCreate(r)
  <2>1. PICK c \in Counselors \cup {None}, k \in Schools, e \in Emails \cup {None} :
          Begin(r, Job("create", "school", None, None, k, c, e, None))
    BY <1>2 DEF BeginCreate
  <2>2. PICK job : job = Job("create", "school", None, None, k, c, e, None)
    OBVIOUS
  <2>3. job \in Jobs /\ job.op = "create" /\ job.pc = "school" /\ job.student = None /\ job.to = k
    BY <2>2, IdFacts DEF Ops, Steps, Job, Jobs
  <2>4. Fit(job) /\ KnowsAs(r, job, owner)
    BY <2>3 DEF Fit, OfStudent, KnowsAs, HasInvite, HasSchool, HasProfile, HasUser
  <2> QED
    BY <2>1, <2>2, <2>3, <2>4, BeginSafe
<1>3. CASE BeginDecide(r) \/ BeginSetActive(r)
  <2>1. PICK op \in {"confirm", "reject", "deactivate", "reactivate"}, s \in Students :
          Begin(r, Job(op, "profile", s, None, None, None, None, None))
    BY <1>3 DEF BeginDecide, BeginSetActive
  <2>2. PICK job : job = Job(op, "profile", s, None, None, None, None, None)
    OBVIOUS
  <2>3. job \in Jobs /\ job.op = op /\ job.pc = "profile" /\ job.student = s
    BY <2>2, IdFacts DEF Ops, Steps, Job, Jobs
  <2>4. Fit(job) /\ KnowsAs(r, job, owner)
    BY <2>3 DEF Fit, OfStudent, KnowsAs, HasInvite, HasSchool, HasProfile, HasUser
  <2> QED
    BY <2>1, <2>2, <2>3, <2>4, BeginSafe
<1>4. CASE BeginPatch(r)
  <2>1. PICK s \in Students, k \in Schools, pc \in {"write", "profile"} :
          Exists(s) /\ Begin(r, Job("patch", pc, s, None, k, None, None, stu[s]))
    BY <1>4 DEF BeginPatch
  <2>2. stu[s] \in Account
    BY <1>0, <2>1, LiveAccount
  <2>3. PICK job : job = Job("patch", pc, s, None, k, None, None, stu[s])
    OBVIOUS
  <2>4. job \in Jobs /\ job.op = "patch" /\ job.pc = pc /\ job.student = s /\ job.to = k /\ job.seen \in Account
    BY <2>2, <2>3, IdFacts DEF Ops, Steps, Job, Jobs
  <2>5. Fit(job) /\ KnowsAs(r, job, owner)
    BY <2>4 DEF Fit, OfStudent, KnowsAs, HasInvite, HasSchool, HasProfile, HasUser
  <2> QED
    BY <2>1, <2>3, <2>4, <2>5, BeginSafe
<1>5. CASE BeginEdit(r)
  <2>1. PICK s \in Students :
          Exists(s) /\ Begin(r, Job("edit", "user", s, None, None, None, None, stu[s]))
    BY <1>5 DEF BeginEdit
  <2>2. stu[s] \in Account
    BY <1>0, <2>1, LiveAccount
  <2>3. PICK job : job = Job("edit", "user", s, None, None, None, None, stu[s])
    OBVIOUS
  <2>4. job \in Jobs /\ job.op = "edit" /\ job.pc = "user" /\ job.student = s /\ job.seen \in Account
    BY <2>2, <2>3, IdFacts DEF Ops, Steps, Job, Jobs
  <2>5. Fit(job) /\ KnowsAs(r, job, owner)
    BY <2>4 DEF Fit, OfStudent, KnowsAs, HasInvite, HasSchool, HasProfile, HasUser
  <2> QED
    BY <2>1, <2>3, <2>4, <2>5, BeginSafe
<1>6. CASE BeginAssign(r)
  <2>1. PICK c \in Counselors, admin \in BOOLEAN, list \in SUBSET Students, s \in Students :
          /\ s \in list
          /\ Begin(r, Job("assign", "profile", s, None, cou[c], c, None,
                          [admin |-> admin, list |-> list, rest |-> list \ {s},
                           there |-> \A t \in list : stu[t].acct = cou[c]]))
    BY <1>6 DEF BeginAssign
  <2>2. PICK there \in BOOLEAN : there = \A t \in list : stu[t].acct = cou[c]
    OBVIOUS
  <2>3. PICK seen : seen = [admin |-> admin, list |-> list, rest |-> list \ {s}, there |-> there]
    OBVIOUS
  <2>4. PICK job : job = Job("assign", "profile", s, None, cou[c], c, None, seen)
    OBVIOUS
  <2>5. cou[c] \in Schools /\ seen \in Lists
    BY <1>0, <2>3 DEF DataOK, Lists
  <2>6. /\ job \in Jobs /\ job.op = "assign" /\ job.pc = "profile" /\ job.student = s /\ job.counselor = c
        /\ job.seen = seen
    BY <2>4, <2>5, IdFacts DEF Ops, Steps, Job, Jobs
  <2>7. Fit(job) /\ KnowsAs(r, job, owner)
    BY <2>5, <2>6 DEF Fit, OfStudent, KnowsAs, HasInvite, HasSchool, HasProfile, HasUser
  <2>8. Begin(r, job)
    BY <2>1, <2>2, <2>3, <2>4
  <2> QED
    BY <2>6, <2>7, <2>8, BeginSafe
<1>7. CASE BeginTransfer(r)
  <2>1. PICK c \in Counselors, k \in Schools :
          Begin(r, Job("transfer", "school", None, None, k, c, None, None))
    BY <1>7 DEF BeginTransfer
  <2>2. PICK job : job = Job("transfer", "school", None, None, k, c, None, None)
    OBVIOUS
  <2>3. job \in Jobs /\ job.op = "transfer" /\ job.pc = "school" /\ job.to = k /\ job.counselor = c
    BY <2>2, IdFacts DEF Ops, Steps, Job, Jobs
  <2>4. Fit(job) /\ KnowsAs(r, job, owner)
    BY <2>3 DEF Fit, OfStudent, KnowsAs, HasInvite, HasSchool, HasProfile, HasUser
  <2> QED
    BY <2>1, <2>2, <2>3, <2>4, BeginSafe
<1> QED
  BY <1>1, <1>2, <1>3, <1>4, <1>5, <1>6, <1>7 DEF Arrive

(***************************************************************************)
(* A request waits for a lock and checks.                                  *)
(***************************************************************************)
\* KnowsAs once r has also taken the lock x.
KnowsWith(r, q, x) ==
    LET holds(y) == owner[y] = r \/ y = x IN
    /\ HasInvite(q) => holds(<<"invite", q.invite>>)
    /\ HasSchool(q) => holds(<<"school", q.to>>)
    /\ HasProfile(q) => holds(<<"profile", q.student>>) /\ Exists(q.student)
    /\ HasUser(q) => holds(<<"user", q.student>>)
    /\ q.op = "reject" /\ q.pc = "user" => stu[q.student].pending
    /\ q.op = "accept" => inv[q.invite] # None
    /\ q.op = "accept" /\ q.pc = "save" =>
         inv[q.invite].status # "revoked" /\ (inv[q.invite].email # None => inv[q.invite].uses < 1)

LEMMA KnowsOnce ==
    ASSUME Base, NEW r \in Requests, NEW q \in Jobs, Fit(q), NEW x \in Rows, KnowsWith(r, q, x),
           owner' = [owner EXCEPT ![x] = r]
    PROVE  KnowsAs(r, q, owner')
<1>1. \A y \in Rows : owner[y] = r \/ y = x => owner'[y] = r
  BY DEF Base, RequestsOK
<1>2. HasInvite(q) => <<"invite", q.invite>> \in Rows
  BY RowFacts DEF HasInvite, Fit
<1>3. HasSchool(q) => <<"school", q.to>> \in Rows
  BY RowFacts DEF HasSchool, Fit
<1>4. HasProfile(q) \/ HasUser(q) => <<"profile", q.student>> \in Rows /\ <<"user", q.student>> \in Rows
  BY RowFacts DEF HasProfile, HasUser, Fit, OfStudent
<1> QED
  BY <1>1, <1>2, <1>3, <1>4 DEF KnowsWith, KnowsAs

\* With the lock x in hand the request goes on as `job`, or it answers.
LEMMA LockSafe ==
    ASSUME Base, NEW r \in Requests, NEW job, NEW x \in Rows, NEW ok \in BOOLEAN,
           UNCHANGED <<Data, left>>,
           IF ok THEN owner[x] \in {None, r} /\ owner' = [owner EXCEPT ![x] = r] /\ req' = [req EXCEPT ![r] = job]
                 ELSE Finish(r),
           ok => job \in Jobs /\ Fit(job) /\ KnowsWith(r, job, x)
    PROVE  Base'
<1>1. CASE ok
  <2>1. KnowsAs(r, job, owner')
    BY <1>1, KnowsOnce
  <2>2. owner' \in [Rows -> Requests \cup {None}] /\ LocksKept(r)
    BY <1>1, Taken1
  <2> QED
    BY <1>1, <2>1, <2>2, Went
<1>2. CASE ~ok
  BY <1>2, Gave
<1> QED
  BY <1>1, <1>2

LEMMA AdvancedJob ==
    ASSUME Base, NEW r \in Requests, req[r] \in Jobs, NEW next \in Steps
    PROVE  /\ [req[r] EXCEPT !.pc = next] \in Jobs
           /\ [req[r] EXCEPT !.pc = next].pc = next
           /\ [req[r] EXCEPT !.pc = next].op = req[r].op
           /\ [req[r] EXCEPT !.pc = next].student = req[r].student
           /\ [req[r] EXCEPT !.pc = next].invite = req[r].invite
           /\ [req[r] EXCEPT !.pc = next].to = req[r].to
           /\ [req[r] EXCEPT !.pc = next].counselor = req[r].counselor
           /\ [req[r] EXCEPT !.pc = next].seen = req[r].seen
           /\ [req EXCEPT ![r].pc = next] = [req EXCEPT ![r] = [req[r] EXCEPT !.pc = next]]
BY DEF Jobs, Base, RequestsOK

\* Take, where what the request knows next follows from what it knows and from x.
LEMMA TakeSafe ==
    ASSUME Base, NEW r \in Requests, req[r] \in Jobs, NEW x \in Rows, NEW next \in Steps,
           NEW ok \in BOOLEAN, Take(r, x, ok, next), UNCHANGED <<Data, left>>,
           NEW job, job = [req[r] EXCEPT !.pc = next],
           ok => Fit(job) /\ KnowsWith(r, job, x)
    PROVE  Base'
<1>1. job \in Jobs /\ [req EXCEPT ![r].pc = next] = [req EXCEPT ![r] = job]
  BY AdvancedJob
<1>2. IF ok THEN owner[x] \in {None, r} /\ owner' = [owner EXCEPT ![x] = r] /\ req' = [req EXCEPT ![r] = job]
            ELSE Finish(r)
  BY <1>1 DEF Take
<1> QED
  BY <1>1, <1>2, LockSafe

\* An assignment or a transfer locks the next of its rows, or passes it over.
LEMMA ListStep ==
    ASSUME Base, NEW r \in Requests, LockList(r) \/ LockAssign(r) \/ StartClear(r) \/ LockClear(r)
    PROVE  /\ UNCHANGED <<Data, left>> /\ req[r] \in Jobs
           /\ req[r].op \in {"assign", "transfer"} /\ (req[r].op = "assign" => req[r].pc = "profile")
           /\ \/ Finish(r)
              \/ \E job \in Jobs :
                   /\ Fit(job) /\ job.op = req[r].op /\ job.pc \in {"profile", "save"}
                   /\ req' = [req EXCEPT ![r] = job]
                   /\ \/ UNCHANGED owner
                      \/ \E x \in Rows :
                           /\ x[1] = "profile" /\ owner[x] = None
                           /\ req[r].pc = "profile" /\ owner' = [owner EXCEPT ![x] = r]
<1> USE IdFacts, RowFacts
<1>0. DataOK /\ RequestsOK
  BY DEF Base
<1>1. /\ req[r] \in Jobs /\ Fit(req[r]) /\ req[r].op \in {"assign", "transfer"}
      /\ req[r].op = "assign" => req[r].pc = "profile"
  <2>1. CASE LockList(r)
    BY <1>0, <2>1, JobType DEF LockList, Ops
  <2>2. CASE LockAssign(r)
    <3>1. At(r, {"assign"}, "profile")
      BY <2>2 DEF LockAssign
    <3> QED
      BY <1>0, <3>1, JobType DEF Ops
  <2>3. CASE StartClear(r) \/ LockClear(r)
    <3>1. ASSUME NEW pc, At(r, {"transfer"}, pc)
          PROVE  req[r] \in Jobs /\ Fit(req[r]) /\ req[r].op = "transfer"
      BY <1>0, <3>1, JobType DEF Ops
    <3> QED
      BY <2>3, <3>1 DEF StartClear, LockClear
  <2> QED
    BY <2>1, <2>2, <2>3
<1>2. UNCHANGED <<Data, left>>
  BY DEF LockList, LockAssign, StartClear, LockClear
<1>3. ASSUME LockNext(r), req[r].pc = "profile"
      PROVE  \/ UNCHANGED owner
             \/ \E x \in Rows :
                  /\ x[1] = "profile" /\ owner[x] = None
                  /\ req[r].pc = "profile" /\ owner' = [owner EXCEPT ![x] = r]
  <2>1. PICK x \in Rows : x = <<"profile", req[r].student>>
    BY <1>1, <1>3 DEF Fit
  <2> QED
    BY <1>3, <2>1 DEF LockNext
<1>4. ASSUME NEW next \in Steps, next = "save", req' = [req EXCEPT ![r].pc = next]
      PROVE  \E job \in Jobs : /\ Fit(job) /\ job.op = req[r].op /\ job.pc \in {"profile", "save"}
                               /\ req' = [req EXCEPT ![r] = job]
  <2>1. PICK job : job = [req[r] EXCEPT !.pc = next]
    OBVIOUS
  <2>2. /\ job \in Jobs /\ job.pc = "save" /\ job.op = req[r].op /\ job.student = req[r].student
        /\ job.to = req[r].to /\ job.counselor = req[r].counselor /\ req' = [req EXCEPT ![r] = job]
    BY <1>1, <1>4, <2>1, AdvancedJob
  <2>3. Fit(job)
    BY <1>1, <2>2 DEF Fit, OfStudent
  <2> QED
    BY <2>2, <2>3
<1>5. "save" \in Steps
  BY DEF Steps
<1>6. CASE LockList(r)
  <2>1. PICK next \in req[r].seen.rest :
          /\ req' = [req EXCEPT ![r].student = next, ![r].seen.rest = @ \ {next}]
          /\ LockNext(r) /\ req[r].pc = "profile"
    BY <1>6 DEF LockList, At
  <2>2. req[r].seen \in Lists /\ next \in Students
    BY <1>1, <2>1 DEF Fit, Lists
  <2>3. PICK seen : seen = [req[r].seen EXCEPT !.rest = @ \ {next}]
    OBVIOUS
  <2>4. seen \in Lists
    BY <2>2, <2>3 DEF Lists
  <2>5. PICK job : job = [req[r] EXCEPT !.student = next, !.seen = seen]
    OBVIOUS
  <2>6. /\ job \in Jobs /\ job.op = req[r].op /\ job.pc = req[r].pc /\ job.student = next
        /\ job.seen = seen /\ job.to = req[r].to /\ job.counselor = req[r].counselor
    BY <1>1, <2>2, <2>4, <2>5 DEF Jobs
  <2>7. Fit(job)
    BY <1>1, <2>1, <2>2, <2>4, <2>6 DEF Fit, OfStudent
  <2>8. req' = [req EXCEPT ![r] = job]
    <3>1. [req[r] EXCEPT !.student = next, !.seen.rest = @ \ {next}] = job
      BY <2>3, <2>5
    <3>2. [req EXCEPT ![r].student = next, ![r].seen.rest = @ \ {next}]
            = [req EXCEPT ![r] = [req[r] EXCEPT !.student = next, !.seen.rest = @ \ {next}]]
      BY <1>0 DEF RequestsOK
    <3> QED
      BY <2>1, <3>1, <3>2
  <2> QED
    BY <1>1, <1>2, <1>3, <2>1, <2>6, <2>7, <2>8
<1>7. CASE LockAssign(r) \/ LockClear(r)
  <2>1. CASE Finish(r)
    BY <1>1, <1>2, <2>1
  <2>2. CASE ~Finish(r)
    <3>1. LockNext(r) /\ req' = [req EXCEPT ![r].pc = "save"] /\ req[r].pc = "profile"
      BY <1>7, <2>2 DEF LockAssign, LockClear, At
    <3> QED
      BY <1>1, <1>2, <1>3, <1>4, <1>5, <3>1
  <2> QED
    BY <2>1, <2>2
<1>8. CASE StartClear(r)
  <2>1. UNCHANGED owner /\ req[r].pc = "clear"
    BY <1>8 DEF StartClear, At
  <2>2. CASE req' = [req EXCEPT ![r].pc = "save"]
    BY <1>1, <1>2, <1>4, <1>5, <2>1, <2>2
  <2>3. ASSUME NEW Found \in SUBSET Students, NEW first \in Found,
               req' = [req EXCEPT ![r].pc = "profile", ![r].student = first,
                                  ![r].seen = [rest |-> Found \ {first}]]
        PROVE  \E job \in Jobs : /\ Fit(job) /\ job.op = req[r].op /\ job.pc \in {"profile", "save"}
                                 /\ req' = [req EXCEPT ![r] = job]
    <3>1. PICK seen : seen = [rest |-> Found \ {first}]
      OBVIOUS
    <3>2. PICK job : job = [req[r] EXCEPT !.pc = "profile", !.student = first, !.seen = seen]
      OBVIOUS
    <3>3. seen \in Lists
      BY <3>1 DEF Lists
    <3>4. /\ job \in Jobs /\ job.op = req[r].op /\ job.pc = "profile" /\ job.student = first
          /\ job.seen = seen /\ job.to = req[r].to /\ job.counselor = req[r].counselor
      BY <1>1, <3>2, <3>3 DEF Jobs, Steps
    <3>5. Fit(job)
      BY <1>1, <3>3, <3>4 DEF Fit, OfStudent
    <3>6. req' = [req EXCEPT ![r] = job]
      BY <1>0, <2>3, <3>1, <3>2, ZenonT(60) DEF RequestsOK
    <3> QED
      BY <3>4, <3>5, <3>6
  <2>4. PICK Found \in SUBSET Students : Found = Outside(req[r].counselor, req[r].to)
    BY DEF Outside
  <2> QED
    BY <1>1, <1>2, <1>8, <2>1, <2>2, <2>3, <2>4 DEF StartClear
<1> QED
  BY <1>6, <1>7, <1>8

LEMMA WaitSafe == ASSUME Base, NEW r \in Requests, Wait(r) PROVE Base'
<1> USE IdFacts, RowFacts
<1>0. DataOK /\ RequestsOK /\ Knows(r)
  BY DEF Base
<1>1. CASE FindInvite(r)
  <2>1. req[r] \in Jobs /\ Fit(req[r]) /\ req[r].op \in {"accept"} /\ req[r].pc = "invite"
    BY <1>0, <1>1, JobType DEF FindInvite, Ops
  <2>2. PICK ok \in BOOLEAN : ok <=> Usable(req[r].invite) /\ ~Taken(req[r].email)
    OBVIOUS
  <2>3. PICK next \in Steps : next = "school"
    BY DEF Steps
  <2>4. Take(r, <<"invite", req[r].invite>>, ok, next) /\ UNCHANGED <<Data, left>>
    BY <1>1, <2>2, <2>3 DEF FindInvite, Take
  <2>5. PICK job : job = [req[r] EXCEPT !.pc = next]
    OBVIOUS
  <2>6. /\ job.pc = next /\ job.op = req[r].op /\ job.student = req[r].student /\ job.to = req[r].to
        /\ job.invite = req[r].invite /\ job.counselor = req[r].counselor /\ job.seen = req[r].seen
    BY <2>1, <2>5, AdvancedJob
  <2>7. <<"invite", req[r].invite>> \in Rows
    BY <2>1 DEF Fit, OfStudent
  <2>8. ok => Fit(job)
    BY <2>1, <2>2, <2>3, <2>6 DEF Fit, OfStudent
  <2>9. ok => KnowsWith(r, job, <<"invite", req[r].invite>>)
    BY <1>0, <2>1, <2>2, <2>3, <2>6 DEF Knows, KnowsAs, KnowsWith, HasInvite, HasSchool,
       HasProfile, HasUser
  <2> QED
    BY <2>1, <2>4, <2>5, <2>7, <2>8, <2>9, TakeSafe
<1>2. CASE Accepting(r)
  <2>1. req[r] \in Jobs /\ Fit(req[r]) /\ req[r].op \in {"accept"} /\ req[r].pc = "school"
    BY <1>0, <1>2, JobType DEF Accepting, Ops
  <2>2. PICK ok \in BOOLEAN : ok <=> req[r].to \notin lapsed /\ Cardinality(Waiting(req[r].to)) < PendingCap
    OBVIOUS
  <2>3. PICK next \in Steps : next = "claim"
    BY DEF Steps
  <2>4. Take(r, <<"school", req[r].to>>, ok, next) /\ UNCHANGED <<Data, left>>
    BY <1>2, <2>2, <2>3 DEF Accepting, Take
  <2>5. PICK job : job = [req[r] EXCEPT !.pc = next]
    OBVIOUS
  <2>6. /\ job.pc = next /\ job.op = req[r].op /\ job.student = req[r].student /\ job.to = req[r].to
        /\ job.invite = req[r].invite /\ job.counselor = req[r].counselor /\ job.seen = req[r].seen
    BY <2>1, <2>5, AdvancedJob
  <2>7. <<"school", req[r].to>> \in Rows
    BY <2>1 DEF Fit, OfStudent
  <2>8. ok => Fit(job)
    BY <2>1, <2>2, <2>3, <2>6 DEF Fit, OfStudent
  <2>9. ok => KnowsWith(r, job, <<"school", req[r].to>>)
    BY <1>0, <2>1, <2>2, <2>3, <2>6 DEF Knows, KnowsAs, KnowsWith, HasInvite, HasSchool,
       HasProfile, HasUser
  <2> QED
    BY <2>1, <2>4, <2>5, <2>7, <2>8, <2>9, TakeSafe
<1>3. CASE CheckSeat(r)
  <2>1. req[r] \in Jobs /\ Fit(req[r]) /\ req[r].op \in {"create", "confirm", "patch", "edit", "reactivate"} /\ req[r].pc = "school"
    BY <1>0, <1>3, JobType, SMTT(60) DEF CheckSeat, Ops
  <2>2. PICK ok \in BOOLEAN : ok <=> SeatFits(req[r].to, req[r].student)
    OBVIOUS
  <2>3. PICK next \in Steps : next = "save"
    BY DEF Steps
  <2>4. Take(r, <<"school", req[r].to>>, ok, next) /\ UNCHANGED <<Data, left>>
    BY <1>3, <2>2, <2>3 DEF CheckSeat, Take
  <2>5. PICK job : job = [req[r] EXCEPT !.pc = next]
    OBVIOUS
  <2>6. /\ job.pc = next /\ job.op = req[r].op /\ job.student = req[r].student /\ job.to = req[r].to
        /\ job.invite = req[r].invite /\ job.counselor = req[r].counselor /\ job.seen = req[r].seen
    BY <2>1, <2>5, AdvancedJob
  <2>7. <<"school", req[r].to>> \in Rows
    BY <2>1 DEF Fit, OfStudent
  <2>8. ok => Fit(job)
    BY <2>1, <2>2, <2>3, <2>6 DEF Fit, OfStudent
  <2>9. ok => KnowsWith(r, job, <<"school", req[r].to>>)
    BY <1>0, <2>1, <2>2, <2>3, <2>6 DEF Knows, KnowsAs, KnowsWith, HasInvite, HasSchool,
       HasProfile, HasUser
  <2> QED
    BY <2>1, <2>4, <2>5, <2>7, <2>8, <2>9, TakeSafe
<1>4. CASE LockReject(r)
  <2>1. req[r] \in Jobs /\ Fit(req[r]) /\ req[r].op \in {"reject"} /\ req[r].pc = "profile"
    BY <1>0, <1>4, JobType DEF LockReject, Ops
  <2>2. PICK ok \in BOOLEAN : ok <=> Exists(req[r].student) /\ stu[req[r].student].pending
    OBVIOUS
  <2>3. PICK next \in Steps : next = "user"
    BY DEF Steps
  <2>4. Take(r, <<"profile", req[r].student>>, ok, next) /\ UNCHANGED <<Data, left>>
    BY <1>4, <2>2, <2>3 DEF LockReject, Take
  <2>5. PICK job : job = [req[r] EXCEPT !.pc = next]
    OBVIOUS
  <2>6. /\ job.pc = next /\ job.op = req[r].op /\ job.student = req[r].student /\ job.to = req[r].to
        /\ job.invite = req[r].invite /\ job.counselor = req[r].counselor /\ job.seen = req[r].seen
    BY <2>1, <2>5, AdvancedJob
  <2>7. <<"profile", req[r].student>> \in Rows
    BY <2>1 DEF Fit, OfStudent
  <2>8. ok => Fit(job)
    BY <2>1, <2>2, <2>3, <2>6 DEF Fit, OfStudent
  <2>9. ok => KnowsWith(r, job, <<"profile", req[r].student>>)
    BY <1>0, <2>1, <2>2, <2>3, <2>6 DEF Knows, KnowsAs, KnowsWith, HasInvite, HasSchool,
       HasProfile, HasUser
  <2> QED
    BY <2>1, <2>4, <2>5, <2>7, <2>8, <2>9, TakeSafe
<1>5. CASE LockProfile(r)
  <2>1. req[r] \in Jobs /\ Fit(req[r]) /\ req[r].op \in {"patch", "deactivate", "reactivate"} /\ req[r].pc = "profile"
    BY <1>0, <1>5, JobType, ZenonT(60) DEF LockProfile, Ops
  <2>2. PICK ok \in BOOLEAN : ok <=> Exists(req[r].student)
    OBVIOUS
  <2>3. PICK next \in Steps : next = "user"
    BY DEF Steps
  <2>4. Take(r, <<"profile", req[r].student>>, ok, next) /\ UNCHANGED <<Data, left>>
    BY <1>5, <2>2, <2>3 DEF LockProfile, Take
  <2>5. PICK job : job = [req[r] EXCEPT !.pc = next]
    OBVIOUS
  <2>6. /\ job.pc = next /\ job.op = req[r].op /\ job.student = req[r].student /\ job.to = req[r].to
        /\ job.invite = req[r].invite /\ job.counselor = req[r].counselor /\ job.seen = req[r].seen
    BY <2>1, <2>5, AdvancedJob
  <2>7. <<"profile", req[r].student>> \in Rows
    BY <2>1 DEF Fit, OfStudent
  <2>8. ok => Fit(job)
    BY <2>1, <2>2, <2>3, <2>6 DEF Fit, OfStudent
  <2>9. ok => KnowsWith(r, job, <<"profile", req[r].student>>)
    BY <1>0, <2>1, <2>2, <2>3, <2>6 DEF Knows, KnowsAs, KnowsWith, HasInvite, HasSchool,
       HasProfile, HasUser
  <2> QED
    BY <2>1, <2>4, <2>5, <2>7, <2>8, <2>9, TakeSafe
<1>6. CASE LockMove(r)
  <2>1. req[r] \in Jobs /\ Fit(req[r]) /\ req[r].op \in {"patch"} /\ req[r].pc = "user"
    BY <1>0, <1>6, JobType DEF LockMove, Ops
  <2>2. PICK ok \in BOOLEAN : ok <=> TRUE
    OBVIOUS
  <2>3. PICK next \in Steps : next = IF stu[req[r].student].school = req[r].to /\ stu[req[r].student].acct = req[r].to THEN "write"
                                   ELSE IF stu[req[r].student].active THEN "school" ELSE "save"
    BY DEF Steps
  <2>4. Take(r, <<"user", req[r].student>>, ok, next) /\ UNCHANGED <<Data, left>>
    BY <1>6, <2>2, <2>3 DEF LockMove, Take
  <2>5. PICK job : job = [req[r] EXCEPT !.pc = next]
    OBVIOUS
  <2>6. /\ job.pc = next /\ job.op = req[r].op /\ job.student = req[r].student /\ job.to = req[r].to
        /\ job.invite = req[r].invite /\ job.counselor = req[r].counselor /\ job.seen = req[r].seen
    BY <2>1, <2>5, AdvancedJob
  <2>7. <<"user", req[r].student>> \in Rows
    BY <2>1 DEF Fit, OfStudent
  <2>8. ok => Fit(job)
    BY <2>1, <2>2, <2>3, <2>6 DEF Fit, OfStudent
  <2>9. ok => KnowsWith(r, job, <<"user", req[r].student>>)
    BY <1>0, <2>1, <2>2, <2>3, <2>6 DEF Knows, KnowsAs, KnowsWith, HasInvite, HasSchool,
       HasProfile, HasUser
  <2> QED
    BY <2>1, <2>4, <2>5, <2>7, <2>8, <2>9, TakeSafe
<1>7. CASE LockEdit(r)
  <2>1. req[r] \in Jobs /\ Fit(req[r]) /\ req[r].op \in {"edit"} /\ req[r].pc = "user"
    BY <1>0, <1>7, JobType DEF LockEdit, Ops
  <2>2. PICK ok \in BOOLEAN : ok <=> Exists(req[r].student) \/ ~Taken(req[r].seen.email)
    OBVIOUS
  <2>3. PICK next \in Steps : next = "ensure"
    BY DEF Steps
  <2>4. Take(r, <<"user", req[r].student>>, ok, next) /\ UNCHANGED <<Data, left>>
    BY <1>7, <2>2, <2>3 DEF LockEdit, Take
  <2>5. PICK job : job = [req[r] EXCEPT !.pc = next]
    OBVIOUS
  <2>6. /\ job.pc = next /\ job.op = req[r].op /\ job.student = req[r].student /\ job.to = req[r].to
        /\ job.invite = req[r].invite /\ job.counselor = req[r].counselor /\ job.seen = req[r].seen
    BY <2>1, <2>5, AdvancedJob
  <2>7. <<"user", req[r].student>> \in Rows
    BY <2>1 DEF Fit, OfStudent
  <2>8. ok => Fit(job)
    BY <2>1, <2>2, <2>3, <2>6 DEF Fit, OfStudent
  <2>9. ok => KnowsWith(r, job, <<"user", req[r].student>>)
    BY <1>0, <2>1, <2>2, <2>3, <2>6 DEF Knows, KnowsAs, KnowsWith, HasInvite, HasSchool,
       HasProfile, HasUser
  <2> QED
    BY <2>1, <2>4, <2>5, <2>7, <2>8, <2>9, TakeSafe
<1>8. CASE LockEditMove(r)
  <2>1. req[r] \in Jobs /\ Fit(req[r]) /\ req[r].op \in {"edit"} /\ req[r].pc = "profile"
    BY <1>0, <1>8, JobType DEF LockEditMove, Ops
  <2>2. PICK ok \in BOOLEAN : ok <=> TRUE
    OBVIOUS
  <2>3. PICK next \in Steps : next = IF stu[req[r].student].school # req[r].to /\ req[r].seen.active THEN "school" ELSE "save"
    BY DEF Steps
  <2>4. Take(r, <<"profile", req[r].student>>, ok, next) /\ UNCHANGED <<Data, left>>
    BY <1>8, <2>2, <2>3 DEF LockEditMove, Take
  <2>5. PICK job : job = [req[r] EXCEPT !.pc = next]
    OBVIOUS
  <2>6. /\ job.pc = next /\ job.op = req[r].op /\ job.student = req[r].student /\ job.to = req[r].to
        /\ job.invite = req[r].invite /\ job.counselor = req[r].counselor /\ job.seen = req[r].seen
    BY <2>1, <2>5, AdvancedJob
  <2>7. <<"profile", req[r].student>> \in Rows
    BY <2>1 DEF Fit, OfStudent
  <2>8. ok => Fit(job)
    BY <2>1, <2>2, <2>3, <2>6 DEF Fit, OfStudent
  <2>9. ok => KnowsWith(r, job, <<"profile", req[r].student>>)
    BY <1>0, <2>1, <2>2, <2>3, <2>6 DEF Knows, KnowsAs, KnowsWith, HasInvite, HasSchool,
       HasProfile, HasUser
  <2> QED
    BY <2>1, <2>4, <2>5, <2>7, <2>8, <2>9, TakeSafe
<1>9. CASE LockList(r) \/ LockAssign(r) \/ StartClear(r) \/ LockClear(r)
  <2>1. CASE Finish(r)
    BY <1>9, <2>1, ListStep, Gave
  <2>2. ASSUME NEW job \in Jobs, Fit(job), job.op \in {"assign", "transfer"}, req' = [req EXCEPT ![r] = job],
               UNCHANGED owner \/ \E x \in Rows : owner[x] = None /\ owner' = [owner EXCEPT ![x] = r]
        PROVE  Base'
    <3>1. KnowsAs(r, job, owner')
      BY <2>2 DEF KnowsAs, HasInvite, HasSchool, HasProfile, HasUser
    <3>2. owner' \in [Rows -> Requests \cup {None}] /\ LocksKept(r)
      BY <1>0, <2>2 DEF RequestsOK, LocksKept
    <3>3. UNCHANGED <<Data, left>>
      BY <1>9, ListStep
    <3> QED
      BY <2>2, <3>1, <3>2, <3>3, Went
  <2> QED
    BY <1>9, <2>1, <2>2, ListStep
<1>10. CASE LockTransfer(r)
  <2>1. req[r] \in Jobs /\ Fit(req[r]) /\ req[r].op \in {"transfer"} /\ req[r].pc = "school"
    BY <1>0, <1>10, JobType DEF LockTransfer, Ops
  <2>2. PICK ok \in BOOLEAN : ok <=> req[r].to \notin lapsed
    OBVIOUS
  <2>3. PICK next \in Steps : next = "clear"
    BY DEF Steps
  <2>4. Take(r, <<"school", req[r].to>>, ok, next) /\ UNCHANGED <<Data, left>>
    BY <1>10, <2>2, <2>3 DEF LockTransfer, Take
  <2>5. PICK job : job = [req[r] EXCEPT !.pc = next]
    OBVIOUS
  <2>6. /\ job.pc = next /\ job.op = req[r].op /\ job.student = req[r].student /\ job.to = req[r].to
        /\ job.invite = req[r].invite /\ job.counselor = req[r].counselor /\ job.seen = req[r].seen
    BY <2>1, <2>5, AdvancedJob
  <2>7. <<"school", req[r].to>> \in Rows
    BY <2>1 DEF Fit, OfStudent
  <2>8. ok => Fit(job)
    BY <2>1, <2>2, <2>3, <2>6 DEF Fit, OfStudent
  <2>9. ok => KnowsWith(r, job, <<"school", req[r].to>>)
    BY <1>0, <2>1, <2>2, <2>3, <2>6 DEF Knows, KnowsAs, KnowsWith, HasInvite, HasSchool,
       HasProfile, HasUser
  <2> QED
    BY <2>1, <2>4, <2>5, <2>7, <2>8, <2>9, TakeSafe
<1>11. CASE Claim(r)
  <2>1. req[r] \in Jobs /\ Fit(req[r]) /\ req[r].op = "accept" /\ req[r].pc = "claim"
    BY <1>0, <1>11, JobType DEF Claim, Ops
  <2>2. CASE Usable(req[r].invite) /\ req' = [req EXCEPT ![r].pc = "save"] /\ UNCHANGED owner
    <3>1. PICK job : job = [req[r] EXCEPT !.pc = "save"]
      OBVIOUS
    <3>2. /\ job \in Jobs /\ job.pc = "save" /\ job.op = "accept" /\ job.student = req[r].student
          /\ job.to = req[r].to /\ job.invite = req[r].invite /\ job.seen = req[r].seen
          /\ req' = [req EXCEPT ![r] = job]
      BY <2>1, <2>2, <3>1, AdvancedJob, ZenonT(60) DEF Steps
    <3>3. Fit(job)
      BY <2>1, <3>2 DEF Fit, OfStudent
    <3>4. KnowsAs(r, job, owner')
      BY <1>0, <2>1, <2>2, <3>2 DEF Knows, KnowsAs, HasInvite, HasSchool, HasProfile, HasUser, Usable
    <3>5. owner' \in [Rows -> Requests \cup {None}] /\ LocksKept(r) /\ UNCHANGED <<Data, left>>
      BY <1>0, <1>11, <2>2 DEF RequestsOK, LocksKept, Claim
    <3> QED
      BY <3>2, <3>3, <3>4, <3>5, Went
  <2>3. CASE Finish(r)
    BY <1>11, <2>3, Gave DEF Claim
  <2>4. \/ Usable(req[r].invite) /\ req' = [req EXCEPT ![r].pc = "save"] /\ UNCHANGED owner
        \/ Finish(r)
    <3>1. CASE Usable(req[r].invite)
      BY <1>11, <3>1 DEF Claim
    <3>2. CASE ~Usable(req[r].invite)
      BY <1>11, <3>2 DEF Claim
    <3> QED
      BY <3>1, <3>2
  <2> QED
    BY <2>2, <2>3, <2>4
<1>12. CASE LockConfirm(r)
  <2>1. req[r] \in Jobs /\ Fit(req[r]) /\ req[r].op = "confirm" /\ req[r].pc = "profile"
    <3>1. At(r, {"confirm"}, "profile")
      BY <1>12 DEF LockConfirm
    <3> QED
      BY <1>0, <3>1, JobType DEF Ops
  <2>2. PICK s \in Students : s = req[r].student
    BY <2>1 DEF Fit, OfStudent
  <2>3. PICK ok \in BOOLEAN : ok <=> Exists(s) /\ stu[s].pending
    OBVIOUS
  <2>4. PICK job : job = [req[r] EXCEPT !.pc = "school", !.to = stu[s].school]
    OBVIOUS
  <2>5. ok => job \in Jobs /\ job.pc = "school" /\ job.op = "confirm" /\ job.student = s /\ job.to \in Schools
    <3>1. ok => stu[s].school \in Schools
      BY <1>0, <2>3, LiveAccount DEF Account
    <3> QED
      BY <2>1, <2>2, <2>4, <3>1 DEF Jobs, Steps
  <2>6. /\ IF ok THEN owner[<<"profile", s>>] = None /\ owner' = [owner EXCEPT ![<<"profile", s>>] = r]
                      /\ req' = [req EXCEPT ![r].pc = "school", ![r].to = stu[s].school]
                 ELSE Finish(r)
        /\ UNCHANGED <<Data, left>>
    BY <1>12, <2>2, <2>3 DEF LockConfirm
  <2>7. ok => req' = [req EXCEPT ![r] = job]
    BY <1>0, <2>4, <2>6 DEF RequestsOK
  <2>8. ok => Fit(job)
    BY <2>5 DEF Fit, OfStudent
  <2>9. ok => KnowsWith(r, job, <<"profile", s>>)
    BY <2>3, <2>5 DEF KnowsWith, HasInvite, HasSchool, HasProfile, HasUser
  <2>10. IF ok THEN /\ owner[<<"profile", s>>] \in {None, r} /\ owner' = [owner EXCEPT ![<<"profile", s>>] = r]
                    /\ req' = [req EXCEPT ![r] = job]
               ELSE Finish(r)
    BY <2>6, <2>7
  <2> QED
    BY <2>5, <2>6, <2>8, <2>9, <2>10, LockSafe
<1>13. CASE LockSetActive(r)
  <2>1. req[r] \in Jobs /\ Fit(req[r]) /\ req[r].op \in {"deactivate", "reactivate"} /\ req[r].pc = "user"
    BY <1>0, <1>13, JobType, ZenonT(60) DEF LockSetActive, Ops
  <2>2. PICK s \in Students : s = req[r].student
    BY <2>1 DEF Fit, OfStudent
  <2>3. PICK on \in BOOLEAN : on <=> req[r].op = "reactivate"
    OBVIOUS
  <2>4. PICK ok \in BOOLEAN : ok <=> ~(stu[s].active = on /\ stu[s].off # on)
    OBVIOUS
  <2>5. PICK next \in {"school", "save"} : next = IF on /\ ~stu[s].active THEN "school" ELSE "save"
    OBVIOUS
  <2>6. PICK job : job = [req[r] EXCEPT !.pc = next, !.to = stu[s].acct]
    OBVIOUS
  <2>7. Exists(s) /\ owner[<<"profile", s>>] = r
    BY <1>0, <2>1, <2>2 DEF Knows, KnowsAs, HasProfile
  <2>8. stu[s].acct \in Schools /\ stu[s] \in Account
    BY <1>0, <2>7, LiveAccount DEF Account
  <2>9. /\ job \in Jobs /\ job.pc = next /\ job.op = req[r].op /\ job.student = s /\ job.to \in Schools
        /\ job.seen = req[r].seen
    BY <2>1, <2>2, <2>6, <2>8, ZenonT(60) DEF Jobs, Steps
  <2>10. /\ owner[<<"user", s>>] = None /\ UNCHANGED <<Data, left>>
         /\ IF ok THEN /\ owner' = [owner EXCEPT ![<<"user", s>>] = r]
                       /\ req' = [req EXCEPT ![r].pc = next, ![r].to = stu[s].acct]
                  ELSE Finish(r)
    <3>1. (req[r].op = "reactivate") = on
      BY <2>3
    <3> QED
      BY <1>13, <2>2, <2>4, <2>5, <3>1 DEF LockSetActive
  <2>11. ok => req' = [req EXCEPT ![r] = job]
    BY <1>0, <2>6, <2>10 DEF RequestsOK
  <2>12. Fit(job)
    BY <2>1, <2>9 DEF Fit, OfStudent
  <2>13. KnowsWith(r, job, <<"user", s>>)
    BY <2>1, <2>7, <2>9 DEF KnowsWith, HasInvite, HasSchool, HasProfile, HasUser
  <2>14. IF ok THEN /\ owner[<<"user", s>>] \in {None, r} /\ owner' = [owner EXCEPT ![<<"user", s>>] = r]
                    /\ req' = [req EXCEPT ![r] = job]
               ELSE Finish(r)
    BY <2>10, <2>11
  <2> QED
    BY <2>9, <2>10, <2>12, <2>13, <2>14, LockSafe
<1>14. CASE EnsureProfile(r)
  <2>1. req[r] \in Jobs /\ Fit(req[r]) /\ req[r].op = "edit" /\ req[r].pc = "ensure"
    BY <1>0, <1>14, JobType DEF EnsureProfile, Ops
  <2>2. req[r].seen.acct \in Schools
    BY <2>1 DEF Fit, Account
  <2>3. UNCHANGED <<Data, owner, left>>
    BY <1>14 DEF EnsureProfile
  <2>4. ASSUME NEW job, NEW next \in {"profile", "save"}, NEW to \in Schools \cup {None},
               next = "profile" => to \in Schools,
               job = [req[r] EXCEPT !.pc = next, !.to = to], req' = [req EXCEPT ![r] = job]
        PROVE  Base'
    <3>1. /\ job \in Jobs /\ job.pc = next /\ job.op = "edit" /\ job.student = req[r].student
          /\ job.seen = req[r].seen /\ job.to = to
      BY <2>1, <2>4 DEF Jobs, Steps
    <3>2. Fit(job)
      BY <2>1, <2>4, <3>1 DEF Fit, OfStudent
    <3>3. KnowsAs(r, job, owner')
      BY <1>0, <2>1, <2>3, <3>1 DEF Knows, KnowsAs, HasInvite, HasSchool, HasProfile, HasUser
    <3>4. owner' \in [Rows -> Requests \cup {None}] /\ LocksKept(r) /\ UNCHANGED <<Data, left>>
      BY <1>0, <2>3 DEF RequestsOK, LocksKept
    <3> QED
      BY <2>4, <3>1, <3>2, <3>3, <3>4, Went
  <2>5. CASE req' = [req EXCEPT ![r].pc = "profile", ![r].to = req[r].seen.acct]
    <3>1. PICK job : job = [req[r] EXCEPT !.pc = "profile", !.to = req[r].seen.acct]
      OBVIOUS
    <3>2. req' = [req EXCEPT ![r] = job]
      BY <1>0, <2>5, <3>1 DEF RequestsOK
    <3> QED
      BY <2>2, <2>4, <3>1, <3>2
  <2>6. CASE req' = [req EXCEPT ![r].pc = "save"]
    <3>1. PICK job : job = [req[r] EXCEPT !.pc = "save", !.to = req[r].to]
      OBVIOUS
    <3>2. req' = [req EXCEPT ![r] = job] /\ req[r].to \in Schools \cup {None}
      BY <1>0, <2>1, <2>6, <3>1 DEF RequestsOK, Jobs
    <3> QED
      BY <2>4, <3>1, <3>2
  <2> QED
    BY <1>14, <2>5, <2>6 DEF EnsureProfile
<1> QED
  BY <1>1, <1>2, <1>3, <1>4, <1>5, <1>6, <1>7, <1>8, <1>9, <1>10, <1>11, <1>12, <1>13, <1>14 DEF Wait

(***************************************************************************)
(* A request writes and commits.                                           *)
(***************************************************************************)
\* The job of a request that is at the step `pc` of an operation in `ops`.
Doing(r, ops, pc) == req[r] \in Jobs /\ Fit(req[r]) /\ req[r].op \in ops /\ req[r].pc = pc

LEMMA AcceptWrites ==
    ASSUME Base, NEW r \in Requests, SaveAccept(r)
    PROVE  /\ Doing(r, {"accept"}, "save") /\ Finish(r) /\ UNCHANGED <<cou, lapsed, left, stale>>
           /\ \/ UNCHANGED <<stu, inv>>
              \/ \E s \in Students, a \in Account :
                   /\ stu[s] = None /\ stu' = [stu EXCEPT ![s] = a]
                   /\ a.school = req[r].to /\ a.acct = req[r].to /\ a.pending /\ a.via = req[r].invite
                   /\ inv' = [inv EXCEPT ![req[r].invite] = [inv[req[r].invite] EXCEPT !.uses = @ + 1]]
           /\ req[r].invite \in Invites /\ inv[req[r].invite] \in Invite
           /\ owner[<<"invite", req[r].invite>>] = r /\ inv[req[r].invite].status # "revoked"
           /\ inv[req[r].invite].email # None => inv[req[r].invite].uses < 1
<1> USE IdFacts
<1>0. DataOK /\ RequestsOK /\ Knows(r)
  BY DEF Base
<1>1. Doing(r, {"accept"}, "save")
  <2>1. At(r, {"accept"}, "save")
    BY DEF SaveAccept
  <2> QED
    BY <1>0, <2>1, JobType DEF Ops, Doing
<1>2. /\ req[r].invite \in Invites /\ inv[req[r].invite] \in Invite
      /\ owner[<<"invite", req[r].invite>>] = r /\ inv[req[r].invite].status # "revoked"
      /\ inv[req[r].invite].email # None => inv[req[r].invite].uses < 1
  BY <1>0, <1>1 DEF Fit, Doing, Knows, KnowsAs, HasInvite, DataOK
<1>3. Finish(r) /\ UNCHANGED <<cou, lapsed, left, stale>>
  BY DEF SaveAccept
<1>4. PICK a : a = [school |-> req[r].to, acct |-> req[r].to, active |-> TRUE, off |-> FALSE,
                    pending |-> TRUE, counselor |-> req[r].counselor, via |-> req[r].invite,
                    email |-> req[r].email]
  OBVIOUS
<1>5. a \in Account
  BY <1>1, <1>4 DEF Jobs, Fit, Account, Doing
<1>6. ASSUME Insert(a), inv' = [inv EXCEPT ![req[r].invite].uses = @ + 1]
      PROVE  \E s \in Students, b \in Account :
                   /\ stu[s] = None /\ stu' = [stu EXCEPT ![s] = b]
                   /\ b.school = req[r].to /\ b.acct = req[r].to /\ b.pending /\ b.via = req[r].invite
                   /\ inv' = [inv EXCEPT ![req[r].invite] = [inv[req[r].invite] EXCEPT !.uses = @ + 1]]
  <2>1. PICK s \in Students : stu[s] = None /\ stu' = [stu EXCEPT ![s] = a]
    BY <1>6 DEF Insert, NextId
  <2>2. inv' = [inv EXCEPT ![req[r].invite] = [inv[req[r].invite] EXCEPT !.uses = @ + 1]]
    BY <1>0, <1>6 DEF DataOK
  <2>3. a.school = req[r].to /\ a.acct = req[r].to /\ a.pending /\ a.via = req[r].invite
    BY <1>4
  <2> QED
    BY <1>5, <2>1, <2>2, <2>3
<1>7. \/ UNCHANGED <<stu, inv>>
      \/ Insert(a) /\ inv' = [inv EXCEPT ![req[r].invite].uses = @ + 1]
  BY <1>4 DEF SaveAccept
<1> QED
  BY <1>1, <1>2, <1>3, <1>6, <1>7

LEMMA CreateWrites ==
    ASSUME Base, NEW r \in Requests, SaveCreate(r)
    PROVE  /\ Doing(r, {"create"}, "save") /\ Finish(r) /\ UNCHANGED <<cou, inv, lapsed, left, stale>>
           /\ \E s \in Students, a \in Account :
                /\ stu[s] = None /\ stu' = [stu EXCEPT ![s] = a]
                /\ a.school = req[r].to /\ a.acct = req[r].to /\ ~a.pending /\ a.via = None
<1> USE IdFacts
<1>1. Doing(r, {"create"}, "save")
  <2>1. At(r, {"create"}, "save")
    BY DEF SaveCreate
  <2> QED
    BY <2>1, JobType DEF Ops, Doing, Base
<1>2. PICK a : /\ a = [school |-> req[r].to, acct |-> req[r].to, active |-> TRUE, off |-> FALSE,
                       pending |-> FALSE, counselor |-> req[r].counselor, via |-> None,
                       email |-> IF Taken(req[r].email) THEN None ELSE req[r].email]
               /\ Insert(a)
  BY DEF SaveCreate
<1>3. a \in Account
  BY <1>1, <1>2 DEF Jobs, Fit, Account, Doing
<1>4. PICK s \in Students : stu[s] = None /\ stu' = [stu EXCEPT ![s] = a]
  BY <1>2 DEF Insert, NextId
<1>5. a.school = req[r].to /\ a.acct = req[r].to /\ ~a.pending /\ a.via = None
  BY <1>2
<1> QED
  BY <1>1, <1>3, <1>4, <1>5 DEF SaveCreate

\* The student of a request, and what it knows of them.
LEMMA TheirStudent ==
    ASSUME Base, NEW r \in Requests, NEW ops \in SUBSET OfStudent, NEW pc, At(r, ops, pc)
    PROVE  /\ Doing(r, ops, pc) /\ req[r].student \in Students
           /\ HasProfile(req[r]) => /\ owner[<<"profile", req[r].student>>] = r
                                    /\ Exists(req[r].student) /\ stu[req[r].student] \in Account
<1>1. Doing(r, ops, pc)
  <2>1. ops \subseteq Ops
    BY DEF OfStudent, Ops
  <2> QED
    BY <2>1, JobType DEF Doing, Base
<1>2. req[r].student \in Students
  BY <1>1 DEF Doing, Fit
<1>3. HasProfile(req[r]) => owner[<<"profile", req[r].student>>] = r /\ Exists(req[r].student)
  BY DEF Base, Knows, KnowsAs
<1> QED
  BY <1>1, <1>2, <1>3, LiveAccount DEF Base

LEMMA ConfirmWrites ==
    ASSUME Base, NEW r \in Requests, SaveConfirm(r)
    PROVE  /\ Doing(r, {"confirm"}, "save") /\ Finish(r) /\ UNCHANGED <<cou, inv, lapsed, left, stale>>
           /\ \E s \in Students, a \in Account :
                /\ s = req[r].student /\ owner[<<"profile", s>>] = r /\ Exists(s)
                /\ stu' = [stu EXCEPT ![s] = a] /\ a = [stu[s] EXCEPT !.pending = FALSE]
<1>1. At(r, {"confirm"}, "save")
  BY DEF SaveConfirm
<1>2. PICK s \in Students : s = req[r].student
  BY <1>1, TheirStudent DEF OfStudent
<1>3. Doing(r, {"confirm"}, "save") /\ owner[<<"profile", s>>] = r /\ Exists(s) /\ stu[s] \in Account
  BY <1>1, <1>2, TheirStudent DEF OfStudent, HasProfile, At
<1>4. PICK a : a = [stu[s] EXCEPT !.pending = FALSE]
  OBVIOUS
<1>5. a \in Account
  BY <1>3, <1>4 DEF Account
<1>6. stu' = [stu EXCEPT ![s] = a]
  BY <1>2, <1>4 DEF SaveConfirm, Base, DataOK
<1> QED
  BY <1>2, <1>3, <1>4, <1>5, <1>6 DEF SaveConfirm

LEMMA RejectWrites ==
    ASSUME Base, NEW r \in Requests, SaveReject(r)
    PROVE  /\ Doing(r, {"reject"}, "user") /\ Finish(r) /\ UNCHANGED <<cou, inv, lapsed, left, stale>>
           /\ \E s \in Students :
                /\ s = req[r].student /\ owner[<<"profile", s>>] = r /\ Exists(s) /\ stu[s].pending
                /\ stu' = [stu EXCEPT ![s] = Gone]
<1>1. At(r, {"reject"}, "user")
  BY DEF SaveReject
<1>2. PICK s \in Students : s = req[r].student
  BY <1>1, TheirStudent DEF OfStudent
<1>3. Doing(r, {"reject"}, "user") /\ owner[<<"profile", s>>] = r /\ Exists(s)
  BY <1>1, <1>2, TheirStudent DEF OfStudent, HasProfile, At
<1>4. stu[s].pending
  BY <1>1, <1>2 DEF At, Base, Knows, KnowsAs
<1> QED
  BY <1>2, <1>3, <1>4 DEF SaveReject

LEMMA PatchWrites ==
    ASSUME Base, NEW r \in Requests, SavePatch(r)
    PROVE  /\ Doing(r, {"patch"}, "write") /\ Finish(r) /\ UNCHANGED <<cou, inv, lapsed, left>>
           /\ \E s \in Students :
                /\ s = req[r].student /\ owner[<<"profile", s>>] \in {None, r}
                /\ \/ UNCHANGED stu
                   \/ /\ Exists(s) /\ stu[s] \in Account
                      /\ \E a \in Account :
                           /\ stu' = [stu EXCEPT ![s] = a]
                           /\ a = Written(s, req[r].seen, req[r].seen.school, req[r].seen.counselor)
<1>1. At(r, {"patch"}, "write")
  BY DEF SavePatch
<1>2. PICK s \in Students : s = req[r].student
  BY <1>1, TheirStudent DEF OfStudent
<1>3. Doing(r, {"patch"}, "write")
  BY <1>1, <1>2, TheirStudent DEF OfStudent
<1>4. owner[<<"profile", s>>] \in {None, r} /\ Finish(r) /\ UNCHANGED <<cou, inv, lapsed, left>>
  BY <1>2 DEF SavePatch
<1>5. ASSUME Exists(s)
      PROVE  /\ stu[s] \in Account
             /\ \E a \in Account :
                  /\ stu' = [stu EXCEPT ![s] = a]
                  /\ a = Written(s, req[r].seen, req[r].seen.school, req[r].seen.counselor)
  <2>1. stu[s] \in Account
    BY <1>5, LiveAccount DEF Base
  <2>2. PICK a : a = Written(s, req[r].seen, req[r].seen.school, req[r].seen.counselor)
    OBVIOUS
  <2>3. a \in Account
    BY <1>3, <2>1, <2>2 DEF Written, Account, Fit, Doing
  <2>4. stu' = [stu EXCEPT ![s] = a]
    BY <1>2, <1>5, <2>2 DEF SavePatch
  <2> QED
    BY <2>1, <2>2, <2>3, <2>4
<1>6. ~Exists(s) => UNCHANGED stu
  BY <1>2 DEF SavePatch
<1> QED
  BY <1>2, <1>3, <1>4, <1>5, <1>6

LEMMA MoveWrites ==
    ASSUME Base, NEW r \in Requests, SaveMove(r)
    PROVE  /\ Doing(r, {"patch"}, "save") /\ Finish(r) /\ UNCHANGED <<cou, inv, lapsed, left>>
           /\ \E s \in Students, a \in Account :
                /\ s = req[r].student /\ owner[<<"profile", s>>] = r /\ Exists(s)
                /\ stu' = [stu EXCEPT ![s] = a] /\ a.school = req[r].to /\ a.acct = req[r].to
                /\ a.pending = req[r].seen.pending /\ a.active = stu[s].active /\ a.via = stu[s].via
<1>1. At(r, {"patch"}, "save")
  BY DEF SaveMove
<1>2. PICK s \in Students : s = req[r].student
  BY <1>1, TheirStudent DEF OfStudent
<1>3. Doing(r, {"patch"}, "save") /\ owner[<<"profile", s>>] = r /\ Exists(s) /\ stu[s] \in Account
  BY <1>1, <1>2, TheirStudent DEF OfStudent, HasProfile, At
<1>4. PICK k \in Schools : k = req[r].to
  BY <1>3 DEF Doing, Fit
<1>5. PICK a : a = [Written(s, req[r].seen, k, Kept(stu[s].counselor, k)) EXCEPT !.acct = k]
  OBVIOUS
<1>6. /\ a \in Account /\ a.school = k /\ a.acct = k /\ a.pending = req[r].seen.pending
      /\ a.active = stu[s].active /\ a.via = stu[s].via
  <2>1. Kept(stu[s].counselor, k) \in Counselors \cup {None}
    BY <1>3 DEF Kept, Account
  <2> QED
    BY <1>3, <1>5, <2>1, ZenonT(60) DEF Written, Account, Fit, Doing
<1>7. stu' = [stu EXCEPT ![s] = a]
  BY <1>2, <1>4, <1>5 DEF SaveMove
<1> QED
  BY <1>2, <1>3, <1>4, <1>6, <1>7, ZenonT(60) DEF SaveMove

LEMMA SetActiveWrites ==
    ASSUME Base, NEW r \in Requests, SaveSetActive(r)
    PROVE  /\ Doing(r, {"deactivate", "reactivate"}, "save") /\ Finish(r)
           /\ UNCHANGED <<cou, inv, lapsed, left, stale>>
           /\ \E s \in Students, a \in Account :
                /\ s = req[r].student /\ owner[<<"profile", s>>] = r /\ Exists(s)
                /\ stu' = [stu EXCEPT ![s] = a] /\ a.active = (req[r].op = "reactivate")
                /\ a.school = stu[s].school /\ a.acct = stu[s].acct /\ a.pending = stu[s].pending
                /\ a.via = stu[s].via
<1>1. At(r, {"deactivate", "reactivate"}, "save")
  BY DEF SaveSetActive
<1>2. PICK s \in Students : s = req[r].student
  BY <1>1, TheirStudent DEF OfStudent
<1>3. /\ Doing(r, {"deactivate", "reactivate"}, "save") /\ owner[<<"profile", s>>] = r
      /\ Exists(s) /\ stu[s] \in Account
  BY <1>1, <1>2, TheirStudent DEF OfStudent, HasProfile, At
<1>4. PICK on \in BOOLEAN : on = (req[r].op = "reactivate")
  OBVIOUS
<1>5. PICK a : a = [stu[s] EXCEPT !.active = on, !.off = ~on]
  OBVIOUS
<1>6. /\ a \in Account /\ a.active = on /\ a.school = stu[s].school /\ a.acct = stu[s].acct
      /\ a.pending = stu[s].pending /\ a.via = stu[s].via
  BY <1>3, <1>4, <1>5, ZenonT(60) DEF Account
<1>7. stu' = [stu EXCEPT ![s] = a]
  <2>1. stu' = [stu EXCEPT ![s].active = on, ![s].off = ~on]
    BY <1>2, <1>4 DEF SaveSetActive
  <2> QED
    BY <1>5, <2>1 DEF Base, DataOK
<1> QED
  BY <1>2, <1>3, <1>4, <1>6, <1>7, ZenonT(60) DEF SaveSetActive

\* What the account editor writes: a fresh account, or the loaded school and
\* activity, with the profile moved along when it is elsewhere.
LEMMA EditWrites ==
    ASSUME Base, NEW r \in Requests, SaveEdit(r)
    PROVE  /\ Doing(r, {"edit"}, "save") /\ Finish(r) /\ UNCHANGED <<cou, inv, lapsed, left>>
           /\ \E s \in Students, a \in Account :
                /\ s = req[r].student /\ stu' = [stu EXCEPT ![s] = a]
                /\ a.acct = req[r].seen.acct /\ a.active = req[r].seen.active
                /\ ~Exists(s) => ~a.pending /\ a.via = None
                /\ Exists(s) => /\ a.pending = stu[s].pending /\ a.via = stu[s].via
                                /\ a.school = stu[s].school \/ stu[s].school # req[r].seen.acct
<1>1. At(r, {"edit"}, "save")
  BY DEF SaveEdit
<1>2. PICK s \in Students : s = req[r].student
  BY <1>1, TheirStudent DEF OfStudent
<1>3. Doing(r, {"edit"}, "save")
  BY <1>1, <1>2, TheirStudent DEF OfStudent
<1>4. PICK seen \in Account : seen = req[r].seen
  BY <1>3 DEF Doing, Fit
<1>5. CASE ~Exists(s)
  <2>1. PICK a : a = [school |-> seen.acct, acct |-> seen.acct, active |-> seen.active, off |-> FALSE,
                      pending |-> FALSE, counselor |-> None, via |-> None, email |-> seen.email]
    OBVIOUS
  <2>2. /\ a \in Account /\ a.acct = seen.acct /\ a.active = seen.active /\ ~a.pending /\ a.via = None
    BY <2>1 DEF Account
  <2>3. stu' = [stu EXCEPT ![s] = a]
    BY <1>2, <1>4, <1>5, <2>1, SMTT(60) DEF SaveEdit
  <2> QED
    BY <1>2, <1>3, <1>4, <1>5, <2>2, <2>3 DEF SaveEdit
<1>6. CASE Exists(s)
  <2>1. stu[s] \in Account
    BY <1>6, LiveAccount DEF Base
  <2>2. PICK saved : saved = [stu[s] EXCEPT !.acct = seen.acct, !.active = seen.active]
    OBVIOUS
  <2>3. /\ saved \in Account /\ saved.pending = stu[s].pending /\ saved.acct = seen.acct
        /\ saved.active = seen.active /\ saved.via = stu[s].via /\ saved.school = stu[s].school
    BY <2>1, <2>2 DEF Account
  <2>4. PICK moved : moved = [saved EXCEPT !.school = seen.acct, !.counselor = Kept(saved.counselor, seen.acct)]
    OBVIOUS
  <2>5. /\ moved \in Account /\ moved.pending = stu[s].pending /\ moved.acct = seen.acct
        /\ moved.active = seen.active /\ moved.via = stu[s].via
    <3>1. Kept(saved.counselor, seen.acct) \in Counselors \cup {None}
      BY <2>3 DEF Kept, Account
    <3> QED
      BY <2>3, <2>4, <3>1 DEF Account
  <2>6. \/ stu[s].school # seen.acct /\ stu' = [stu EXCEPT ![s] = moved]
        \/ stu' = [stu EXCEPT ![s] = saved]
    BY <1>2, <1>4, <1>6, <2>2, <2>4 DEF SaveEdit
  <2> QED
    BY <1>2, <1>3, <1>4, <1>6, <2>3, <2>5, <2>6, ZenonT(60) DEF SaveEdit
<1> QED
  BY <1>5, <1>6

\* An assignment and a transfer write the counselor column of some students.
LEMMA CounselorsWritten ==
    ASSUME Base, NEW r \in Requests, SaveAssign(r) \/ SaveTransfer(r)
    PROVE  /\ DataOK' /\ Finish(r) /\ UNCHANGED <<inv, lapsed, left, stale>>
           /\ \A s \in Students :
                \/ stu'[s] = stu[s]
                \/ /\ Exists(s) /\ stu'[s] \in Account /\ stu'[s].school = stu[s].school
                   /\ stu'[s].acct = stu[s].acct /\ stu'[s].active = stu[s].active
                   /\ stu'[s].pending = stu[s].pending /\ stu'[s].via = stu[s].via
<1> USE IdFacts
<1>0. DataOK /\ RequestsOK
  BY DEF Base
<1>1. req[r] \in Jobs /\ Fit(req[r]) /\ req[r].op \in {"assign", "transfer"}
  <2>1. At(r, {"assign"}, "save") \/ At(r, {"transfer"}, "save")
    BY DEF SaveAssign, SaveTransfer
  <2> QED
    BY <1>0, <2>1, JobType DEF Ops
<1>2. Finish(r) /\ UNCHANGED <<inv, lapsed, left, stale>>
  BY DEF SaveAssign, SaveTransfer
<1>3. cou' \in [Counselors -> Schools]
  <2>1. CASE SaveAssign(r)
    BY <1>0, <2>1 DEF SaveAssign, DataOK
  <2>2. CASE SaveTransfer(r)
    <3>1. req[r].op = "transfer"
      BY <2>2 DEF SaveTransfer, At
    <3> QED
      BY <1>0, <1>1, <2>2, <3>1 DEF SaveTransfer, DataOK, Fit
  <2> QED
    BY <2>1, <2>2
<1>4. PICK Rewritten \in SUBSET HeldBy(r), c \in Counselors \cup {None} :
        stu' = [s \in Students |-> IF s \in Rewritten THEN [stu[s] EXCEPT !.counselor = c] ELSE stu[s]]
  <2>1. CASE SaveAssign(r)
    <3>1. req[r].counselor \in Counselors
      BY <1>1 DEF Fit
    <3> QED
      BY <2>1, <3>1 DEF SaveAssign
  <2>2. CASE SaveTransfer(r)
    <3>1. PICK Cleared \in SUBSET HeldBy(r) : Cleared = HeldBy(r) \cap Outside(req[r].counselor, req[r].to)
      OBVIOUS
    <3> QED
      BY <2>2, <3>1 DEF SaveTransfer
  <2> QED
    BY <2>1, <2>2
<1>5. ASSUME NEW s \in Rewritten
      PROVE  /\ s \in Students /\ Exists(s) /\ stu'[s] \in Account /\ stu'[s].school = stu[s].school
             /\ stu'[s].acct = stu[s].acct /\ stu'[s].active = stu[s].active
             /\ stu'[s].pending = stu[s].pending /\ stu'[s].via = stu[s].via
  <2>1. stu[s] \in Account /\ Exists(s) /\ s \in Students
    BY <1>0, <1>4, LiveAccount DEF HeldBy
  <2> QED
    BY <1>4, <2>1 DEF Account
<1>6. \A s \in Students : s \notin Rewritten => stu'[s] = stu[s]
  BY <1>4
<1>7. DataOK'
  <2>1. \A s \in Students : stu'[s] \in Account \cup {None, Gone}
    BY <1>0, <1>5, <1>6 DEF DataOK
  <2>2. stu' = [s \in Students |-> stu'[s]]
    BY <1>4
  <2>3. stu' \in [Students -> Account \cup {None, Gone}]
    BY <2>1, <2>2
  <2> QED
    BY <1>0, <1>2, <1>3, <2>3 DEF DataOK
<1> QED
  BY <1>2, <1>5, <1>6, <1>7

LEMMA OneWritten ==
    ASSUME Base, NEW r \in Requests, Finish(r), NEW s \in Students, NEW a \in Account \cup {Gone},
           stu' = [stu EXCEPT ![s] = a], UNCHANGED <<cou, inv, lapsed, left>>, stale' \in BOOLEAN,
           Exists(s) => \/ owner[<<"profile", s>>] \in {None, r}
                        \/ a \in Account /\ a.pending = stu[s].pending
    PROVE  Base'
<1> USE IdFacts
<1>1. stu' \in [Students -> Account \cup {None, Gone}] /\ stu'[s] = a /\ \A t \in Students : t # s => stu'[t] = stu[t]
  BY DEF Base, DataOK
<1>2. DataOK'
  BY <1>1 DEF Base, DataOK
<1>3. DataKept(r)
  BY <1>1 DEF DataKept, Exists
<1> QED
  BY <1>2, <1>3, Ended

LEMMA SaveSafe == ASSUME Base, NEW r \in Requests, Save(r) PROVE Base'
<1> USE IdFacts
<1>0. DataOK /\ RequestsOK /\ Knows(r)
  BY DEF Base
<1>1. CASE SaveAccept(r)
  <2>1. PICK i \in Invites : /\ i = req[r].invite /\ inv[i] \in Invite /\ owner[<<"invite", i>>] = r
                             /\ Finish(r) /\ UNCHANGED <<cou, lapsed, left, stale>>
    BY <1>1, AcceptWrites
  <2>2. CASE UNCHANGED <<stu, inv>>
    BY <2>1, <2>2, Gave DEF Data
  <2>3. ASSUME NEW s \in Students, NEW a \in Account, stu[s] = None, stu' = [stu EXCEPT ![s] = a],
               inv' = [inv EXCEPT ![i] = [inv[i] EXCEPT !.uses = @ + 1]]
        PROVE  Base'
    <3>1. [inv[i] EXCEPT !.uses = @ + 1] \in Invite
      BY <2>1 DEF Invite
    <3>2. stu' \in [Students -> Account \cup {None, Gone}] /\ \A t \in Students : t # s => stu'[t] = stu[t]
      BY <1>0, <2>3 DEF DataOK
    <3>3. /\ inv' \in [Invites -> Invite \cup {None}] /\ inv'[i] \in Invite
          /\ \A j \in Invites : j # i => inv'[j] = inv[j]
      BY <1>0, <2>3, <3>1, SMTT(60) DEF DataOK
    <3>4. DataOK' /\ DataKept(r)
      BY <1>0, <2>1, <2>3, <3>2, <3>3 DEF DataOK, DataKept, Exists
    <3> QED
      BY <2>1, <3>4, Ended
  <2> QED
    BY <1>1, <2>1, <2>2, <2>3, AcceptWrites
<1>2. CASE SaveCreate(r)
  <2>1. PICK s \in Students, a \in Account : stu[s] = None /\ stu' = [stu EXCEPT ![s] = a]
    BY <1>2, CreateWrites
  <2>2. ~Exists(s) /\ stale' \in BOOLEAN
    BY <1>0, <1>2, <2>1 DEF Exists, DataOK, SaveCreate
  <2> QED
    BY <1>2, <2>1, <2>2, OneWritten, CreateWrites
<1>3. CASE SaveConfirm(r)
  <2>1. stale' \in BOOLEAN
    BY <1>0, <1>3 DEF SaveConfirm, DataOK
  <2>2. PICK s \in Students, a \in Account : owner[<<"profile", s>>] = r /\ stu' = [stu EXCEPT ![s] = a]
    BY <1>3, ConfirmWrites
  <2>3. Finish(r) /\ UNCHANGED <<cou, inv, lapsed, left>>
    BY <1>3 DEF SaveConfirm
  <2> QED
    BY <2>1, <2>2, <2>3, OneWritten
<1>4. CASE SaveReject(r)
  <2>1. stale' \in BOOLEAN
    BY <1>0, <1>4 DEF SaveReject, DataOK
  <2>2. PICK s \in Students : owner[<<"profile", s>>] = r /\ stu' = [stu EXCEPT ![s] = Gone]
    BY <1>4, RejectWrites
  <2>3. Finish(r) /\ UNCHANGED <<cou, inv, lapsed, left>>
    BY <1>4 DEF SaveReject
  <2> QED
    BY <2>1, <2>2, <2>3, OneWritten
<1>5. CASE SavePatch(r)
  <2>1. PICK s \in Students : /\ owner[<<"profile", s>>] \in {None, r}
                              /\ UNCHANGED stu \/ \E a \in Account : stu' = [stu EXCEPT ![s] = a]
    BY <1>5, PatchWrites
  <2>2. Finish(r) /\ UNCHANGED <<cou, inv, lapsed, left>> /\ stale' \in BOOLEAN
    BY <1>5 DEF SavePatch
  <2>3. CASE UNCHANGED stu
    <3>1. DataOK' /\ DataKept(r)
      BY <1>0, <2>2, <2>3 DEF DataOK, DataKept, Exists
    <3> QED
      BY <2>2, <3>1, Ended
  <2> QED
    BY <2>1, <2>2, <2>3, OneWritten
<1>6. CASE SaveMove(r)
  <2>1. stale' \in BOOLEAN
    BY <1>6 DEF SaveMove
  <2>2. PICK s \in Students, a \in Account : owner[<<"profile", s>>] = r /\ stu' = [stu EXCEPT ![s] = a]
    BY <1>6, MoveWrites
  <2>3. Finish(r) /\ UNCHANGED <<cou, inv, lapsed, left>>
    BY <1>6 DEF SaveMove
  <2> QED
    BY <2>1, <2>2, <2>3, OneWritten
<1>7. CASE SaveSetActive(r)
  <2>1. stale' \in BOOLEAN
    BY <1>0, <1>7 DEF SaveSetActive, DataOK
  <2>2. PICK s \in Students, a \in Account : owner[<<"profile", s>>] = r /\ stu' = [stu EXCEPT ![s] = a]
    BY <1>7, SetActiveWrites
  <2>3. Finish(r) /\ UNCHANGED <<cou, inv, lapsed, left>>
    BY <1>7 DEF SaveSetActive
  <2> QED
    BY <2>1, <2>2, <2>3, OneWritten
<1>8. CASE SaveEdit(r)
  <2>1. stale' \in BOOLEAN
    BY <1>8 DEF SaveEdit
  <2>2. PICK s \in Students, a \in Account :
          stu' = [stu EXCEPT ![s] = a] /\ (Exists(s) => a.pending = stu[s].pending)
    BY <1>8, EditWrites
  <2>3. Finish(r) /\ UNCHANGED <<cou, inv, lapsed, left>>
    BY <1>8 DEF SaveEdit
  <2>4. Exists(s) => a \in Account /\ a.pending = stu[s].pending
    BY <2>2
  <2>5. a \in Account \cup {Gone}
    OBVIOUS
  <2>6. stu' = [stu EXCEPT ![s] = a]
    BY <2>2
  <2>7. Exists(s) => \/ owner[<<"profile", s>>] \in {None, r}
                     \/ a \in Account /\ a.pending = stu[s].pending
    BY <2>4
  <2> QED
    <3> HIDE <2>4
    <3> QED
      BY <2>1, <2>3, <2>5, <2>6, <2>7, OneWritten
<1>9. CASE SaveAssign(r) \/ SaveTransfer(r)
  <2>1. DataKept(r)
    BY <1>9, CounselorsWritten DEF DataKept, Exists
  <2> QED
    BY <1>9, <2>1, CounselorsWritten, Ended
<1> QED
  BY <1>1, <1>2, <1>3, <1>4, <1>5, <1>6, <1>7, <1>8, <1>9 DEF Save

(***************************************************************************)
(* Steps of no request.                                                    *)
(***************************************************************************)
LEMMA OthersKnow ==
    ASSUME Base, UNCHANGED <<req, owner>>, DataKept(None), DataOK', left' \in [Ops -> Nat]
    PROVE  Base'
<1>1. LocksKept(None)
  BY DEF LocksKept
<1>2. ASSUME NEW q \in Requests PROVE Knows(q)'
  BY <1>1, <1>2, OtherKnows, IdFacts
<1> QED
  BY <1>2 DEF Base, RequestsOK

LEMMA InviteWritten ==
    ASSUME Base, inv' \in [Invites -> Invite \cup {None}], UNCHANGED <<stu, cou, lapsed, req, owner, stale>>,
           left' \in [Ops -> Nat],
           \A i \in Invites : inv[i] # None =>
               /\ inv'[i] # None
               /\ inv'[i].email = inv[i].email /\ inv'[i].uses = inv[i].uses
               /\ owner[<<"invite", i>>] # None =>
                    (inv'[i].status = "revoked" => inv[i].status = "revoked")
    PROVE  Base'
<1>1. DataOK'
  BY DEF Base, DataOK
<1>2. DataKept(None)
  BY DEF DataKept, Exists
<1> QED
  BY <1>1, <1>2, OthersKnow

LEMMA LeftLess == ASSUME RequestsOK, NEW op \in Ops, left[op] > 0, left' = [left EXCEPT ![op] = @ - 1]
                  PROVE  left' \in [Ops -> Nat]
BY DEF RequestsOK

LEMMA CreateInviteSafe ==
    ASSUME Base, NEW c \in Counselors, NEW e \in Emails \cup {None}, CreateInvite(c, e)
    PROVE  Base'
<1> USE IdFacts
<1>0. DataOK /\ RequestsOK
  BY DEF Base
<1>1. PICK k \in Schools : k = cou[c]
  BY <1>0 DEF DataOK
<1>2. PICK Replaced \in SUBSET Invites :
        Replaced = {i \in Invites : /\ inv[i] # None /\ e # None
                                    /\ inv[i].email = e /\ inv[i].school = k
                                    /\ inv[i].status # "revoked" /\ inv[i].uses = 0}
  OBVIOUS
<1>3. PICK a : a = [school |-> k, counselor |-> c, email |-> e, uses |-> 0, status |-> "open"]
  OBVIOUS
<1>4. PICK new \in Invites :
        /\ inv[new] = None
        /\ inv' = [i \in Invites |-> IF i = new THEN a
                     ELSE IF i \in Replaced THEN [inv[i] EXCEPT !.status = "revoked"] ELSE inv[i]]
  BY <1>1, <1>2, <1>3 DEF CreateInvite, NextId
<1>5. /\ \A i \in Replaced : owner[<<"invite", i>>] = None
      /\ UNCHANGED <<stu, cou, lapsed, req, owner, stale>>
  BY <1>1, <1>2 DEF CreateInvite
<1>6. left' \in [Ops -> Nat]
  BY <1>0, LeftLess DEF CreateInvite, Ops
<1>7. ASSUME NEW i \in Replaced
      PROVE  /\ inv[i] \in Invite /\ [inv[i] EXCEPT !.status = "revoked"] \in Invite
             /\ [inv[i] EXCEPT !.status = "revoked"].email = inv[i].email
             /\ [inv[i] EXCEPT !.status = "revoked"].uses = inv[i].uses
  <2>1. inv[i] \in Invite
    BY <1>0, <1>2 DEF DataOK
  <2> QED
    BY <2>1 DEF Invite
<1>8. inv' \in [Invites -> Invite \cup {None}]
  <2>1. a \in Invite
    BY <1>3 DEF Invite
  <2> QED
    BY <1>0, <1>4, <1>7, <2>1 DEF DataOK
<1>9. ASSUME NEW i \in Invites, inv[i] # None
      PROVE  /\ inv'[i] # None
             /\ inv'[i].email = inv[i].email /\ inv'[i].uses = inv[i].uses
             /\ owner[<<"invite", i>>] # None =>
                  (inv'[i].status = "revoked" => inv[i].status = "revoked")
  BY <1>4, <1>5, <1>7, <1>9
<1> QED
  BY <1>5, <1>6, <1>8, <1>9, InviteWritten

LEMMA RevokeSafe ==
    ASSUME Base, NEW i \in Invites, RevokeInvite(i) \/ Expire(i) PROVE Base'
<1> USE IdFacts
<1>0. DataOK /\ RequestsOK
  BY DEF Base
<1>1. /\ inv[i] # None
      /\ UNCHANGED <<stu, cou, lapsed, req, owner, stale>>
  BY DEF RevokeInvite, Expire
<1>2. left' \in [Ops -> Nat]
  BY <1>0, LeftLess DEF RevokeInvite, Expire, Ops
<1>3. inv[i] \in Invite
  BY <1>0, <1>1 DEF DataOK
<1>4. PICK st \in {"revoked", "expired"} :
        /\ inv' = [inv EXCEPT ![i] = [inv[i] EXCEPT !.status = st]]
        /\ st = "revoked" => owner[<<"invite", i>>] = None
  <2>1. CASE RevokeInvite(i)
    BY <1>0, <2>1 DEF RevokeInvite, DataOK
  <2>2. CASE Expire(i)
    BY <1>0, <2>2 DEF Expire, DataOK
  <2> QED
    BY <2>1, <2>2
<1>5. PICK a : a = [inv[i] EXCEPT !.status = st]
  OBVIOUS
<1>6. a \in Invite /\ a.email = inv[i].email /\ a.uses = inv[i].uses /\ a.status = st
  BY <1>3, <1>5 DEF Invite
<1>7. inv' \in [Invites -> Invite \cup {None}] /\ inv'[i] = a /\ \A j \in Invites : j # i => inv'[j] = inv[j]
  BY <1>0, <1>4, <1>5, <1>6 DEF DataOK
<1> QED
  BY <1>1, <1>2, <1>4, <1>6, <1>7, InviteWritten

LEMMA LapseSafe == ASSUME Base, NEW k \in Schools, Lapse(k) PROVE Base'
<1>0. DataOK /\ RequestsOK
  BY DEF Base
<1>1. left' \in [Ops -> Nat]
  BY <1>0, LeftLess DEF Lapse, Ops
<1>2. DataOK'
  BY <1>0 DEF Lapse, DataOK
<1>3. DataKept(None)
  BY DEF Lapse, DataKept, Exists
<1> QED
  BY <1>1, <1>2, <1>3, OthersKnow DEF Lapse

LEMMA AbortSafe == ASSUME Base, NEW r \in Requests, Abort(r) PROVE Base'
BY Gave DEF Abort

LEMMA BaseStep == Base /\ [Next]_vars => Base'
<1> SUFFICES ASSUME Base, [Next]_vars PROVE Base'
  OBVIOUS
<1>1. ASSUME NEW r \in Requests, Arrive(r) \/ Wait(r) \/ Save(r) \/ Abort(r) PROVE Base'
  BY <1>1, ArriveSafe, WaitSafe, SaveSafe, AbortSafe
<1>2. ASSUME NEW c \in Counselors, NEW e \in Emails \cup {None}, CreateInvite(c, e) PROVE Base'
  BY <1>2, CreateInviteSafe
<1>3. ASSUME NEW i \in Invites, RevokeInvite(i) \/ Expire(i) PROVE Base'
  BY <1>3, RevokeSafe
<1>4. ASSUME NEW k \in Schools, Lapse(k) PROVE Base'
  BY <1>4, LapseSafe
<1>5. CASE UNCHANGED vars
  <2>1. DataOK' /\ DataKept(None) /\ UNCHANGED <<req, owner>> /\ left' \in [Ops -> Nat]
    BY <1>5 DEF vars, Base, DataOK, RequestsOK, DataKept, Exists
  <2> QED
    BY <2>1, OthersKnow
<1> QED
  BY <1>1, <1>2, <1>3, <1>4, <1>5 DEF Next

LEMMA BaseInit == Init => Base
<1> SUFFICES ASSUME Init PROVE Base
  OBVIOUS
<1> USE IdFacts
<1>1. stu \in [Students -> Account \cup {None, Gone}]
  BY PopulationsAreReal DEF Init, Population
<1>2. DataOK
  BY <1>1, EnrollmentConstants DEF Init, DataOK
<1>3. RequestsOK
  BY IdleFacts, EnrollmentConstants DEF Init, RequestsOK
<1>4. \A r \in Requests : Knows(r)
  <2>1. \A r \in Requests : req[r] = Idle
    BY DEF Init
  <2> QED
    BY <2>1 DEF Knows, KnowsAs, Idle, HasInvite, HasSchool, HasProfile, HasUser
<1> QED
  BY <1>2, <1>3, <1>4 DEF Base

\* Every request holds the row locks its step needs, and what it read under them
\* still holds (the select_for_update calls of the services).
THEOREM Invariance == Spec => []Base
BY BaseInit, BaseStep, PTL DEF Spec

\* Accounts, invites, locks and requests keep their types.
THEOREM TypeCorrect == Spec => []TypeOK
<1>1. Base => TypeOK
  BY DEF Base, DataOK, RequestsOK, TypeOK
<1> QED
  BY <1>1, Invariance, PTL

(***************************************************************************)
(* What a commit may do to a student and to an invite.                      *)
(***************************************************************************)
\* r keeps the student's row, deletes an unconfirmed student, writes the account
\* of someone who keeps the invite they came by, or adds one who needs no invite.
Changed(s) ==
    \/ stu'[s] = stu[s]
    \/ stu'[s] = Gone /\ Exists(s) /\ stu[s].pending
    \/ stu'[s] \in Account /\ Exists(s) /\ stu'[s].via = stu[s].via
    \/ stu'[s] \in Account /\ ~Exists(s) /\ stu'[s].via = None /\ ~stu'[s].pending

LEMMA OneChanged ==
    ASSUME Base, NEW s \in Students, NEW a, stu' = [stu EXCEPT ![s] = a],
           \/ a = Gone /\ Exists(s) /\ stu[s].pending
           \/ a \in Account /\ Exists(s) /\ a.via = stu[s].via
           \/ a \in Account /\ ~Exists(s) /\ a.via = None /\ ~a.pending
    PROVE  \A t \in Students : Changed(t)
<1>1. stu'[s] = a /\ \A t \in Students : t # s => stu'[t] = stu[t]
  BY DEF Base, DataOK
<1> QED
  BY <1>1 DEF Changed

LEMMA SaveChanges ==
    ASSUME Base, NEW r \in Requests, Save(r), ~SaveAccept(r)
    PROVE  (\A t \in Students : Changed(t)) /\ UNCHANGED inv
<1> USE IdFacts
<1>1. CASE SaveCreate(r)
  <2>1. PICK s \in Students, a \in Account : stu[s] = None /\ stu' = [stu EXCEPT ![s] = a] /\ a.via = None /\ ~a.pending
    BY <1>1, CreateWrites
  <2>2. ~Exists(s)
    BY <2>1 DEF Exists
  <2> QED
    BY <1>1, <2>1, <2>2, OneChanged DEF SaveCreate
<1>2. CASE SaveConfirm(r)
  <2>1. PICK s \in Students, a \in Account :
          /\ s = req[r].student /\ owner[<<"profile", s>>] = r /\ Exists(s)
          /\ stu' = [stu EXCEPT ![s] = a] /\ a = [stu[s] EXCEPT !.pending = FALSE]
    BY <1>2, ConfirmWrites
  <2>2. stu[s] \in Account
    BY <2>1, LiveAccount DEF Base
  <2>3. a.via = stu[s].via
    BY <2>1, <2>2 DEF Account
  <2> QED
    BY <1>2, <2>1, <2>3, OneChanged DEF SaveConfirm
<1>3. CASE SaveReject(r)
  <2>1. PICK s \in Students : Exists(s) /\ stu[s].pending /\ stu' = [stu EXCEPT ![s] = Gone]
    BY <1>3, RejectWrites
  <2> QED
    BY <1>3, <2>1, OneChanged DEF SaveReject
<1>4. CASE SavePatch(r)
  <2>1. CASE UNCHANGED stu
    BY <1>4, <2>1 DEF Changed, SavePatch
  <2>2. ASSUME NEW s \in Students, NEW a \in Account, Exists(s), stu[s] \in Account,
               stu' = [stu EXCEPT ![s] = a],
               a = Written(s, req[r].seen, req[r].seen.school, req[r].seen.counselor)
        PROVE  \A t \in Students : Changed(t)
    <3>1. a.via = stu[s].via
      BY <2>2 DEF Written, Account
    <3> QED
      BY <2>2, <3>1, OneChanged
  <2> QED
    BY <1>4, <2>1, <2>2, PatchWrites
<1>5. CASE SaveMove(r)
  <2>1. PICK s \in Students, a \in Account :
          /\ s = req[r].student /\ owner[<<"profile", s>>] = r /\ Exists(s)
          /\ stu' = [stu EXCEPT ![s] = a] /\ a.school = req[r].to /\ a.acct = req[r].to
          /\ a.pending = req[r].seen.pending /\ a.active = stu[s].active /\ a.via = stu[s].via
    BY <1>5, MoveWrites
  <2> QED
    BY <1>5, <2>1, OneChanged DEF SaveMove
<1>6. CASE SaveSetActive(r)
  <2>1. PICK s \in Students, a \in Account :
          /\ s = req[r].student /\ owner[<<"profile", s>>] = r /\ Exists(s)
          /\ stu' = [stu EXCEPT ![s] = a] /\ a.active = (req[r].op = "reactivate")
          /\ a.school = stu[s].school /\ a.acct = stu[s].acct /\ a.pending = stu[s].pending
          /\ a.via = stu[s].via
    BY <1>6, SetActiveWrites
  <2> QED
    BY <1>6, <2>1, OneChanged DEF SaveSetActive
<1>7. CASE SaveEdit(r)
  <2>1. PICK s \in Students, a \in Account :
          /\ s = req[r].student /\ stu' = [stu EXCEPT ![s] = a]
          /\ a.acct = req[r].seen.acct /\ a.active = req[r].seen.active
          /\ ~Exists(s) => ~a.pending /\ a.via = None
          /\ Exists(s) => /\ a.pending = stu[s].pending /\ a.via = stu[s].via
                          /\ a.school = stu[s].school \/ stu[s].school # req[r].seen.acct
    BY <1>7, EditWrites
  <2>2. (Exists(s) /\ a.via = stu[s].via) \/ (~Exists(s) /\ a.via = None /\ ~a.pending)
    BY <2>1
  <2>3. stu' = [stu EXCEPT ![s] = a]
    BY <2>1
  <2>4. \A t \in Students : Changed(t)
    BY <2>2, <2>3, OneChanged
  <2> QED
    BY <1>7, <2>4 DEF SaveEdit
<1>8. CASE SaveAssign(r) \/ SaveTransfer(r)
  BY <1>8, CounselorsWritten DEF Changed
<1> QED
  BY <1>1, <1>2, <1>3, <1>4, <1>5, <1>6, <1>7, <1>8 DEF Save

\* Steps that commit nothing leave the students and the use counts alone.
Quiet == /\ UNCHANGED <<stu, stale>>
         /\ \A i \in Invites :
              inv[i] # None => inv'[i] # None /\ inv'[i].uses = inv[i].uses /\ inv'[i].email = inv[i].email
         /\ \A i \in Invites : inv[i] = None /\ inv'[i] # None => inv'[i].uses = 0

LEMMA QuietStep ==
    ASSUME Base, [Next]_vars PROVE Quiet \/ \E r \in Requests : Save(r)
<1> USE IdFacts
<1>0. DataOK
  BY DEF Base
<1>1. ASSUME UNCHANGED <<stu, inv, stale>> PROVE Quiet
  BY <1>1, SMTT(60) DEF Quiet
<1>2. ASSUME NEW r \in Requests, Arrive(r) PROVE UNCHANGED <<stu, inv, stale>>
  BY <1>2, ZenonT(60)
     DEF Arrive, Begin, BeginAccept, BeginCreate, BeginDecide, BeginPatch, BeginSetActive, BeginEdit,
         BeginAssign, BeginTransfer
<1>3. ASSUME NEW r \in Requests, Wait(r) PROVE UNCHANGED <<stu, inv, stale>>
  BY <1>3 DEF Wait, Data, FindInvite, Accepting, Claim, CheckSeat, LockConfirm, LockReject,
     LockProfile, LockMove,
     LockSetActive, LockEdit, EnsureProfile, LockEditMove, LockList, LockAssign, LockTransfer,
     StartClear, LockClear
<1>4. ASSUME NEW r \in Requests, Abort(r) PROVE UNCHANGED <<stu, inv, stale>>
  BY <1>4 DEF Abort, Data
<1>5. ASSUME NEW c \in Counselors, NEW e \in Emails \cup {None}, CreateInvite(c, e) PROVE Quiet
  <2>1. PICK Replaced \in SUBSET Invites :
          Replaced = {i \in Invites : /\ inv[i] # None /\ e # None
                                      /\ inv[i].email = e /\ inv[i].school = cou[c]
                                      /\ inv[i].status # "revoked" /\ inv[i].uses = 0}
    OBVIOUS
  <2>2. PICK a : a = [school |-> cou[c], counselor |-> c, email |-> e, uses |-> 0, status |-> "open"]
    OBVIOUS
  <2>3. PICK new \in Invites :
          /\ inv[new] = None
          /\ inv' = [i \in Invites |-> IF i = new THEN a
                       ELSE IF i \in Replaced THEN [inv[i] EXCEPT !.status = "revoked"] ELSE inv[i]]
    BY <1>5, <2>1, <2>2 DEF CreateInvite, NextId
  <2>4. ASSUME NEW i \in Replaced
        PROVE  inv[i] # None /\ inv'[i] # None /\ inv'[i].uses = inv[i].uses /\ inv'[i].email = inv[i].email
    <3>1. inv[i] \in Invite
      BY <1>0, <2>1 DEF DataOK
    <3>2. inv'[i] = [inv[i] EXCEPT !.status = "revoked"] /\ [inv[i] EXCEPT !.status = "revoked"] \in Invite
      BY <2>1, <2>3, <3>1 DEF Invite
    <3> QED
      BY <3>1, <3>2 DEF Invite
  <2>5. \A i \in Invites : i # new /\ i \notin Replaced => inv'[i] = inv[i]
    BY <2>3
  <2>6. inv'[new].uses = 0 /\ inv[new] = None
    BY <2>2, <2>3
  <2>7. UNCHANGED <<stu, stale>>
    BY <1>5 DEF CreateInvite
  <2>8. \A i \in Invites :
          inv[i] # None => inv'[i] # None /\ inv'[i].uses = inv[i].uses /\ inv'[i].email = inv[i].email
    BY <2>4, <2>5, <2>6
  <2>9. \A i \in Invites : inv[i] = None /\ inv'[i] # None => inv'[i].uses = 0
    BY <2>4, <2>5, <2>6
  <2> QED
    BY <2>7, <2>8, <2>9 DEF Quiet
<1>6. ASSUME NEW i \in Invites, RevokeInvite(i) \/ Expire(i) PROVE Quiet
  <2>1. inv[i] \in Invite /\ UNCHANGED <<stu, stale>>
    BY <1>0, <1>6 DEF RevokeInvite, Expire, DataOK
  <2>2. PICK st \in {"revoked", "expired"} : inv' = [inv EXCEPT ![i] = [inv[i] EXCEPT !.status = st]]
    BY <1>0, <1>6 DEF RevokeInvite, Expire, DataOK
  <2>3. PICK a : a = [inv[i] EXCEPT !.status = st]
    OBVIOUS
  <2>4. a \in Invite /\ a.uses = inv[i].uses /\ a.email = inv[i].email
    BY <2>1, <2>3 DEF Invite
  <2>5. inv'[i] = a /\ \A j \in Invites : j # i => inv'[j] = inv[j]
    BY <1>0, <2>2, <2>3 DEF DataOK
  <2> QED
    BY <2>1, <2>4, <2>5 DEF Quiet
<1>7. ASSUME NEW k \in Schools, Lapse(k) PROVE UNCHANGED <<stu, inv, stale>>
  BY <1>7 DEF Lapse
<1>8. CASE UNCHANGED vars
  BY <1>1, <1>8 DEF vars
<1> QED
  BY <1>1, <1>2, <1>3, <1>4, <1>5, <1>6, <1>7, <1>8 DEF Next

\* A student who was confirmed is not deleted by a rejection that another member
\* of staff sent at the same time (reject_student checks under the profile's lock).
THEOREM ConfirmedStay == Spec => ConfirmedIsNotDeleted
<1>1. Base /\ [Next]_vars => [\A s \in Students : Exists(s) /\ ~stu[s].pending => stu'[s] # Gone]_vars
  <2> SUFFICES ASSUME Base, [Next]_vars, NEW s \in Students, Exists(s), ~stu[s].pending
               PROVE  stu'[s] # Gone
    OBVIOUS
  <2> USE IdFacts
  <2>1. CASE Quiet
    BY <2>1 DEF Quiet, Exists
  <2>2. ASSUME NEW r \in Requests, Save(r), ~SaveAccept(r) PROVE stu'[s] # Gone
    <3>1. Changed(s)
      BY <2>2, SaveChanges
    <3> QED
      BY <3>1 DEF Changed, Exists
  <2>3. ASSUME NEW r \in Requests, SaveAccept(r) PROVE stu'[s] # Gone
    <3>1. CASE UNCHANGED stu
      BY <3>1 DEF Exists
    <3>2. ASSUME NEW t \in Students, NEW a \in Account, stu[t] = None, stu' = [stu EXCEPT ![t] = a]
          PROVE  stu'[s] # Gone
      BY <3>2 DEF Exists
    <3>3. \/ UNCHANGED stu
          \/ \E t \in Students, a \in Account : stu[t] = None /\ stu' = [stu EXCEPT ![t] = a]
      <4>1. \/ UNCHANGED <<stu, inv>>
            \/ \E t \in Students, a \in Account :
                 /\ stu[t] = None /\ stu' = [stu EXCEPT ![t] = a]
                 /\ a.school = req[r].to /\ a.acct = req[r].to /\ a.pending /\ a.via = req[r].invite
                 /\ inv' = [inv EXCEPT ![req[r].invite] = [inv[req[r].invite] EXCEPT !.uses = @ + 1]]
        BY <2>3, AcceptWrites, Zenon
      <4> QED
        BY <4>1, Zenon
    <3> QED
      BY <3>1, <3>2, <3>3, Zenon
  <2> QED
    BY <2>1, <2>2, <2>3, QuietStep
<1> QED
  BY <1>1, Invariance, PTL DEF Spec, ConfirmedIsNotDeleted

\* A join that is under way when its invite is revoked or replaced does not get
\* through: it either holds the invite's row or looks again before it counts the
\* use (accept_invite against revoke_invite and create_invite).
THEOREM RevokedAdmitNobody == Spec => RevokedInviteAdmitsNobody
<1>1. Base /\ [Next]_vars =>
        [\A i \in Invites : inv[i] # None /\ inv[i].status = "revoked" => inv'[i].uses = inv[i].uses]_vars
  <2> SUFFICES ASSUME Base, [Next]_vars, NEW i \in Invites, inv[i] # None, inv[i].status = "revoked"
               PROVE  inv'[i].uses = inv[i].uses
    OBVIOUS
  <2>1. CASE Quiet
    BY <2>1 DEF Quiet
  <2>2. ASSUME NEW r \in Requests, Save(r), ~SaveAccept(r) PROVE inv'[i].uses = inv[i].uses
    BY <2>2, SaveChanges
  <2>3. ASSUME NEW r \in Requests, SaveAccept(r) PROVE inv'[i].uses = inv[i].uses
    <3>1. i # req[r].invite
      BY <2>3, AcceptWrites, ZenonT(60)
    <3>2. UNCHANGED inv \/ inv' = [inv EXCEPT ![req[r].invite] = [inv[req[r].invite] EXCEPT !.uses = @ + 1]]
      BY <2>3, AcceptWrites
    <3> QED
      BY <3>1, <3>2 DEF Base, DataOK
  <2> QED
    BY <2>1, <2>2, <2>3, QuietStep
<1> QED
  BY <1>1, Invariance, PTL DEF Spec, RevokedInviteAdmitsNobody

(***************************************************************************)
(* The use count of an invite covers the students who came in by it.        *)
(***************************************************************************)
Admitted(i) == {s \in Students : Exists(s) /\ stu[s].via = i}
CountOf(i) == IF inv[i] = None THEN 0 ELSE inv[i].uses
Counted ==
    \A i \in Invites : /\ Cardinality(Admitted(i)) <= CountOf(i)
                       /\ inv[i] # None /\ inv[i].email # None => inv[i].uses <= 1

LEMMA Smaller ==
    ASSUME NEW A \in SUBSET Students, NEW B \in SUBSET Students, A \subseteq B
    PROVE  Cardinality(A) <= Cardinality(B) /\ Cardinality(A) \in Nat /\ Cardinality(B) \in Nat
<1>1. IsFiniteSet(A) /\ IsFiniteSet(B)
  BY EnrollmentConstants, FS_Subset
<1> QED
  BY <1>1, FS_Subset, FS_CardinalityType

LEMMA OneMore ==
    ASSUME NEW A \in SUBSET Students, NEW B \in SUBSET Students, NEW s \in Students, A \subseteq B \cup {s}
    PROVE  Cardinality(A) <= Cardinality(B \ {s}) + 1 /\ Cardinality(B \ {s}) <= Cardinality(B)
<1>1. IsFiniteSet(B \ {s}) /\ Cardinality(B \ {s}) \in Nat /\ Cardinality(B \ {s}) <= Cardinality(B)
  BY EnrollmentConstants, FS_Subset, FS_CardinalityType, Smaller
<1>2. Cardinality((B \ {s}) \cup {s}) = Cardinality(B \ {s}) + 1
  BY <1>1, FS_AddElement
<1>3. A \subseteq (B \ {s}) \cup {s}
  OBVIOUS
<1> QED
  BY <1>1, <1>2, <1>3, Smaller

LEMMA CountedStep == ASSUME Base, Base', Counted, [Next]_vars PROVE Counted'
<1> SUFFICES ASSUME NEW i \in Invites
             PROVE  /\ Cardinality(Admitted(i)') <= CountOf(i)'
                    /\ inv'[i] # None /\ inv'[i].email # None => inv'[i].uses <= 1
  BY DEF Counted
<1> USE IdFacts
<1>1. /\ inv[i] \in Invite \cup {None} /\ inv'[i] \in Invite \cup {None}
      /\ Admitted(i) \in SUBSET Students /\ Admitted(i)' \in SUBSET Students
  BY DEF Base, DataOK, Admitted
<1>2. /\ Cardinality(Admitted(i)) <= CountOf(i) /\ CountOf(i) \in Nat
      /\ inv[i] # None /\ inv[i].email # None => inv[i].uses <= 1
  BY <1>1 DEF Counted, CountOf, Invite
<1>3. ASSUME Admitted(i)' \subseteq Admitted(i), CountOf(i)' = CountOf(i)
      PROVE  Cardinality(Admitted(i)') <= CountOf(i)'
  BY <1>1, <1>2, <1>3, Smaller
<1>4. CASE Quiet
  <2>1. Admitted(i)' \subseteq Admitted(i)
    BY <1>4 DEF Quiet, Admitted, Exists
  <2>2. CountOf(i)' = CountOf(i)
    BY <1>4 DEF Quiet, CountOf
  <2>3. inv'[i] # None /\ inv'[i].email # None => inv'[i].uses <= 1
    BY <1>2, <1>4 DEF Quiet
  <2> QED
    BY <1>3, <2>1, <2>2, <2>3
<1>5. ASSUME NEW r \in Requests, Save(r), ~SaveAccept(r)
      PROVE  Cardinality(Admitted(i)') <= CountOf(i)' /\ UNCHANGED inv
  <2>1. (\A t \in Students : Changed(t)) /\ UNCHANGED inv
    BY <1>5, SaveChanges
  <2>2. Admitted(i)' \subseteq Admitted(i)
    BY <2>1 DEF Changed, Admitted, Exists
  <2> QED
    BY <1>3, <2>1, <2>2 DEF CountOf
<1>6. ASSUME NEW r \in Requests, SaveAccept(r)
      PROVE  /\ Cardinality(Admitted(i)') <= CountOf(i)'
             /\ inv'[i] # None /\ inv'[i].email # None => inv'[i].uses <= 1
  <2>1. CASE UNCHANGED <<stu, inv>>
    <3>1. Admitted(i)' \subseteq Admitted(i) /\ CountOf(i)' = CountOf(i)
      BY <2>1 DEF Admitted, Exists, CountOf
    <3> QED
      BY <1>2, <1>3, <2>1, <3>1
  <2>2. ASSUME NEW j \in Invites, j = req[r].invite, inv[j] \in Invite, NEW s \in Students, NEW a \in Account,
               inv[j].email # None => inv[j].uses < 1,
               stu[s] = None, stu' = [stu EXCEPT ![s] = a], a.via = j,
               inv' = [inv EXCEPT ![j] = [inv[j] EXCEPT !.uses = @ + 1]]
        PROVE  /\ Cardinality(Admitted(i)') <= CountOf(i)'
               /\ inv'[i] # None /\ inv'[i].email # None => inv'[i].uses <= 1
    <3>1. stu'[s] = a /\ \A t \in Students : t # s => stu'[t] = stu[t]
      BY <2>2 DEF Base, DataOK
    <3>2. CASE i # j
      <4>1. inv'[i] = inv[i]
        BY <2>2, <3>2 DEF Base, DataOK
      <4>2. Admitted(i)' \subseteq Admitted(i)
        BY <2>2, <3>1, <3>2 DEF Admitted, Exists
      <4> QED
        BY <1>2, <1>3, <4>1, <4>2 DEF CountOf
    <3>3. CASE i = j
      <4>1. PICK n \in Nat : n = inv[j].uses
        BY <2>2 DEF Invite
      <4>2. inv'[i] \in Invite /\ inv'[i].uses = n + 1 /\ inv'[i].email = inv[i].email
        BY <2>2, <3>3, <4>1 DEF Base, DataOK, Invite
      <4>3. CountOf(i) = n /\ CountOf(i)' = n + 1
        BY <2>2, <3>3, <4>1, <4>2 DEF CountOf
      <4>4. Admitted(i)' \subseteq Admitted(i) \cup {s}
        BY <3>1 DEF Admitted, Exists
      <4>5. Cardinality(Admitted(i)') <= n + 1
        <5>1. /\ Cardinality(Admitted(i)') <= Cardinality(Admitted(i) \ {s}) + 1
              /\ Cardinality(Admitted(i) \ {s}) <= Cardinality(Admitted(i))
          BY <1>1, <4>4, OneMore
        <5>2. /\ Cardinality(Admitted(i)') \in Nat /\ Cardinality(Admitted(i)) \in Nat
              /\ Cardinality(Admitted(i) \ {s}) \in Nat
          BY <1>1, Smaller
        <5> QED
          BY <1>2, <4>1, <4>3, <5>1, <5>2
      <4>6. inv'[i].email # None => n < 1
        BY <2>2, <3>3, <4>1, <4>2
      <4> QED
        BY <4>1, <4>2, <4>3, <4>5, <4>6
    <3> QED
      BY <3>2, <3>3
  <2>3. PICK j \in Invites : /\ j = req[r].invite /\ inv[j] \in Invite
                             /\ inv[j].email # None => inv[j].uses < 1
    BY <1>6, AcceptWrites
  <2>4. \/ UNCHANGED <<stu, inv>>
        \/ \E s \in Students, a \in Account :
             /\ stu[s] = None /\ stu' = [stu EXCEPT ![s] = a]
             /\ a.school = req[r].to /\ a.acct = req[r].to /\ a.pending /\ a.via = req[r].invite
             /\ inv' = [inv EXCEPT ![req[r].invite] = [inv[req[r].invite] EXCEPT !.uses = @ + 1]]
    BY <1>6, AcceptWrites
  <2> QED
    BY <2>1, <2>2, <2>3, <2>4
<1>7. ASSUME NEW r \in Requests, Save(r), ~SaveAccept(r)
      PROVE  inv'[i] # None /\ inv'[i].email # None => inv'[i].uses <= 1
  BY <1>2, <1>5, <1>7
<1> QED
  BY <1>4, <1>5, <1>6, <1>7, QuietStep

LEMMA CountedInit == Init => Counted
<1> SUFFICES ASSUME Init, NEW i \in Invites
             PROVE  Cardinality(Admitted(i)) <= CountOf(i) /\ inv[i] = None
  BY DEF Counted
<1> USE IdFacts
<1>1. inv[i] = None
  BY DEF Init
<1>2. stu \in Population
  BY PopulationsAreReal DEF Init
<1>3. \A s \in Students : Exists(s) => stu[s].via = None
  BY <1>2 DEF Population, Enrolled, Exists
<1>4. Admitted(i) = {}
  BY <1>3 DEF Admitted
<1> QED
  BY <1>1, <1>4, FS_EmptySet DEF CountOf

\* A personal invite admits one student, whoever submits its form twice and even
\* after that student was rejected and deleted; and no account comes in by an
\* invite without being counted (the claim in accept_invite).
THEOREM InvitesAdmitOne == Spec => []PersonalInviteAdmitsOne
<1>1. Counted => PersonalInviteAdmitsOne
  BY DEF Counted, PersonalInviteAdmitsOne, Admitted, CountOf
<1>2. Spec => []Counted
  <2>1. Base /\ Base' /\ Counted /\ [Next]_vars => Counted'
    BY CountedStep
  <2> QED
    BY <2>1, CountedInit, Invariance, PTL DEF Spec
<1> QED
  BY <1>1, <1>2, PTL

(***************************************************************************)
(* Plans and caps, until an editor overwrites what it had not seen: a       *)
(* request that holds a school's row is the only one that fills its seats.  *)
(***************************************************************************)
Fits(k, s) == Cardinality(SeatsOf(stu, k) \ {s}) + 1 <= Seats[k]

\* q takes a seat with its next step.
Grants(q) ==
    /\ q.pc = "save"
    /\ \/ q.op \in {"create", "confirm"}
       \/ q.op = "patch" /\ stu[q.student].active
       \/ q.op = "reactivate" /\ ~stu[q.student].active

\* What request r, being q, was told when it checked.
ToldAs(r, q, own) ==
    /\ q.op = "confirm" /\ q.pc \in {"school", "save"} => q.to = stu[q.student].school
    /\ q.op = "reactivate" /\ q.pc \in {"school", "save"} => q.to = stu[q.student].acct
    /\ Grants(q) => own[<<"school", q.to>>] = r /\ Fits(q.to, q.student)
    /\ q.op = "accept" /\ q.pc \in {"claim", "save"} => Cardinality(Waiting(q.to)) < PendingCap
Told(r) == ToldAs(r, req[r], owner)

PlansHold == \A k \in Schools : Cardinality(SeatsOf(stu, k)) <= Seats[k]
Sound == AccountFollowsProfile /\ PlansHold /\ \A r \in Requests : Told(r)
Good == ~stale => Sound

\* A step of r leaves alone who is locked by another, and adds to a school's
\* students only when it holds the school's row.
Calm(r) ==
    /\ \A s \in Students : Exists(s) /\ owner[<<"profile", s>>] \notin {None, r} =>
         stu'[s].school = stu[s].school /\ stu'[s].acct = stu[s].acct /\ stu'[s].active = stu[s].active
    /\ \A k \in Schools : owner[<<"school", k>>] # r =>
         SeatsOf(stu', k) \subseteq SeatsOf(stu, k) /\ Waiting(k)' \subseteq Waiting(k)

LEMMA OtherTold ==
    ASSUME Base, Sound, NEW r, NEW q \in Requests, q # r, req'[q] = req[q], LocksKept(r), Calm(r)
    PROVE  Told(q)'
<1> USE IdFacts, RowFacts
<1>1. Knows(q) /\ Told(q) /\ q # None /\ (req[q] = Idle \/ (req[q] \in Jobs /\ Fit(req[q])))
  BY DEF Base, RequestsOK, Sound
<1>2. CASE req[q] = Idle
  BY <1>2 DEF Told, ToldAs, Idle, Grants
<1>3. CASE req[q] \in Jobs /\ Fit(req[q])
  <2>0. PICK job : job = req[q]
    OBVIOUS
  <2>1. ASSUME HasProfile(job)
        PROVE  /\ stu'[job.student].school = stu[job.student].school
               /\ stu'[job.student].acct = stu[job.student].acct
               /\ stu'[job.student].active = stu[job.student].active
    <3>1. job.student \in Students /\ owner[<<"profile", job.student>>] = q /\ Exists(job.student)
      BY <1>1, <1>3, <2>0, <2>1 DEF Knows, KnowsAs, Fit, HasProfile, OfStudent
    <3> QED
      BY <1>1, <3>1 DEF Calm
  <2>2. /\ job.op = "confirm" /\ job.pc \in {"school", "save"} => job.to = stu'[job.student].school
        /\ job.op = "reactivate" /\ job.pc \in {"school", "save"} => job.to = stu'[job.student].acct
    BY <1>1, <2>0, <2>1 DEF Told, ToldAs, HasProfile
  <2>3. ASSUME job.pc = "save",
               \/ job.op \in {"create", "confirm"}
               \/ job.op = "patch" /\ stu'[job.student].active
               \/ job.op = "reactivate" /\ ~stu'[job.student].active
        PROVE  /\ owner'[<<"school", job.to>>] = q
               /\ Cardinality(SeatsOf(stu', job.to) \ {job.student}) + 1 <= Seats[job.to]
    <3>1. Grants(job) /\ job.to \in Schools
      <4>1. Grants(job)
        BY <2>1, <2>3 DEF HasProfile, Grants
      <4>2. job.to \in Schools
        BY <1>3, <2>0, <2>3 DEF Fit
      <4> QED
        BY <4>1, <4>2
    <3>2. owner[<<"school", job.to>>] = q /\ Fits(job.to, job.student)
      BY <1>1, <2>0, <3>1 DEF Told, ToldAs
    <3>3. owner'[<<"school", job.to>>] = q /\ SeatsOf(stu', job.to) \subseteq SeatsOf(stu, job.to)
      BY <1>1, <3>1, <3>2 DEF LocksKept, Calm
    <3>4. PICK A \in SUBSET Students : A = SeatsOf(stu', job.to) \ {job.student}
      BY DEF SeatsOf
    <3>5. PICK B \in SUBSET Students : B = SeatsOf(stu, job.to) \ {job.student}
      BY DEF SeatsOf
    <3>6. Cardinality(A) <= Cardinality(B) /\ Cardinality(A) \in Nat /\ Cardinality(B) \in Nat
      BY <3>3, <3>4, <3>5, Smaller
    <3>7. Cardinality(B) + 1 <= Seats[job.to] /\ Seats[job.to] \in Nat
      BY <3>1, <3>2, <3>5, EnrollmentConstants DEF Fits
    <3> QED
      BY <3>3, <3>4, <3>6, <3>7
  <2>4. ASSUME job.op = "accept", job.pc \in {"claim", "save"}
        PROVE  Cardinality(Waiting(job.to)') < PendingCap
    <3>1. job.to \in Schools /\ owner[<<"school", job.to>>] = q
      BY <1>1, <1>3, <2>0, <2>4 DEF Fit, Knows, KnowsAs, HasSchool
    <3>2. Waiting(job.to)' \subseteq Waiting(job.to) /\ Cardinality(Waiting(job.to)) < PendingCap
      BY <1>1, <2>0, <2>4, <3>1 DEF Calm, Told, ToldAs
    <3>3. PICK A \in SUBSET Students : A = Waiting(job.to)'
      BY DEF Waiting
    <3>4. PICK B \in SUBSET Students : B = Waiting(job.to)
      BY DEF Waiting
    <3>5. Cardinality(A) <= Cardinality(B) /\ Cardinality(A) \in Nat /\ Cardinality(B) \in Nat
      BY <3>2, <3>3, <3>4, Smaller
    <3> QED
      BY <3>2, <3>3, <3>4, <3>5, EnrollmentConstants
  <2>5. req'[q] = job
    BY <2>0
  <2> QED
    BY <2>2, <2>3, <2>4, <2>5 DEF Told, ToldAs, Grants, Fits
<1> QED
  BY <1>1, <1>2, <1>3

(***************************************************************************)
(* A commit.                                                               *)
(***************************************************************************)
\* What seats and schools are counted by.
Alike(s) ==
    /\ Exists(s)' <=> Exists(s)
    /\ Exists(s) => /\ stu'[s].school = stu[s].school /\ stu'[s].acct = stu[s].acct
                    /\ stu'[s].active = stu[s].active /\ stu'[s].pending = stu[s].pending

LEMMA NoneMoved ==
    ASSUME Base, Sound, NEW r, \A s \in Students : Alike(s)
    PROVE  AccountFollowsProfile' /\ PlansHold' /\ Calm(r)
<1>1. AccountFollowsProfile'
  BY DEF Sound, AccountFollowsProfile, Alike
<1>2. \A k \in Schools : SeatsOf(stu', k) = SeatsOf(stu, k) /\ Waiting(k)' = Waiting(k)
  BY DEF SeatsOf, Waiting, Alike, Exists
<1>3. PlansHold'
  BY <1>2 DEF Sound, PlansHold
<1>4. Calm(r)
  BY <1>2 DEF Calm, Alike
<1> QED
  BY <1>1, <1>3, <1>4

\* One account is written: by whom nobody else has locked, within its school's
\* plan when it takes a seat, and with the school's row when it adds to the school.
LEMMA OneMoved ==
    ASSUME Base, Sound, NEW r \in Requests, NEW s \in Students, NEW a, stu' = [stu EXCEPT ![s] = a],
           a \in Account \/ a = Gone,
           a \in Account => a.acct = a.school,
           Exists(s) => owner[<<"profile", s>>] \in {None, r},
           a \in Account /\ a.active =>
             \/ owner[<<"school", a.school>>] = r
             \/ /\ Exists(s) /\ stu[s].active /\ stu[s].school = a.school /\ stu[s].pending = a.pending,
           a \in Account /\ a.active /\ ~a.pending => s \in SeatsOf(stu, a.acct) \/ Fits(a.acct, s)
    PROVE  AccountFollowsProfile' /\ PlansHold' /\ Calm(r)
<1> USE IdFacts
<1>1. stu'[s] = a /\ \A t \in Students : t # s => stu'[t] = stu[t]
  BY DEF Base, DataOK
<1>2. AccountFollowsProfile'
  BY <1>1 DEF Sound, AccountFollowsProfile, Exists
<1>3. \A t \in Students : t # s => (Exists(t)' <=> Exists(t))
  BY <1>1 DEF Exists
<1>4. ASSUME NEW k \in Schools PROVE Cardinality(SeatsOf(stu', k)) <= Seats[k]
  <2>1. PICK A \in SUBSET Students : A = SeatsOf(stu', k)
    BY DEF SeatsOf
  <2>2. PICK B \in SUBSET Students : B = SeatsOf(stu, k)
    BY DEF SeatsOf
  <2>3. A \subseteq B \cup {s}
    BY <1>1, <2>1, <2>2 DEF SeatsOf
  <2>4. Cardinality(B) <= Seats[k] /\ Seats[k] \in Nat
    BY <2>2, EnrollmentConstants DEF Sound, PlansHold
  <2>5. CASE s \notin A \/ s \in B
    <3>1. A \subseteq B
      BY <2>3, <2>5
    <3>2. Cardinality(A) <= Cardinality(B) /\ Cardinality(A) \in Nat /\ Cardinality(B) \in Nat
      BY <3>1, Smaller
    <3> QED
      BY <2>1, <2>4, <3>2
  <2>6. CASE s \in A /\ s \notin B
    <3>1. a \in Account /\ a.active /\ ~a.pending /\ a.acct = k
      BY <1>1, <2>1, <2>6 DEF SeatsOf
    <3>2. Cardinality(B \ {s}) + 1 <= Seats[k]
      BY <2>2, <2>6, <3>1 DEF Fits
    <3>3. Cardinality(A) <= Cardinality(B \ {s}) + 1
      BY <2>3, OneMore
    <3>4. Cardinality(A) \in Nat /\ Cardinality(B \ {s}) \in Nat
      <4>1. B \ {s} \in SUBSET Students
        OBVIOUS
      <4> QED
        BY <4>1, Smaller
    <3> QED
      BY <2>1, <2>4, <3>2, <3>3, <3>4
  <2> QED
    BY <2>5, <2>6
<1>5. ASSUME NEW k \in Schools, owner[<<"school", k>>] # r
      PROVE  SeatsOf(stu', k) \subseteq SeatsOf(stu, k) /\ Waiting(k)' \subseteq Waiting(k)
  <2>1. ASSUME a \in Account, a.active, a.school = k
        PROVE  Exists(s) /\ stu[s].active /\ stu[s].school = k /\ stu[s].acct = k /\ stu[s].pending = a.pending
    BY <1>5, <2>1 DEF Sound, AccountFollowsProfile
  <2>2. SeatsOf(stu', k) \subseteq SeatsOf(stu, k)
    <3> SUFFICES ASSUME NEW t \in SeatsOf(stu', k) PROVE t \in SeatsOf(stu, k)
      OBVIOUS
    <3>1. CASE t # s
      BY <1>1, <3>1 DEF SeatsOf
    <3>2. CASE t = s
      <4>1. a \in Account /\ a.active /\ ~a.pending /\ a.school = k
        BY <1>1, <3>2 DEF SeatsOf
      <4> QED
        BY <2>1, <3>2, <4>1 DEF SeatsOf, Exists
    <3> QED
      BY <3>1, <3>2
  <2>3. Waiting(k)' \subseteq Waiting(k)
    <3> SUFFICES ASSUME NEW t \in Students, t \in Waiting(k)' PROVE t \in Waiting(k)
      BY DEF Waiting
    <3>1. CASE t # s
      BY <1>1, <3>1 DEF Waiting, Exists
    <3>2. CASE t = s
      <4>1. a \in Account /\ a.active /\ a.pending /\ a.school = k
        BY <1>1, <3>2 DEF Waiting, Exists
      <4> QED
        BY <2>1, <3>2, <4>1 DEF Waiting
    <3> QED
      BY <3>1, <3>2
  <2> QED
    BY <2>2, <2>3
<1>6. Calm(r)
  BY <1>1, <1>5 DEF Calm
<1> QED
  BY <1>2, <1>4, <1>6 DEF PlansHold

LEMMA SaveSound ==
    ASSUME Base, Sound, ~stale', NEW r \in Requests, Save(r)
    PROVE  AccountFollowsProfile' /\ PlansHold' /\ Calm(r)
<1> USE IdFacts
<1>0. DataOK /\ RequestsOK /\ Knows(r) /\ Told(r) /\ AccountFollowsProfile
  BY DEF Base, Sound
<1>1. CASE SaveAccept(r)
  <2>1. CASE UNCHANGED stu
    <3>1. \A s \in Students : Alike(s)
      BY <2>1 DEF Alike, Exists
    <3> QED
      BY <3>1, NoneMoved
  <2>2. ASSUME NEW s \in Students, NEW a \in Account, stu[s] = None, stu' = [stu EXCEPT ![s] = a],
               a.school = req[r].to, a.acct = req[r].to, a.pending
        PROVE  AccountFollowsProfile' /\ PlansHold' /\ Calm(r)
    <3>1. owner[<<"school", a.school>>] = r
      <4>1. req[r].op = "accept" /\ req[r].pc = "save"
        BY <1>1 DEF SaveAccept, At
      <4> QED
        BY <1>0, <2>2, <4>1 DEF Knows, KnowsAs, HasSchool
    <3>2. ~Exists(s) /\ a.acct = a.school
      BY <2>2 DEF Exists
    <3> QED
      BY <2>2, <3>1, <3>2, OneMoved
  <2> QED
    BY <1>1, <2>1, <2>2, AcceptWrites
<1>2. CASE SaveCreate(r)
  <2>1. PICK s \in Students, a \in Account :
          /\ stu[s] = None /\ stu' = [stu EXCEPT ![s] = a]
          /\ a.school = req[r].to /\ a.acct = req[r].to /\ ~a.pending /\ a.via = None
    BY <1>2, CreateWrites
  <2>2. Doing(r, {"create"}, "save")
    BY <1>2, CreateWrites
  <2>3. req[r].student = None /\ owner[<<"school", req[r].to>>] = r /\ Fits(req[r].to, None)
    BY <1>0, <2>2 DEF Doing, Fit, Told, ToldAs, Grants
  <2>4. Fits(a.acct, s)
    <3>1. SeatsOf(stu, a.acct) \ {s} = SeatsOf(stu, a.acct) \ {None}
      BY <2>1 DEF SeatsOf
    <3> QED
      BY <2>1, <2>3, <3>1 DEF Fits
  <2>5. ~Exists(s) /\ a.acct = a.school /\ owner[<<"school", a.school>>] = r
    BY <2>1, <2>3 DEF Exists
  <2> QED
    BY <2>1, <2>4, <2>5, OneMoved
<1>3. CASE SaveConfirm(r)
  <2>1. PICK s \in Students, a \in Account :
          /\ s = req[r].student /\ owner[<<"profile", s>>] = r /\ Exists(s)
          /\ stu' = [stu EXCEPT ![s] = a] /\ a = [stu[s] EXCEPT !.pending = FALSE]
    BY <1>3, ConfirmWrites
  <2>2. Doing(r, {"confirm"}, "save")
    BY <1>3, ConfirmWrites
  <2>3. stu[s] \in Account
    BY <1>0, <2>1, LiveAccount
  <2>4. a.school = stu[s].school /\ a.acct = stu[s].acct
    BY <2>1, <2>3 DEF Account
  <2>5. /\ req[r].to = stu[s].school /\ owner[<<"school", req[r].to>>] = r /\ Fits(req[r].to, s)
    BY <1>0, <2>1, <2>2 DEF Doing, Told, ToldAs, Grants
  <2>6. a.acct = a.school /\ owner[<<"school", a.school>>] = r /\ Fits(a.acct, s)
    BY <1>0, <2>1, <2>4, <2>5 DEF AccountFollowsProfile
  <2> QED
    BY <2>1, <2>6, OneMoved
<1>4. CASE SaveReject(r)
  <2>1. PICK s \in Students : owner[<<"profile", s>>] = r /\ stu' = [stu EXCEPT ![s] = Gone]
    BY <1>4, RejectWrites
  <2>2. Gone \notin Account
    OBVIOUS
  <2> QED
    BY <2>1, <2>2, OneMoved
<1>5. CASE SavePatch(r)
  <2>1. CASE UNCHANGED stu
    <3>1. \A s \in Students : Alike(s)
      BY <2>1 DEF Alike, Exists
    <3> QED
      BY <3>1, NoneMoved
  <2>2. ASSUME NEW s \in Students, s = req[r].student, NEW a \in Account, Exists(s), stu[s] \in Account,
               stu' = [stu EXCEPT ![s] = a],
               a = Written(s, req[r].seen, req[r].seen.school, req[r].seen.counselor)
        PROVE  AccountFollowsProfile' /\ PlansHold' /\ Calm(r)
    <3>1. stu[s].school = req[r].seen.school /\ stu[s].pending = req[r].seen.pending
      <4>1. At(r, {"patch"}, "write") /\ ~Overwrites(r)
        BY <1>5 DEF SavePatch
      <4> QED
        BY <2>2, <4>1 DEF Overwrites
    <3>2. /\ a.school = stu[s].school /\ a.acct = stu[s].acct /\ a.active = stu[s].active
          /\ a.pending = stu[s].pending
      BY <2>2, <3>1 DEF Written, Account
    <3>3. stu'[s] = a /\ \A t \in Students : t # s => stu'[t] = stu[t]
      BY <1>0, <2>2 DEF DataOK
    <3>4. \A t \in Students : Alike(t)
      BY <2>2, <3>2, <3>3 DEF Alike, Exists
    <3> QED
      BY <3>4, NoneMoved
  <2> QED
    BY <1>5, <2>1, <2>2, PatchWrites
<1>6. CASE SaveMove(r)
  <2>1. PICK s \in Students, a \in Account :
          /\ s = req[r].student /\ owner[<<"profile", s>>] = r /\ Exists(s)
          /\ stu' = [stu EXCEPT ![s] = a] /\ a.school = req[r].to /\ a.acct = req[r].to
          /\ a.pending = req[r].seen.pending /\ a.active = stu[s].active /\ a.via = stu[s].via
    BY <1>6, MoveWrites
  <2>2. Doing(r, {"patch"}, "save")
    BY <1>6, MoveWrites
  <2>3. a.active => owner[<<"school", a.school>>] = r /\ Fits(a.acct, s)
    BY <1>0, <2>1, <2>2 DEF Doing, Told, ToldAs, Grants
  <2>4. a.acct = a.school
    BY <2>1
  <2> QED
    BY <2>1, <2>3, <2>4, OneMoved
<1>7. CASE SaveSetActive(r)
  <2>1. PICK s \in Students, a \in Account :
          /\ s = req[r].student /\ owner[<<"profile", s>>] = r /\ Exists(s)
          /\ stu' = [stu EXCEPT ![s] = a] /\ a.active = (req[r].op = "reactivate")
          /\ a.school = stu[s].school /\ a.acct = stu[s].acct /\ a.pending = stu[s].pending
          /\ a.via = stu[s].via
    BY <1>7, SetActiveWrites
  <2>2. Doing(r, {"deactivate", "reactivate"}, "save")
    BY <1>7, SetActiveWrites
  <2>3. a.acct = a.school
    BY <1>0, <2>1 DEF AccountFollowsProfile
  <2>4. a.active => req[r].op = "reactivate"
    BY <2>1
  <2>5. a.active /\ ~stu[s].active => owner[<<"school", a.school>>] = r /\ Fits(a.acct, s)
    <3> SUFFICES ASSUME a.active, ~stu[s].active PROVE owner[<<"school", a.school>>] = r /\ Fits(a.acct, s)
      OBVIOUS
    <3>1. req[r].to = stu[s].acct /\ Grants(req[r])
      BY <1>0, <2>1, <2>2, <2>4 DEF Doing, Told, ToldAs, Grants
    <3> QED
      BY <1>0, <2>1, <2>3, <3>1 DEF Told, ToldAs
  <2>6. a.active /\ ~a.pending /\ stu[s].active => s \in SeatsOf(stu, a.acct)
    BY <2>1 DEF SeatsOf, Exists
  <2> QED
    BY <2>1, <2>3, <2>5, <2>6, OneMoved
<1>8. CASE SaveEdit(r)
  <2>1. PICK s \in Students, a \in Account :
          /\ s = req[r].student /\ stu' = [stu EXCEPT ![s] = a]
          /\ a.acct = req[r].seen.acct /\ a.active = req[r].seen.active
          /\ ~Exists(s) => ~a.pending /\ a.via = None
          /\ Exists(s) => /\ a.pending = stu[s].pending /\ a.via = stu[s].via
                          /\ a.school = stu[s].school \/ stu[s].school # req[r].seen.acct
    BY <1>8, EditWrites
  <2>2. Exists(s) /\ stu[s].acct = req[r].seen.acct /\ stu[s].active = req[r].seen.active
    <3>1. At(r, {"edit"}, "save") /\ ~Overwrites(r)
      BY <1>8 DEF SaveEdit
    <3> QED
      BY <2>1, <3>1 DEF Overwrites
  <2>3. /\ a.school = stu[s].school /\ a.acct = stu[s].acct /\ a.active = stu[s].active
        /\ a.pending = stu[s].pending
    BY <1>0, <2>1, <2>2 DEF AccountFollowsProfile
  <2>4. stu'[s] = a /\ \A t \in Students : t # s => stu'[t] = stu[t]
    BY <1>0, <2>1 DEF DataOK
  <2>5. \A t \in Students : Alike(t)
    BY <2>2, <2>3, <2>4 DEF Alike, Exists
  <2> QED
    BY <2>5, NoneMoved
<1>9. CASE SaveAssign(r) \/ SaveTransfer(r)
  <2>1. \A t \in Students : Alike(t)
    BY <1>9, CounselorsWritten DEF Alike, Exists
  <2> QED
    BY <2>1, NoneMoved
<1> QED
  BY <1>1, <1>2, <1>3, <1>4, <1>5, <1>6, <1>7, <1>8, <1>9 DEF Save

(***************************************************************************)
(* A check.                                                                *)
(***************************************************************************)
\* r only changes its own request and locks nobody else holds.
Frame(r) == LocksKept(r) /\ \A q \in Requests : q # r => req'[q] = req[q]

LEMMA FinishFrame == ASSUME Base, NEW r \in Requests, Finish(r) PROVE Frame(r) /\ req'[r] = Idle
BY DEF Base, RequestsOK, Finish, Released, Frame, LocksKept

\* A request at a step nothing was checked for yet.
Silent(q) ==
    \/ q.op \in {"none", "reject", "deactivate", "assign", "transfer", "edit"}
    \/ q.op \in {"accept", "create", "patch"} /\ q.pc \notin {"claim", "save"}
    \/ q.op \in {"confirm", "reactivate"} /\ q.pc \notin {"school", "save"}

LEMMA SilentTold == ASSUME NEW r, Silent(req'[r]) PROVE Told(r)'
BY DEF Silent, Told, ToldAs, Grants

LEMMA IdleTold == ASSUME NEW r, req'[r] = Idle PROVE Told(r)'
BY DEF Told, ToldAs, Grants, Idle

LEMMA TakeFrame ==
    ASSUME Base, NEW r \in Requests, req[r] \in Jobs, NEW x \in Rows, NEW ok \in BOOLEAN, NEW next \in Steps,
           Take(r, x, ok, next)
    PROVE  /\ Frame(r)
           /\ \/ req'[r] = Idle
              \/ /\ ok /\ owner'[x] = r
                 /\ req'[r].pc = next /\ req'[r].op = req[r].op /\ req'[r].student = req[r].student
                 /\ req'[r].to = req[r].to
<1>1. CASE ok
  <2>1. owner[x] \in {None, r} /\ owner' = [owner EXCEPT ![x] = r] /\ req' = [req EXCEPT ![r].pc = next]
    BY <1>1 DEF Take
  <2>2. PICK job : job = [req[r] EXCEPT !.pc = next]
    OBVIOUS
  <2>3. /\ req' = [req EXCEPT ![r] = job] /\ job.pc = next /\ job.op = req[r].op
        /\ job.student = req[r].student /\ job.to = req[r].to
    BY <2>1, <2>2, AdvancedJob
  <2>4. req'[r] = job /\ \A q \in Requests : q # r => req'[q] = req[q]
    BY <2>3 DEF Base, RequestsOK
  <2>5. LocksKept(r) /\ owner'[x] = r
    BY <2>1, Taken1
  <2> QED
    BY <1>1, <2>3, <2>4, <2>5 DEF Frame
<1>2. CASE ~ok
  BY <1>2, FinishFrame DEF Take
<1> QED
  BY <1>1, <1>2

\* The row a lock step waits for.
LEMMA TheirRow ==
    ASSUME Base, NEW r \in Requests, NEW ops \in SUBSET Ops, NEW pc, At(r, ops, pc)
    PROVE  /\ Doing(r, ops, pc)
           /\ ops \subseteq OfStudent => /\ <<"profile", req[r].student>> \in Rows
                                         /\ <<"user", req[r].student>> \in Rows
           /\ pc = "school" => <<"school", req[r].to>> \in Rows /\ req[r].to \in Schools
           /\ ops \subseteq {"accept"} => <<"invite", req[r].invite>> \in Rows
<1>1. Doing(r, ops, pc)
  BY JobType DEF Doing, Base
<1> QED
  BY <1>1, RowFacts DEF Doing, Fit

LEMMA WaitTold ==
    ASSUME Base, Sound, NEW r \in Requests, Wait(r)
    PROVE  Frame(r) /\ Told(r)' /\ UNCHANGED Data
<1> USE IdFacts
<1>0. DataOK /\ RequestsOK /\ Knows(r) /\ Told(r)
  BY DEF Base, Sound
<1>1. CASE FindInvite(r)
  <2>1. Doing(r, {"accept"}, "invite") /\ <<"invite", req[r].invite>> \in Rows
    <3>1. At(r, {"accept"}, "invite")
      BY <1>1 DEF FindInvite
    <3> QED
      BY <3>1, TheirRow DEF Ops
  <2>2. PICK ok \in BOOLEAN : ok <=> Usable(req[r].invite) /\ ~Taken(req[r].email)
    OBVIOUS
  <2>3. Take(r, <<"invite", req[r].invite>>, ok, "school") /\ UNCHANGED Data
    BY <1>1, <2>2 DEF FindInvite, Take
  <2>4. Frame(r) /\ (req'[r] = Idle \/ (req'[r].pc = "school" /\ req'[r].op = "accept"))
    <3>1. /\ Frame(r)
          /\ req'[r] = Idle \/ (req'[r].pc = "school" /\ req'[r].op = req[r].op)
      BY <2>1, <2>3, TakeFrame DEF Doing, Steps
    <3> QED
      BY <2>1, <3>1 DEF Doing
  <2> QED
    BY <2>3, <2>4, SilentTold, IdleTold DEF Silent
<1>2. CASE Accepting(r)
  <2>1. Doing(r, {"accept"}, "school") /\ <<"school", req[r].to>> \in Rows
    <3>1. At(r, {"accept"}, "school")
      BY <1>2 DEF Accepting
    <3> QED
      BY <3>1, TheirRow DEF Ops
  <2>2. PICK ok \in BOOLEAN : ok <=> req[r].to \notin lapsed /\ Cardinality(Waiting(req[r].to)) < PendingCap
    OBVIOUS
  <2>3. Take(r, <<"school", req[r].to>>, ok, "claim") /\ UNCHANGED Data
    BY <1>2, <2>2 DEF Accepting, Take
  <2>4. /\ Frame(r)
        /\ \/ req'[r] = Idle
           \/ ok /\ req'[r].pc = "claim" /\ req'[r].op = "accept" /\ req'[r].to = req[r].to
    BY <2>1, <2>3, TakeFrame DEF Doing, Steps
  <2>5. CASE ok /\ req'[r].pc = "claim" /\ req'[r].op = "accept" /\ req'[r].to = req[r].to
    <3>1. PICK q : q = req'[r]
      OBVIOUS
    <3>2. Waiting(q.to)' = Waiting(q.to)
      BY <2>3 DEF Data, Waiting, Exists
    <3>3. ToldAs(r, q, owner)'
      BY <2>2, <2>5, <3>1, <3>2 DEF ToldAs, Grants
    <3> QED
      BY <2>3, <2>4, <3>1, <3>3 DEF Told
  <2> QED
    BY <2>3, <2>4, <2>5, IdleTold
<1>3. CASE CheckSeat(r)
  <2>1. /\ Doing(r, {"create", "confirm", "patch", "edit", "reactivate"}, "school")
        /\ <<"school", req[r].to>> \in Rows
    <3>1. At(r, {"create", "confirm", "patch", "edit", "reactivate"}, "school")
      BY <1>3 DEF CheckSeat
    <3> QED
      BY <3>1, TheirRow DEF Ops
  <2>2. PICK ok \in BOOLEAN : ok <=> SeatFits(req[r].to, req[r].student)
    OBVIOUS
  <2>3. Take(r, <<"school", req[r].to>>, ok, "save") /\ UNCHANGED Data
    BY <1>3, <2>2 DEF CheckSeat, Take
  <2>4. /\ Frame(r)
        /\ \/ req'[r] = Idle
           \/ /\ ok /\ owner'[<<"school", req[r].to>>] = r /\ req'[r].pc = "save"
              /\ req'[r].op = req[r].op /\ req'[r].student = req[r].student /\ req'[r].to = req[r].to
    BY <2>1, <2>3, TakeFrame DEF Doing, Steps
  <2>5. CASE /\ ok /\ owner'[<<"school", req[r].to>>] = r /\ req'[r].pc = "save"
             /\ req'[r].op = req[r].op /\ req'[r].student = req[r].student /\ req'[r].to = req[r].to
    <3>1. Cardinality(SeatsOf(stu, req[r].to) \ {req[r].student}) + 1 <= Seats[req[r].to]
      BY <2>2, <2>5 DEF SeatFits
    <3>2. stu' = stu
      BY <2>3 DEF Data
    <3>3. PICK q : q = req'[r]
      OBVIOUS
    <3>4. ToldAs(r, q, owner)'
      <4>1. /\ req[r].op = "confirm" => req[r].to = stu[req[r].student].school
            /\ req[r].op = "reactivate" => req[r].to = stu[req[r].student].acct
        BY <1>0, <2>1 DEF Told, ToldAs, Doing
      <4>2. Fits(q.to, q.student)'
        BY <2>5, <3>1, <3>2, <3>3 DEF Fits
      <4>3. q.op # "accept"
        BY <2>1, <2>5, <3>3 DEF Doing
      <4> QED
        BY <2>5, <3>2, <3>3, <4>1, <4>2, <4>3 DEF ToldAs
    <3> QED
      BY <2>3, <2>4, <3>3, <3>4 DEF Told
  <2> QED
    BY <2>3, <2>4, <2>5, IdleTold
<1>4. CASE LockReject(r)
  <2>1. Doing(r, {"reject"}, "profile") /\ <<"profile", req[r].student>> \in Rows
    <3>1. At(r, {"reject"}, "profile")
      BY <1>4 DEF LockReject
    <3> QED
      BY <3>1, TheirRow DEF Ops, OfStudent
  <2>2. PICK ok \in BOOLEAN : ok <=> Exists(req[r].student) /\ stu[req[r].student].pending
    OBVIOUS
  <2>3. Take(r, <<"profile", req[r].student>>, ok, "user") /\ UNCHANGED Data
    BY <1>4, <2>2 DEF LockReject, Take
  <2>4. Frame(r) /\ (req'[r] = Idle \/ req'[r].op = "reject")
    BY <2>1, <2>3, TakeFrame DEF Doing, Steps
  <2> QED
    BY <2>3, <2>4, SilentTold, IdleTold DEF Silent
<1>5. CASE LockProfile(r)
  <2>1. /\ Doing(r, {"patch", "deactivate", "reactivate"}, "profile")
        /\ <<"profile", req[r].student>> \in Rows
    <3>1. At(r, {"patch", "deactivate", "reactivate"}, "profile")
      BY <1>5 DEF LockProfile
    <3> QED
      BY <3>1, TheirRow DEF Ops, OfStudent
  <2>2. PICK ok \in BOOLEAN : ok <=> Exists(req[r].student)
    OBVIOUS
  <2>3. Take(r, <<"profile", req[r].student>>, ok, "user") /\ UNCHANGED Data
    BY <1>5, <2>2 DEF LockProfile, Take
  <2>4. /\ Frame(r)
        /\ \/ req'[r] = Idle
           \/ req'[r].pc = "user" /\ req'[r].op \in {"patch", "deactivate", "reactivate"}
    BY <2>1, <2>3, TakeFrame DEF Doing, Steps
  <2> QED
    BY <2>3, <2>4, SilentTold, IdleTold DEF Silent
<1>6. CASE LockMove(r)
  <2>1. Doing(r, {"patch"}, "user") /\ <<"user", req[r].student>> \in Rows
    <3>1. At(r, {"patch"}, "user")
      BY <1>6 DEF LockMove
    <3> QED
      BY <3>1, TheirRow DEF Ops, OfStudent
  <2>2. PICK next \in {"write", "school", "save"} :
          next = IF stu[req[r].student].school = req[r].to /\ stu[req[r].student].acct = req[r].to THEN "write"
                 ELSE IF stu[req[r].student].active THEN "school" ELSE "save"
    OBVIOUS
  <2>3. Take(r, <<"user", req[r].student>>, TRUE, next) /\ UNCHANGED Data
    BY <1>6, <2>2 DEF LockMove
  <2>4. /\ Frame(r)
        /\ \/ req'[r] = Idle
           \/ req'[r].pc = next /\ req'[r].op = "patch" /\ req'[r].student = req[r].student
    BY <2>1, <2>3, TakeFrame, ZenonT(60) DEF Doing, Steps
  <2>5. CASE req'[r].pc = next /\ req'[r].op = "patch" /\ next # "save"
    BY <2>3, <2>4, <2>5, SilentTold DEF Silent
  <2>6. CASE /\ req'[r].pc = next /\ req'[r].op = "patch" /\ req'[r].student = req[r].student
             /\ next = "save"
    <3>1. ~stu[req[r].student].active /\ stu' = stu
      BY <2>2, <2>3, <2>6 DEF Data
    <3> QED
      BY <2>3, <2>4, <2>6, <3>1 DEF Told, ToldAs, Grants
  <2> QED
    BY <2>3, <2>4, <2>5, <2>6, IdleTold
<1>7. CASE LockEdit(r)
  <2>1. Doing(r, {"edit"}, "user") /\ <<"user", req[r].student>> \in Rows
    <3>1. At(r, {"edit"}, "user")
      BY <1>7 DEF LockEdit
    <3> QED
      BY <3>1, TheirRow DEF Ops, OfStudent
  <2>2. PICK ok \in BOOLEAN : ok <=> Exists(req[r].student) \/ ~Taken(req[r].seen.email)
    OBVIOUS
  <2>3. Take(r, <<"user", req[r].student>>, ok, "ensure") /\ UNCHANGED Data
    BY <1>7, <2>2 DEF LockEdit, Take
  <2>4. Frame(r) /\ (req'[r] = Idle \/ req'[r].op = "edit")
    BY <2>1, <2>3, TakeFrame DEF Doing, Steps
  <2> QED
    BY <2>3, <2>4, SilentTold, IdleTold DEF Silent
<1>8. CASE LockEditMove(r)
  <2>1. Doing(r, {"edit"}, "profile") /\ <<"profile", req[r].student>> \in Rows
    <3>1. At(r, {"edit"}, "profile")
      BY <1>8 DEF LockEditMove
    <3> QED
      BY <3>1, TheirRow DEF Ops, OfStudent
  <2>2. PICK next \in {"school", "save"} :
          next = IF stu[req[r].student].school # req[r].to /\ req[r].seen.active THEN "school" ELSE "save"
    OBVIOUS
  <2>3. Take(r, <<"profile", req[r].student>>, TRUE, next) /\ UNCHANGED Data
    BY <1>8, <2>2 DEF LockEditMove
  <2>4. Frame(r) /\ (req'[r] = Idle \/ req'[r].op = "edit")
    BY <2>1, <2>3, TakeFrame DEF Doing, Steps
  <2> QED
    BY <2>3, <2>4, SilentTold, IdleTold DEF Silent
<1>9. CASE LockList(r) \/ LockAssign(r) \/ StartClear(r) \/ LockClear(r)
  <2>1. CASE Finish(r)
    BY <1>9, <2>1, ListStep, FinishFrame, IdleTold
  <2>2. ASSUME NEW job \in Jobs, job.op \in {"assign", "transfer"}, req' = [req EXCEPT ![r] = job],
               UNCHANGED owner \/ \E x \in Rows : owner[x] = None /\ owner' = [owner EXCEPT ![x] = r]
        PROVE  Frame(r) /\ Told(r)'
    <3>1. req'[r] = job /\ Frame(r)
      BY <1>0, <2>2 DEF RequestsOK, Frame, LocksKept
    <3> QED
      BY <2>2, <3>1, SilentTold DEF Silent
  <2> QED
    BY <1>9, <2>1, <2>2, ListStep
<1>10. CASE LockTransfer(r)
  <2>1. Doing(r, {"transfer"}, "school") /\ <<"school", req[r].to>> \in Rows
    <3>1. At(r, {"transfer"}, "school")
      BY <1>10 DEF LockTransfer
    <3> QED
      BY <3>1, TheirRow DEF Ops
  <2>2. PICK ok \in BOOLEAN : ok <=> req[r].to \notin lapsed
    OBVIOUS
  <2>3. Take(r, <<"school", req[r].to>>, ok, "clear") /\ UNCHANGED Data
    BY <1>10, <2>2 DEF LockTransfer, Take
  <2>4. Frame(r) /\ (req'[r] = Idle \/ req'[r].op = "transfer")
    BY <2>1, <2>3, TakeFrame DEF Doing, Steps
  <2> QED
    BY <2>3, <2>4, SilentTold, IdleTold DEF Silent
<1>11. CASE Claim(r)
  <2>1. Doing(r, {"accept"}, "claim") /\ UNCHANGED Data
    BY <1>11, TheirRow DEF Claim, Ops
  <2>2. CASE Finish(r)
    BY <2>1, <2>2, FinishFrame, IdleTold
  <2>3. CASE req' = [req EXCEPT ![r].pc = "save"] /\ UNCHANGED owner
    <3>1. PICK job : job = [req[r] EXCEPT !.pc = "save"]
      OBVIOUS
    <3>2. req' = [req EXCEPT ![r] = job] /\ job.pc = "save" /\ job.op = req[r].op /\ job.to = req[r].to
      BY <2>1, <2>3, <3>1, AdvancedJob DEF Steps, Doing
    <3>3. req'[r] = job /\ Frame(r)
      BY <1>0, <2>3, <3>2 DEF RequestsOK, Frame, LocksKept
    <3>4. job.op = "accept" /\ Cardinality(Waiting(job.to)) < PendingCap
      BY <1>0, <2>1, <3>2 DEF Doing, Told, ToldAs
    <3>5. Waiting(job.to)' = Waiting(job.to)
      BY <2>1 DEF Data, Waiting, Exists
    <3>6. ToldAs(r, job, owner)'
      BY <3>4, <3>5 DEF ToldAs, Grants
    <3> QED
      BY <2>1, <3>3, <3>6 DEF Told
  <2> QED
    BY <1>11, <2>2, <2>3 DEF Claim
<1>12. CASE LockConfirm(r)
  <2>1. Doing(r, {"confirm"}, "profile") /\ UNCHANGED Data
    BY <1>12, TheirRow DEF LockConfirm, Ops
  <2>2. PICK s \in Students : s = req[r].student
    BY <2>1 DEF Doing, Fit, OfStudent
  <2>3. CASE Finish(r)
    BY <2>1, <2>3, FinishFrame, IdleTold
  <2>4. CASE /\ owner[<<"profile", s>>] = None /\ owner' = [owner EXCEPT ![<<"profile", s>>] = r]
             /\ req' = [req EXCEPT ![r].pc = "school", ![r].to = stu[s].school]
    <3>1. PICK job : job = [req[r] EXCEPT !.pc = "school", !.to = stu[s].school]
      OBVIOUS
    <3>2. req' = [req EXCEPT ![r] = job]
      BY <1>0, <2>4, <3>1 DEF RequestsOK
    <3>3. job.pc = "school" /\ job.op = "confirm" /\ job.to = stu[s].school /\ job.student = s
      BY <2>1, <2>2, <3>1 DEF Doing, Jobs
    <3>4. req'[r] = job /\ Frame(r)
      BY <1>0, <2>4, <3>2 DEF RequestsOK, Frame, LocksKept
    <3>5. stu' = stu
      BY <2>1 DEF Data
    <3>6. ToldAs(r, job, owner)'
      BY <3>3, <3>5 DEF ToldAs, Grants
    <3> QED
      BY <2>1, <3>4, <3>6 DEF Told
  <2> QED
    BY <1>12, <2>2, <2>3, <2>4 DEF LockConfirm
<1>13. CASE LockSetActive(r)
  <2>1. Doing(r, {"deactivate", "reactivate"}, "user") /\ UNCHANGED Data
    BY <1>13, TheirRow DEF LockSetActive, Ops
  <2>2. PICK s \in Students : s = req[r].student
    BY <2>1 DEF Doing, Fit, OfStudent
  <2>3. CASE Finish(r)
    BY <2>1, <2>3, FinishFrame, IdleTold
  <2>4. PICK next \in {"school", "save"} :
          next = IF req[r].op = "reactivate" /\ ~stu[s].active THEN "school" ELSE "save"
    OBVIOUS
  <2>5. CASE /\ owner[<<"user", s>>] = None /\ owner' = [owner EXCEPT ![<<"user", s>>] = r]
             /\ req' = [req EXCEPT ![r].pc = next, ![r].to = stu[s].acct]
    <3>1. PICK job : job = [req[r] EXCEPT !.pc = next, !.to = stu[s].acct]
      OBVIOUS
    <3>2. req' = [req EXCEPT ![r] = job]
      BY <1>0, <2>5, <3>1 DEF RequestsOK
    <3>3. /\ job.pc = next /\ job.op = req[r].op /\ job.op \in {"deactivate", "reactivate"}
          /\ job.to = stu[s].acct /\ job.student = s
      BY <2>1, <2>2, <3>1 DEF Doing, Jobs
    <3>4. req'[r] = job /\ Frame(r)
      BY <1>0, <2>5, <3>2 DEF RequestsOK, Frame, LocksKept
    <3>5. stu' = stu
      BY <2>1 DEF Data
    <3>6. ToldAs(r, job, owner)'
      BY <2>4, <3>3, <3>5 DEF ToldAs, Grants
    <3> QED
      BY <2>1, <3>4, <3>6 DEF Told
  <2> QED
    BY <1>13, <2>2, <2>3, <2>4, <2>5 DEF LockSetActive
<1>14. CASE EnsureProfile(r)
  <2>1. Doing(r, {"edit"}, "ensure") /\ UNCHANGED Data /\ UNCHANGED owner
    BY <1>14, TheirRow DEF EnsureProfile, Ops
  <2>2. PICK job : /\ req' = [req EXCEPT ![r] = job] /\ job.op = "edit"
    <3>1. CASE req' = [req EXCEPT ![r].pc = "profile", ![r].to = req[r].seen.acct]
      <4>1. req' = [req EXCEPT ![r] = [req[r] EXCEPT !.pc = "profile", !.to = req[r].seen.acct]]
        BY <1>0, <3>1 DEF RequestsOK
      <4>2. [req[r] EXCEPT !.pc = "profile", !.to = req[r].seen.acct].op = "edit"
        BY <2>1 DEF Doing, Jobs
      <4> QED
        BY <4>1, <4>2
    <3>2. CASE req' = [req EXCEPT ![r].pc = "save"]
      <4>1. req' = [req EXCEPT ![r] = [req[r] EXCEPT !.pc = "save"]]
        BY <1>0, <3>2 DEF RequestsOK
      <4>2. [req[r] EXCEPT !.pc = "save"].op = "edit"
        BY <2>1 DEF Doing, Jobs
      <4> QED
        BY <4>1, <4>2
    <3> QED
      BY <1>14, <3>1, <3>2 DEF EnsureProfile
  <2>3. req'[r] = job /\ Frame(r)
    BY <1>0, <2>1, <2>2 DEF RequestsOK, Frame, LocksKept
  <2> QED
    BY <2>1, <2>2, <2>3, SilentTold DEF Silent
<1> QED
  BY <1>1, <1>2, <1>3, <1>4, <1>5, <1>6, <1>7, <1>8, <1>9, <1>10, <1>11, <1>12, <1>13, <1>14 DEF Wait

(***************************************************************************)
(* All steps.                                                              *)
(***************************************************************************)
LEMMA ArriveFrame ==
    ASSUME Base, NEW r \in Requests, Arrive(r)
    PROVE  Frame(r) /\ Told(r)' /\ UNCHANGED Data
<1>1. PICK job : req' = [req EXCEPT ![r] = job] /\ Silent(job) /\ UNCHANGED <<owner, stu, cou, inv, lapsed, stale>>
  <2>1. CASE BeginAccept(r)
    <3>1. PICK i \in Invites, e \in Emails \cup {None} :
            Begin(r, Job("accept", "invite", None, i, inv[i].school, inv[i].counselor, e, None))
      BY <2>1 DEF BeginAccept
    <3> QED
      BY <3>1 DEF Begin, Job, Silent
  <2>2. CASE BeginCreate(r)
    <3>1. PICK c \in Counselors \cup {None}, k \in Schools, e \in Emails \cup {None} :
            Begin(r, Job("create", "school", None, None, k, c, e, None))
      BY <2>2 DEF BeginCreate
    <3> QED
      BY <3>1 DEF Begin, Job, Silent
  <2>3. CASE BeginDecide(r) \/ BeginSetActive(r)
    <3>1. PICK op \in {"confirm", "reject", "deactivate", "reactivate"}, s \in Students :
            Begin(r, Job(op, "profile", s, None, None, None, None, None))
      BY <2>3 DEF BeginDecide, BeginSetActive
    <3> QED
      BY <3>1 DEF Begin, Job, Silent
  <2>4. CASE BeginPatch(r)
    <3>1. PICK s \in Students, k \in Schools, pc \in {"write", "profile"} :
            Begin(r, Job("patch", pc, s, None, k, None, None, stu[s]))
      BY <2>4 DEF BeginPatch
    <3> QED
      BY <3>1 DEF Begin, Job, Silent
  <2>5. CASE BeginEdit(r)
    <3>1. PICK s \in Students : Begin(r, Job("edit", "user", s, None, None, None, None, stu[s]))
      BY <2>5 DEF BeginEdit
    <3> QED
      BY <3>1 DEF Begin, Job, Silent
  <2>6. CASE BeginAssign(r)
    <3>1. PICK c \in Counselors, s \in Students :
            \E seen : Begin(r, Job("assign", "profile", s, None, cou[c], c, None, seen))
      BY <2>6 DEF BeginAssign
    <3> QED
      BY <3>1 DEF Begin, Job, Silent
  <2>7. CASE BeginTransfer(r)
    <3>1. PICK c \in Counselors, k \in Schools : Begin(r, Job("transfer", "school", None, None, k, c, None, None))
      BY <2>7 DEF BeginTransfer
    <3> QED
      BY <3>1 DEF Begin, Job, Silent
  <2> QED
    BY <2>1, <2>2, <2>3, <2>4, <2>5, <2>6, <2>7 DEF Arrive
<1>2. req'[r] = job /\ Frame(r)
  BY <1>1 DEF Base, RequestsOK, Frame, LocksKept
<1> QED
  BY <1>1, <1>2, SilentTold DEF Data

LEMMA AloneSound ==
    ASSUME Base, Sound, NEW r \in Requests, Frame(r), Told(r)', UNCHANGED stu
    PROVE  Sound'
<1>1. \A s \in Students : Alike(s)
  BY DEF Alike, Exists
<1>2. AccountFollowsProfile' /\ PlansHold' /\ Calm(r)
  BY <1>1, NoneMoved
<1>3. \A q \in Requests : q # r => Told(q)'
  BY <1>2, OtherTold DEF Frame
<1> QED
  BY <1>2, <1>3 DEF Sound

LEMMA GoodStep == Base /\ Good /\ [Next]_vars => Good'
<1> SUFFICES ASSUME Base, Good, [Next]_vars, ~stale' PROVE Sound'
  BY DEF Good
<1> USE IdFacts
<1>1. ~stale /\ Sound
  <2>1. stale => stale'
    <3>1. CASE Quiet
      BY <3>1, SMTT(60) DEF Quiet
    <3>2. ASSUME NEW r \in Requests, Save(r) PROVE stale => stale'
      BY <3>2, ZenonT(60) DEF Save, SaveAccept, SaveCreate, SaveConfirm, SaveReject, SavePatch,
         SaveMove, SaveSetActive,
                  SaveEdit, SaveAssign, SaveTransfer
    <3> QED
      BY <3>1, <3>2, QuietStep
  <2> QED
    BY <2>1 DEF Good
<1>2. ASSUME NEW r \in Requests, Arrive(r) PROVE Sound'
  BY <1>1, <1>2, ArriveFrame, AloneSound DEF Data
<1>3. ASSUME NEW r \in Requests, Wait(r) PROVE Sound'
  BY <1>1, <1>3, WaitTold, AloneSound DEF Data
<1>4. ASSUME NEW r \in Requests, Abort(r) PROVE Sound'
  BY <1>1, <1>4, FinishFrame, IdleTold, AloneSound DEF Data, Abort
<1>5. ASSUME NEW r \in Requests, Save(r) PROVE Sound'
  <2>1. Finish(r)
    BY <1>5, ZenonT(60) DEF Save, SaveAccept, SaveCreate, SaveConfirm, SaveReject, SavePatch,
       SaveMove, SaveSetActive,
                SaveEdit, SaveAssign, SaveTransfer
  <2>2. Frame(r) /\ Told(r)'
    BY <2>1, FinishFrame, IdleTold
  <2>3. AccountFollowsProfile' /\ PlansHold' /\ Calm(r)
    BY <1>1, <1>5, SaveSound
  <2>4. \A q \in Requests : q # r => Told(q)'
    BY <1>1, <2>2, <2>3, OtherTold DEF Frame
  <2> QED
    BY <2>2, <2>3, <2>4, SMTT(60) DEF Sound
<1>6. ASSUME UNCHANGED <<stu, req, owner>> PROVE Sound'
  <2>1. \A s \in Students : Alike(s)
    BY <1>6 DEF Alike, Exists
  <2>2. AccountFollowsProfile' /\ PlansHold' /\ Calm(None)
    BY <1>1, <2>1, NoneMoved
  <2>3. \A q \in Requests : Told(q)'
    BY <1>1, <1>6, <2>2, OtherTold DEF LocksKept
  <2> QED
    BY <2>2, <2>3 DEF Sound
<1>7. ASSUME NEW c \in Counselors, NEW e \in Emails \cup {None}, CreateInvite(c, e) PROVE Sound'
  BY <1>6, <1>7 DEF CreateInvite
<1>8. ASSUME NEW i \in Invites, RevokeInvite(i) \/ Expire(i) PROVE Sound'
  BY <1>6, <1>8 DEF RevokeInvite, Expire
<1>9. ASSUME NEW k \in Schools, Lapse(k) PROVE Sound'
  BY <1>6, <1>9 DEF Lapse
<1>10. CASE UNCHANGED vars
  BY <1>6, <1>10 DEF vars
<1> QED
  BY <1>2, <1>3, <1>4, <1>5, <1>7, <1>8, <1>9, <1>10 DEF Next

LEMMA GoodInit == Init => Good
<1> SUFFICES ASSUME Init PROVE Sound
  BY DEF Good
<1>1. stu \in Population
  BY PopulationsAreReal DEF Init
<1>2. AccountFollowsProfile
  BY <1>1, IdFacts DEF Population, Enrolled, AccountFollowsProfile, Exists
<1>3. PlansHold
  BY <1>1 DEF Population, PlansHold
<1>4. \A r \in Requests : Told(r)
  <2>1. \A r \in Requests : req[r] = Idle
    BY DEF Init
  <2> QED
    BY <2>1 DEF Told, ToldAs, Grants, Idle
<1> QED
  BY <1>2, <1>3, <1>4 DEF Sound

\* Until an editor overwrites what it had not seen, accounts follow profiles, plans
\* hold, and what every request was told when it checked a seat or the cap under
\* the school's row lock still holds when it commits.
THEOREM Soundness == Spec => []Good
<1>1. Base /\ Good /\ [Next]_vars => Good'
  BY GoodStep
<1> QED
  BY <1>1, GoodInit, Invariance, PTL DEF Spec

\* Confirmations, new accounts, moves and reactivations, however they interleave,
\* never take a school over its plan and never part an account from its profile;
\* only an editor that wrote back what it had loaded before another request
\* changed it can (entitlements.check under the school's row lock, move_student).
THEOREM PlansHoldUntilStale == Spec => []SeatTakenWithinPlan
<1>1. Good => SeatTakenWithinPlan
  BY DEF Good, Sound, PlansHold, SeatTakenWithinPlan
<1> QED
  BY <1>1, Soundness, PTL

\* Joins by different invites at the same time do not take a school over its cap
\* on unconfirmed students (_accepting counts under the school's row lock).
THEOREM CapsHoldUntilStale == Spec => JoinsWithinCap
<1>1. Base /\ Good /\ [Next]_vars =>
        [stale \/ \A k \in Schools :
           (\E s \in Students : Joined(s, k)) => Cardinality(Waiting(k)') <= PendingCap]_vars
  <2> SUFFICES ASSUME Base, Good, [Next]_vars, ~stale, NEW k \in Schools, NEW s \in Students, Joined(s, k)
               PROVE  Cardinality(Waiting(k)') <= PendingCap
    OBVIOUS
  <2> USE IdFacts
  <2>1. Sound /\ stu[s] = None /\ stu'[s] # None /\ stu'[s].pending /\ stu'[s].school = k
    BY DEF Good, Joined
  <2>2. ~Quiet
    BY <2>1 DEF Quiet
  <2>3. ASSUME NEW r \in Requests, Save(r) PROVE SaveAccept(r)
    <3> SUFFICES ASSUME ~SaveAccept(r) PROVE FALSE
      OBVIOUS
    <3>1. Changed(s)
      BY <2>3, SaveChanges
    <3> QED
      BY <2>1, <3>1 DEF Changed, Exists
  <2>4. PICK r \in Requests : SaveAccept(r)
    BY <2>2, <2>3, QuietStep
  <2>5. Cardinality(Waiting(req[r].to)) < PendingCap
    BY <2>1, <2>4 DEF Sound, Told, ToldAs, SaveAccept, At
  <2>6. PICK t \in Students, a \in Account :
          /\ stu[t] = None /\ stu' = [stu EXCEPT ![t] = a]
          /\ a.school = req[r].to /\ a.acct = req[r].to /\ a.pending /\ a.via = req[r].invite
          /\ inv' = [inv EXCEPT ![req[r].invite] = [inv[req[r].invite] EXCEPT !.uses = @ + 1]]
    BY <2>1, <2>4, AcceptWrites
  <2>7. stu'[t] = a /\ \A u \in Students : u # t => stu'[u] = stu[u]
    BY <2>6 DEF Base, DataOK
  <2>8. k = req[r].to
    BY <2>1, <2>6, <2>7
  <2>9. PICK A \in SUBSET Students : A = Waiting(k)'
    BY DEF Waiting
  <2>10. PICK B \in SUBSET Students : B = Waiting(k)
    BY DEF Waiting
  <2>11. A \subseteq B \cup {t}
    BY <2>7, <2>9, <2>10 DEF Waiting, Exists
  <2>12. Cardinality(A) <= Cardinality(B \ {t}) + 1 /\ Cardinality(B \ {t}) <= Cardinality(B)
    BY <2>11, OneMore
  <2>13. Cardinality(A) \in Nat /\ Cardinality(B \ {t}) \in Nat /\ Cardinality(B) \in Nat
    <3>1. B \ {t} \in SUBSET Students
      OBVIOUS
    <3> QED
      BY <3>1, Smaller
  <2> QED
    BY <2>5, <2>8, <2>9, <2>10, <2>12, <2>13, EnrollmentConstants
<1> QED
  BY <1>1, Soundness, Invariance, PTL DEF Spec, JoinsWithinCap

(***************************************************************************)
(* Deadlocks.  A request that is neither an account editor nor a transfer   *)
(* waits only for locks that come after all it holds, but for an assignment *)
(* that waits for a profile with other profiles in hand.                    *)
(***************************************************************************)
AtItsStep(q) ==
    /\ q.pc = "invite" => q.op = "accept"
    /\ q.pc \in {"profile", "user", "write"} => q.op \in OfStudent

InOrder(r) ==
    LET q == req[r] IN
    q.op \notin {"edit", "transfer"} =>
        /\ AtItsStep(q)
        /\ \A x \in Rows : owner[x] = r =>
             /\ q.pc \notin {"idle", "invite"}
             /\ q.pc = "profile" => q.op = "assign" /\ x[1] = "profile"
             /\ q.pc = "user" => x[1] = "profile"
             /\ q.pc = "school" => x[1] # "school"
             /\ q.pc = "write" => owner[<<"profile", q.student>>] = r
Ordered == \A r \in Requests : InOrder(r)

\* r changes its own request and its own locks only.
Alone(r) == Frame(r) /\ \A x \in Rows : owner'[x] \notin {None, r} => owner'[x] = owner[x]

LEMMA OtherOrder ==
    ASSUME Base, Ordered, NEW r, NEW q \in Requests, q # r, Alone(r)
    PROVE  InOrder(q)'
<1> USE IdFacts
<1>1. PICK job : job = req[q] /\ req'[q] = job
  BY DEF Alone, Frame
<1>2. \A x \in Rows : owner'[x] = q <=> owner[x] = q
  BY DEF Alone, Frame, LocksKept
<1>3. job.op \notin {"edit", "transfer"} => AtItsStep(job)
  BY <1>1 DEF Ordered, InOrder
<1>4. ASSUME job.op \notin {"edit", "transfer"}, NEW x \in Rows, owner'[x] = q
      PROVE  /\ job.pc \notin {"idle", "invite"}
             /\ job.pc = "profile" => job.op = "assign" /\ x[1] = "profile"
             /\ job.pc = "user" => x[1] = "profile"
             /\ job.pc = "school" => x[1] # "school"
             /\ job.pc = "write" => owner'[<<"profile", job.student>>] = q
  <2>1. /\ job.pc \notin {"idle", "invite"}
        /\ job.pc = "profile" => job.op = "assign" /\ x[1] = "profile"
        /\ job.pc = "user" => x[1] = "profile"
        /\ job.pc = "school" => x[1] # "school"
        /\ job.pc = "write" => owner[<<"profile", job.student>>] = q
    BY <1>1, <1>2, <1>4 DEF Ordered, InOrder
  <2>2. ASSUME job.pc = "write" PROVE <<"profile", job.student>> \in Rows
    <3>1. job \in Jobs /\ Fit(job)
      BY <1>1, <2>2 DEF Base, RequestsOK, Idle
    <3> QED
      BY <1>3, <1>4, <2>2, <3>1, RowFacts DEF AtItsStep, Fit
  <2> QED
    BY <1>2, <2>1, <2>2
<1> QED
  BY <1>1, <1>3, <1>4 DEF InOrder

LEMMA EndOrder ==
    ASSUME Base, NEW r \in Requests, Finish(r) PROVE Alone(r) /\ InOrder(r)'
<1>1. req'[r] = Idle /\ \A x \in Rows : owner'[x] # r
  BY IdFacts DEF Base, RequestsOK, Finish, Released
<1>2. Alone(r)
  BY FinishFrame DEF Base, RequestsOK, Finish, Released, Alone
<1>3. InOrder(r)'
  BY <1>1 DEF InOrder, Idle, AtItsStep
<1> QED
  BY <1>2, <1>3

\* A lock is taken in order: what the step waited for comes before what the next waits for.
LEMMA TakeOrder ==
    ASSUME Base, NEW r \in Requests, InOrder(r), req[r] \in Jobs, NEW x \in Rows, NEW ok \in BOOLEAN,
           NEW next \in Steps, Take(r, x, ok, next),
           req[r].op \notin {"edit", "transfer"} =>
             /\ next \notin {"invite", "profile"}
             /\ next = "user" => req[r].op \in OfStudent /\ req[r].pc = "profile" /\ x[1] = "profile"
             /\ next = "school" => req[r].pc \in {"invite", "profile", "user"} /\ x[1] # "school"
             /\ next = "write" => /\ req[r].op \in OfStudent /\ <<"profile", req[r].student>> \in Rows
                                  /\ owner[<<"profile", req[r].student>>] = r
    PROVE  Alone(r) /\ InOrder(r)'
<1>1. CASE ok
  <2>1. owner[x] \in {None, r} /\ owner' = [owner EXCEPT ![x] = r] /\ owner \in [Rows -> Requests \cup {None}]
    BY <1>1 DEF Take, Base, RequestsOK
  <2>2. \A y \in Rows : y # x => owner'[y] = owner[y]
    BY <2>1
  <2>3. owner'[x] = r
    BY <2>1
  <2>4. /\ Frame(r) /\ req'[r].pc = next /\ req'[r].op = req[r].op /\ req'[r].student = req[r].student
    <3>1. req[r].op # "none" /\ req' = [req EXCEPT ![r].pc = next]
      BY <1>1, IdleFacts DEF Take
    <3>2. PICK job : job = [req[r] EXCEPT !.pc = next]
      OBVIOUS
    <3>3. /\ req' = [req EXCEPT ![r] = job] /\ job.pc = next /\ job.op = req[r].op
          /\ job.student = req[r].student
      BY <3>1, <3>2, AdvancedJob
    <3>4. req'[r] = job
      BY <3>3 DEF Base, RequestsOK
    <3> QED
      BY <3>3, <3>4, TakeFrame
  <2>5. Alone(r)
    BY <2>2, <2>3, <2>4 DEF Alone
  <2>6. ASSUME req[r].op \notin {"edit", "transfer"}, NEW y \in Rows, owner'[y] = r
        PROVE  /\ next = "user" => y[1] = "profile"
               /\ next = "school" => y[1] # "school"
               /\ next = "write" => owner'[<<"profile", req[r].student>>] = r
    <3>1. y = x \/ owner[y] = r
      BY <2>2, <2>6
    <3>2. owner[y] = r => /\ req[r].pc \notin {"idle", "invite"}
                          /\ req[r].pc = "profile" => y[1] = "profile"
                          /\ req[r].pc = "user" => y[1] = "profile"
      BY <2>6 DEF InOrder
    <3> QED
      BY <2>2, <2>3, <2>6, <3>1, <3>2
  <2>7. next # "idle"
    BY DEF Steps
  <2> QED
    BY <2>4, <2>5, <2>6, <2>7 DEF InOrder, AtItsStep
<1>2. CASE ~ok
  BY <1>2, EndOrder DEF Take
<1> QED
  BY <1>1, <1>2

\* An editor and a transfer are not bound to the order.
LEMMA FreeOrder ==
    ASSUME NEW r, req'[r].op \in {"edit", "transfer"} PROVE InOrder(r)'
BY DEF InOrder

LEMMA WaitOrder == ASSUME Base, NEW r \in Requests, InOrder(r), Wait(r) PROVE Alone(r) /\ InOrder(r)'
<1> USE IdFacts
<1>0. RequestsOK /\ Knows(r)
  BY DEF Base
<1>1. CASE FindInvite(r)
  <2>1. PICK ok \in BOOLEAN : ok <=> Usable(req[r].invite) /\ ~Taken(req[r].email)
    OBVIOUS
  <2>2. At(r, {"accept"}, "invite") /\ Take(r, <<"invite", req[r].invite>>, ok, "school")
    BY <1>1, <2>1 DEF FindInvite, Take
  <2>3. Doing(r, {"accept"}, "invite") /\ <<"invite", req[r].invite>> \in Rows
    BY <2>2, TheirRow DEF Ops
  <2> QED
    BY <2>2, <2>3, TakeOrder DEF Doing, Steps, OfStudent
<1>2. CASE Accepting(r)
  <2>1. PICK ok \in BOOLEAN : ok <=> req[r].to \notin lapsed /\ Cardinality(Waiting(req[r].to)) < PendingCap
    OBVIOUS
  <2>2. At(r, {"accept"}, "school") /\ Take(r, <<"school", req[r].to>>, ok, "claim")
    BY <1>2, <2>1 DEF Accepting, Take
  <2>3. Doing(r, {"accept"}, "school") /\ <<"school", req[r].to>> \in Rows
    BY <2>2, TheirRow DEF Ops
  <2> QED
    BY <2>2, <2>3, TakeOrder DEF Doing, Steps, OfStudent
<1>3. CASE CheckSeat(r)
  <2>1. PICK ok \in BOOLEAN : ok <=> SeatFits(req[r].to, req[r].student)
    OBVIOUS
  <2>2. /\ At(r, {"create", "confirm", "patch", "edit", "reactivate"}, "school")
        /\ Take(r, <<"school", req[r].to>>, ok, "save")
    BY <1>3, <2>1 DEF CheckSeat, Take
  <2>3. /\ Doing(r, {"create", "confirm", "patch", "edit", "reactivate"}, "school")
        /\ <<"school", req[r].to>> \in Rows
    BY <2>2, TheirRow DEF Ops
  <2> QED
    BY <2>2, <2>3, TakeOrder DEF Doing, Steps, OfStudent
<1>4. CASE LockReject(r)
  <2>1. PICK ok \in BOOLEAN : ok <=> Exists(req[r].student) /\ stu[req[r].student].pending
    OBVIOUS
  <2>2. At(r, {"reject"}, "profile") /\ Take(r, <<"profile", req[r].student>>, ok, "user")
    BY <1>4, <2>1 DEF LockReject, Take
  <2>3. Doing(r, {"reject"}, "profile") /\ <<"profile", req[r].student>> \in Rows
    BY <2>2, TheirRow DEF Ops, OfStudent
  <2> QED
    BY <2>2, <2>3, TakeOrder DEF Doing, Steps, OfStudent
<1>5. CASE LockProfile(r)
  <2>1. PICK ok \in BOOLEAN : ok <=> Exists(req[r].student)
    OBVIOUS
  <2>2. /\ At(r, {"patch", "deactivate", "reactivate"}, "profile")
        /\ Take(r, <<"profile", req[r].student>>, ok, "user")
    BY <1>5, <2>1 DEF LockProfile, Take
  <2>3. /\ Doing(r, {"patch", "deactivate", "reactivate"}, "profile")
        /\ <<"profile", req[r].student>> \in Rows
    BY <2>2, TheirRow DEF Ops, OfStudent
  <2> QED
    BY <2>2, <2>3, TakeOrder DEF Doing, Steps, OfStudent
<1>6. CASE LockMove(r)
  <2>1. PICK next \in {"write", "school", "save"} :
          next = IF stu[req[r].student].school = req[r].to /\ stu[req[r].student].acct = req[r].to THEN "write"
                 ELSE IF stu[req[r].student].active THEN "school" ELSE "save"
    OBVIOUS
  <2>2. At(r, {"patch"}, "user") /\ Take(r, <<"user", req[r].student>>, TRUE, next)
    BY <1>6, <2>1 DEF LockMove
  <2>3. /\ Doing(r, {"patch"}, "user")
        /\ <<"user", req[r].student>> \in Rows /\ <<"profile", req[r].student>> \in Rows
    BY <2>2, TheirRow DEF Ops, OfStudent
  <2>4. owner[<<"profile", req[r].student>>] = r
    BY <1>0, <2>3 DEF Doing, Knows, KnowsAs, HasProfile
  <2> QED
    BY <2>2, <2>3, <2>4, TakeOrder DEF Doing, Steps, OfStudent
<1>7. CASE LockEdit(r)
  <2>1. PICK ok \in BOOLEAN : ok <=> Exists(req[r].student) \/ ~Taken(req[r].seen.email)
    OBVIOUS
  <2>2. At(r, {"edit"}, "user") /\ Take(r, <<"user", req[r].student>>, ok, "ensure")
    BY <1>7, <2>1 DEF LockEdit, Take
  <2>3. Doing(r, {"edit"}, "user") /\ <<"user", req[r].student>> \in Rows
    BY <2>2, TheirRow DEF Ops, OfStudent
  <2> QED
    BY <2>2, <2>3, TakeOrder DEF Doing, Steps, OfStudent
<1>8. CASE LockEditMove(r)
  <2>1. PICK next \in {"school", "save"} :
          next = IF stu[req[r].student].school # req[r].to /\ req[r].seen.active THEN "school" ELSE "save"
    OBVIOUS
  <2>2. At(r, {"edit"}, "profile") /\ Take(r, <<"profile", req[r].student>>, TRUE, next)
    BY <1>8, <2>1 DEF LockEditMove
  <2>3. Doing(r, {"edit"}, "profile") /\ <<"profile", req[r].student>> \in Rows
    BY <2>2, TheirRow DEF Ops, OfStudent
  <2> QED
    BY <2>2, <2>3, TakeOrder DEF Doing, Steps, OfStudent
<1>9. CASE LockList(r) \/ LockAssign(r) \/ StartClear(r) \/ LockClear(r)
  <2>1. CASE Finish(r)
    BY <2>1, EndOrder
  <2>2. ASSUME NEW job \in Jobs, job.op = req[r].op, job.pc \in {"profile", "save"},
               req' = [req EXCEPT ![r] = job],
               \/ UNCHANGED owner
               \/ \E x \in Rows : x[1] = "profile" /\ owner[x] = None /\ owner' = [owner EXCEPT ![x] = r]
        PROVE  Alone(r) /\ InOrder(r)'
    <3>1. req'[r] = job /\ Alone(r)
      BY <1>0, <2>2 DEF RequestsOK, Frame, LocksKept, Alone
    <3>2. job.op \in {"assign", "transfer"} /\ (job.op = "assign" => req[r].pc = "profile")
      BY <1>9, <2>2, ListStep
    <3>3. CASE job.op = "transfer"
      BY <3>1, <3>3, FreeOrder
    <3>4. CASE job.op = "assign"
      <4>1. \A x \in Rows : owner[x] = r => x[1] = "profile"
        BY <2>2, <3>2, <3>4 DEF InOrder
      <4>2. \A x \in Rows : owner'[x] = r => x[1] = "profile"
        BY <1>0, <2>2, <4>1 DEF RequestsOK
      <4> QED
        BY <2>2, <3>1, <3>4, <4>2 DEF InOrder, AtItsStep, OfStudent
    <3> QED
      BY <3>2, <3>3, <3>4
  <2> QED
    BY <1>9, <2>1, <2>2, ListStep
<1>10. CASE LockTransfer(r)
  <2>1. PICK ok \in BOOLEAN : ok <=> req[r].to \notin lapsed
    OBVIOUS
  <2>2. At(r, {"transfer"}, "school") /\ Take(r, <<"school", req[r].to>>, ok, "clear")
    BY <1>10, <2>1 DEF LockTransfer, Take
  <2>3. Doing(r, {"transfer"}, "school") /\ <<"school", req[r].to>> \in Rows
    BY <2>2, TheirRow DEF Ops
  <2> QED
    BY <2>2, <2>3, TakeOrder DEF Doing, Steps, OfStudent
<1>11. CASE Claim(r) \/ EnsureProfile(r)
  <2>1. CASE Finish(r)
    BY <2>1, EndOrder
  <2>2. ASSUME ~Finish(r) PROVE UNCHANGED owner
    BY <1>11, <2>2 DEF Claim, EnsureProfile
  <2>3. CASE ~Finish(r) /\ Claim(r)
    <3>1. Doing(r, {"accept"}, "claim") /\ req' = [req EXCEPT ![r].pc = "save"]
      BY <2>3, TheirRow DEF Claim, Ops
    <3>2. PICK job : job = [req[r] EXCEPT !.pc = "save"]
      OBVIOUS
    <3>3. req' = [req EXCEPT ![r] = job] /\ job.pc = "save" /\ job.op = "accept"
      BY <3>1, <3>2, AdvancedJob DEF Steps, Doing
    <3>4. req'[r] = job /\ Alone(r)
      BY <1>0, <2>2, <2>3, <3>3 DEF RequestsOK, Frame, LocksKept, Alone
    <3> QED
      BY <3>3, <3>4 DEF InOrder, AtItsStep
  <2>4. CASE EnsureProfile(r)
    <3>1. Doing(r, {"edit"}, "ensure") /\ UNCHANGED owner
      BY <2>4, TheirRow DEF EnsureProfile, Ops
    <3>2. Alone(r) /\ req'[r].op = "edit"
      <4>1. \A q \in Requests : q # r => req'[q] = req[q]
        BY <1>0, <2>4 DEF EnsureProfile, RequestsOK
      <4>2. req'[r].op = req[r].op
        BY <1>0, <2>4, <3>1 DEF EnsureProfile, RequestsOK, Doing, Jobs
      <4> QED
        BY <3>1, <4>1, <4>2 DEF Alone, Frame, LocksKept, Doing
    <3> QED
      BY <3>2, FreeOrder
  <2> QED
    BY <1>11, <2>1, <2>3, <2>4
<1>12. CASE LockConfirm(r)
  <2>1. Doing(r, {"confirm"}, "profile") /\ <<"profile", req[r].student>> \in Rows
    <3>1. At(r, {"confirm"}, "profile")
      BY <1>12 DEF LockConfirm
    <3> QED
      BY <3>1, TheirRow DEF Ops, OfStudent
  <2>2. PICK s \in Students : s = req[r].student
    BY <2>1 DEF Doing, Fit, OfStudent
  <2>3. CASE Finish(r)
    BY <2>3, EndOrder
  <2>4. CASE /\ owner[<<"profile", s>>] = None /\ owner' = [owner EXCEPT ![<<"profile", s>>] = r]
             /\ req' = [req EXCEPT ![r].pc = "school", ![r].to = stu[s].school]
    <3>1. PICK job : job = [req[r] EXCEPT !.pc = "school", !.to = stu[s].school]
      OBVIOUS
    <3>2. req' = [req EXCEPT ![r] = job]
      BY <1>0, <2>4, <3>1 DEF RequestsOK
    <3>3. job.pc = "school" /\ job.op = "confirm" /\ req'[r] = job
      BY <1>0, <2>1, <2>2, <3>1, <3>2 DEF Doing, Jobs, RequestsOK
    <3>4. Alone(r)
      BY <1>0, <2>4, <3>2 DEF RequestsOK, Frame, LocksKept, Alone
    <3>5. \A x \in Rows : owner[x] # r
      BY <2>1 DEF InOrder, Doing
    <3>6. \A x \in Rows : owner'[x] = r => x[1] = "profile"
      BY <1>0, <2>4, <3>5 DEF RequestsOK
    <3> QED
      BY <3>3, <3>4, <3>6 DEF InOrder, AtItsStep
  <2> QED
    BY <1>12, <2>2, <2>3, <2>4 DEF LockConfirm
<1>13. CASE LockSetActive(r)
  <2>1. Doing(r, {"deactivate", "reactivate"}, "user") /\ <<"user", req[r].student>> \in Rows
    <3>1. At(r, {"deactivate", "reactivate"}, "user")
      BY <1>13 DEF LockSetActive
    <3> QED
      BY <3>1, TheirRow DEF Ops, OfStudent
  <2>2. PICK s \in Students : s = req[r].student
    BY <2>1 DEF Doing, Fit, OfStudent
  <2>3. CASE Finish(r)
    BY <2>3, EndOrder
  <2>4. PICK next \in {"school", "save"} :
          next = IF req[r].op = "reactivate" /\ ~stu[s].active THEN "school" ELSE "save"
    OBVIOUS
  <2>5. CASE /\ owner[<<"user", s>>] = None /\ owner' = [owner EXCEPT ![<<"user", s>>] = r]
             /\ req' = [req EXCEPT ![r].pc = next, ![r].to = stu[s].acct]
    <3>1. PICK job : job = [req[r] EXCEPT !.pc = next, !.to = stu[s].acct]
      OBVIOUS
    <3>2. req' = [req EXCEPT ![r] = job]
      BY <1>0, <2>5, <3>1 DEF RequestsOK
    <3>3. job.pc = next /\ job.op \in {"deactivate", "reactivate"} /\ req'[r] = job
      BY <1>0, <2>1, <2>2, <3>1, <3>2 DEF Doing, Jobs, RequestsOK
    <3>4. Alone(r)
      BY <1>0, <2>5, <3>2 DEF RequestsOK, Frame, LocksKept, Alone
    <3>5. \A x \in Rows : owner[x] = r => x[1] = "profile"
      BY <2>1 DEF InOrder, Doing
    <3>6. \A x \in Rows : owner'[x] = r => x[1] \in {"profile", "user"}
      BY <1>0, <2>5, <3>5 DEF RequestsOK
    <3> QED
      BY <2>4, <3>3, <3>4, <3>6 DEF InOrder, AtItsStep
  <2> QED
    BY <1>13, <2>2, <2>3, <2>4, <2>5 DEF LockSetActive
<1> QED
  BY <1>1, <1>2, <1>3, <1>4, <1>5, <1>6, <1>7, <1>8, <1>9, <1>10, <1>11, <1>12, <1>13 DEF Wait

LEMMA ArriveOrder == ASSUME Base, NEW r \in Requests, InOrder(r), Arrive(r) PROVE Alone(r) /\ InOrder(r)'
<1>1. PICK job : /\ Begin(r, job)
                 /\ job.op \in {"edit", "transfer"} \/ AtItsStep(job)
  <2>1. CASE BeginAccept(r)
    <3>1. PICK i \in Invites, e \in Emails \cup {None} :
            Begin(r, Job("accept", "invite", None, i, inv[i].school, inv[i].counselor, e, None))
      BY <2>1 DEF BeginAccept
    <3> QED
      BY <3>1 DEF Job, AtItsStep, OfStudent
  <2>2. CASE BeginCreate(r)
    <3>1. PICK c \in Counselors \cup {None}, k \in Schools, e \in Emails \cup {None} :
            Begin(r, Job("create", "school", None, None, k, c, e, None))
      BY <2>2 DEF BeginCreate
    <3> QED
      BY <3>1 DEF Job, AtItsStep, OfStudent
  <2>3. CASE BeginDecide(r) \/ BeginSetActive(r)
    <3>1. PICK op \in {"confirm", "reject", "deactivate", "reactivate"}, s \in Students :
            Begin(r, Job(op, "profile", s, None, None, None, None, None))
      BY <2>3 DEF BeginDecide, BeginSetActive
    <3> QED
      BY <3>1 DEF Job, AtItsStep, OfStudent
  <2>4. CASE BeginPatch(r)
    <3>1. PICK s \in Students, k \in Schools, pc \in {"write", "profile"} :
            Begin(r, Job("patch", pc, s, None, k, None, None, stu[s]))
      BY <2>4 DEF BeginPatch
    <3> QED
      BY <3>1 DEF Job, AtItsStep, OfStudent
  <2>5. CASE BeginEdit(r)
    <3>1. PICK s \in Students : Begin(r, Job("edit", "user", s, None, None, None, None, stu[s]))
      BY <2>5 DEF BeginEdit
    <3> QED
      BY <3>1 DEF Job, AtItsStep, OfStudent
  <2>6. CASE BeginAssign(r)
    <3>1. PICK c \in Counselors, s \in Students :
            \E seen : Begin(r, Job("assign", "profile", s, None, cou[c], c, None, seen))
      BY <2>6 DEF BeginAssign
    <3> QED
      BY <3>1 DEF Job, AtItsStep, OfStudent
  <2>7. CASE BeginTransfer(r)
    <3>1. PICK c \in Counselors, k \in Schools : Begin(r, Job("transfer", "school", None, None, k, c, None, None))
      BY <2>7 DEF BeginTransfer
    <3> QED
      BY <3>1 DEF Job, AtItsStep, OfStudent
  <2> QED
    BY <2>1, <2>2, <2>3, <2>4, <2>5, <2>6, <2>7 DEF Arrive
<1>2. req[r] = Idle /\ req' = [req EXCEPT ![r] = job] /\ UNCHANGED owner
  BY <1>1 DEF Begin
<1>3. req'[r] = job /\ Alone(r)
  BY <1>2 DEF Base, RequestsOK, Frame, LocksKept, Alone
<1>4. \A x \in Rows : owner'[x] # r
  BY <1>2 DEF InOrder, Idle
<1> QED
  BY <1>1, <1>3, <1>4 DEF InOrder

LEMMA OrderStep == Base /\ Ordered /\ [Next]_vars => Ordered'
<1> SUFFICES ASSUME Base, Ordered, [Next]_vars PROVE Ordered'
  OBVIOUS
<1>1. ASSUME NEW r \in Requests, Alone(r), InOrder(r)' PROVE Ordered'
  BY <1>1, OtherOrder DEF Ordered
<1>2. ASSUME NEW r \in Requests, Arrive(r) \/ Wait(r) PROVE Ordered'
  <2>1. InOrder(r)
    BY DEF Ordered
  <2> QED
    BY <1>1, <1>2, <2>1, ArriveOrder, WaitOrder
<1>3. ASSUME NEW r \in Requests, Save(r) \/ Abort(r) PROVE Ordered'
  <2>1. Finish(r)
    BY <1>3, ZenonT(60) DEF Save, Abort, SaveAccept, SaveCreate, SaveConfirm, SaveReject, SavePatch,
       SaveMove, SaveSetActive, SaveEdit, SaveAssign, SaveTransfer
  <2> QED
    BY <1>1, <2>1, EndOrder
<1>4. ASSUME UNCHANGED <<req, owner>> PROVE Ordered'
  BY <1>4 DEF Ordered, InOrder
<1>5. ASSUME NEW c \in Counselors, NEW e \in Emails \cup {None}, CreateInvite(c, e) PROVE Ordered'
  BY <1>4, <1>5 DEF CreateInvite
<1>6. ASSUME NEW i \in Invites, RevokeInvite(i) \/ Expire(i) PROVE Ordered'
  BY <1>4, <1>6 DEF RevokeInvite, Expire
<1>7. ASSUME NEW k \in Schools, Lapse(k) PROVE Ordered'
  BY <1>4, <1>7 DEF Lapse
<1>8. CASE UNCHANGED vars
  BY <1>4, <1>8 DEF vars
<1> QED
  BY <1>2, <1>3, <1>5, <1>6, <1>7, <1>8 DEF Next

\* Who waits for the school waits for nobody who waits; so nobody waits for a User
\* row, then for an invite: all wait for profiles, which assignments hold.
LEMMA NoCircle ==
    ASSUME Base, Ordered, NEW set \in SUBSET Requests, Deadlocked(set),
           \A r \in set : req[r].op \notin {"edit", "transfer"}
    PROVE  \E q, r \in set : /\ req[q].op = "assign" /\ req[r].op = "assign" /\ Blocks(q, r)
                             /\ \E x \in Rows : owner[x] = r
<1> USE IdFacts
<1>1. ASSUME NEW r \in set
      PROVE  \E q \in set, x \in Needs(r) : q # r /\ owner[x] = q /\ Blocks(q, r)
  BY <1>1 DEF Deadlocked, Blocks
<1>2. ASSUME NEW r \in set
      PROVE  \/ req[r].pc = "invite" /\ Needs(r) = {<<"invite", req[r].invite>>}
             \/ req[r].pc = "profile" /\ Needs(r) = {<<"profile", req[r].student>>}
             \/ req[r].pc = "write" /\ Needs(r) = {<<"profile", req[r].student>>}
             \/ req[r].pc = "user" /\ Needs(r) = {<<"user", req[r].student>>}
             \/ req[r].pc = "school" /\ Needs(r) = {<<"school", req[r].to>>}
  <2>1. Needs(r) # {}
    BY <1>1
  <2> QED
    BY <2>1 DEF Needs
<1>3. ASSUME NEW r \in set, NEW x \in Rows, owner[x] = r
      PROVE  /\ req[r].pc \in {"profile", "user", "school"}
             /\ req[r].pc = "profile" => req[r].op = "assign" /\ x[1] = "profile"
             /\ req[r].pc = "user" => x[1] = "profile"
             /\ req[r].pc = "school" => x[1] # "school"
  <2>1. /\ req[r].pc \notin {"idle", "invite"}
        /\ req[r].pc = "profile" => req[r].op = "assign" /\ x[1] = "profile"
        /\ req[r].pc = "user" => x[1] = "profile"
        /\ req[r].pc = "school" => x[1] # "school"
        /\ req[r].pc = "write" => owner[<<"profile", req[r].student>>] = r
    BY <1>3 DEF Ordered, InOrder
  <2>2. req[r].pc # "write"
    BY <1>1, <1>2, <2>1
  <2> QED
    BY <1>2, <2>1, <2>2
<1>4. ASSUME NEW r \in set
      PROVE  Needs(r) \subseteq Rows
  <2>1. req[r] \in Jobs /\ Fit(req[r])
    BY <1>2 DEF Base, RequestsOK, Idle
  <2>2. AtItsStep(req[r])
    BY DEF Ordered, InOrder
  <2>3. /\ req[r].pc \in {"profile", "write", "user"} => req[r].student \in Students
        /\ req[r].pc = "invite" => req[r].invite \in Invites
        /\ req[r].pc = "school" => req[r].to \in Schools
    BY <2>1, <2>2 DEF AtItsStep, Fit
  <2>4. PICK s, i, k : s = req[r].student /\ i = req[r].invite /\ k = req[r].to
    OBVIOUS
  <2>5. \/ req[r].pc = "invite" /\ Needs(r) = {<<"invite", i>>}
        \/ req[r].pc \in {"profile", "write"} /\ Needs(r) = {<<"profile", s>>}
        \/ req[r].pc = "user" /\ Needs(r) = {<<"user", s>>}
        \/ req[r].pc = "school" /\ Needs(r) = {<<"school", k>>}
    BY <1>2, <2>4
  <2> QED
    BY <2>3, <2>4, <2>5, RowFacts, ZenonT(60)
<1>5. \A r \in set : req[r].pc # "school"
  BY <1>1, <1>2, <1>3, <1>4
<1>6. \A r \in set : req[r].pc # "user"
  BY <1>1, <1>2, <1>3, <1>4, <1>5
<1>7. ASSUME NEW r \in set, NEW x \in Rows, owner[x] = r PROVE req[r].op = "assign"
  BY <1>3, <1>5, <1>6, <1>7
<1>8. ASSUME NEW r \in set
      PROVE  \E q \in set : Blocks(q, r) /\ req[q].op = "assign" /\ \E x \in Rows : owner[x] = q
  BY <1>1, <1>4, <1>7, <1>8
<1>9. PICK p \in set : TRUE
  BY DEF Deadlocked
<1>10. PICK r \in set : req[r].op = "assign" /\ \E x \in Rows : owner[x] = r
  BY <1>8
<1> QED
  BY <1>8, <1>10

\* The services lock invite, profile, User and school in this order, so a deadlock
\* takes an account editor, which locks the User row first, a counselor's transfer,
\* which locks the school first, or two assignments in each other's way, which
\* lock the profiles of their lists in any order (move_student,
\* set_student_active, accept_invite, confirm_student, reject_student).
THEOREM DeadlocksTakeEditorsOrLists == Spec => []DeadlockTakesEditorOrLists
<1>1. Base /\ Ordered => DeadlockTakesEditorOrLists
  BY NoCircle DEF DeadlockTakesEditorOrLists
<1>2. Init => Ordered
  <2>1. ASSUME Init, NEW r \in Requests PROVE req[r] = Idle /\ \A x \in Rows : owner[x] # r
    BY <2>1, IdFacts DEF Init
  <2> QED
    BY <2>1 DEF Ordered, InOrder, Idle, AtItsStep
<1>3. Base /\ Ordered /\ [Next]_vars => Ordered'
  BY OrderStep
<1> QED
  BY <1>1, <1>2, <1>3, Invariance, PTL DEF Spec
=============================================================================
