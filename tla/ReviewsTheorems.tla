-------------------------- MODULE ReviewsTheorems --------------------------
(***************************************************************************)
(* Proofs about Reviews, for every set of missions, tasks, applications and *)
(* requests and for every amount of XP.                                     *)
(***************************************************************************)
EXTENDS Reviews, FiniteSetTheorems, TLAPS

(***************************************************************************)
(* The inductive invariant.                                                *)
(***************************************************************************)
Due == Amount * Cardinality(awards)
LevelDue(l) == l = 1 \/ Required(l) <= Due

Edits == {"submit", "task", "application", "staff"}

\* What a request in progress carries: an edit holds a status of its work's kind,
\* and "completed" only if that mission was awarded; an approval about to award
\* holds the profile's lock and the total as it is; a form holds an older total.
Sound(r) ==
    /\ req[r].op \in {"submit", "approve"} => req[r].item \in Missions
    /\ req[r].op = "task" => req[r].item \in Tasks
    /\ req[r].op = "application" => req[r].item \in Applications
    /\ req[r].op = "staff" => req[r].item \in Work
    /\ req[r].op \in Edits =>
        /\ req[r].to \in StatusOf(req[r].item)
        /\ req[r].to = "completed" => req[r].item \in awards
    /\ At(r, "approve", "award") => owner[Profile] = r /\ req[r].xp = xp
    /\ req[r].op = "form" => req[r].xp <= Due /\ LevelDue(req[r].level)

\* XpFollowsApprovals, with its parts named.
Awarded == \A i \in Missions : work[i] = "completed" => i \in awards
Totals == xp <= Due /\ (~stale => xp = Due) /\ LevelDue(level)

IInv == TypeOK /\ Awarded /\ Totals /\ \A r \in Requests : Sound(r)

(***************************************************************************)
(* Facts about the data.                                                   *)
(***************************************************************************)
LEMMA RequiredIsInt == \A l \in Nat : Required(l) \in Int
BY DEF Required

LEMMA DueIsNat ==
    ASSUME TypeOK
    PROVE  IsFiniteSet(awards) /\ Cardinality(awards) \in Nat /\ Due \in Nat
<1>1. IsFiniteSet(awards)
  BY FS_Subset, ReviewConstants DEF TypeOK
<1>2. Cardinality(awards) \in Nat
  BY <1>1, FS_CardinalityType
<1> QED
  BY <1>1, <1>2, ReviewConstants DEF Due

\* A new transaction row adds the amount once.
LEMMA DueGrows ==
    ASSUME TypeOK, NEW i \in Missions, awards' = awards \cup {i}
    PROVE  Due' = IF i \in awards THEN Due ELSE Due + Amount
<1>1. CASE i \in awards
  <2>1. awards' = awards
    BY <1>1
  <2> QED
    BY <1>1, <2>1 DEF Due
<1>2. CASE i \notin awards
  <2>1. Cardinality(awards') = Cardinality(awards) + 1
    BY <1>2, DueIsNat, FS_AddElement
  <2>2. \A a, n \in Nat : a * (n + 1) = a * n + a
    OBVIOUS
  <2> QED
    BY <1>2, <2>1, <2>2, DueIsNat, ReviewConstants DEF Due
<1> QED
  BY <1>1, <1>2

\* What was due stays due when more is.
LEMMA StillDue ==
    ASSUME NEW l \in Nat, LevelDue(l), Due \in Nat, Due' \in Nat, Due' >= Due
    PROVE  l = 1 \/ Required(l) <= Due'
BY RequiredIsInt DEF LevelDue

(***************************************************************************)
(* Each kind of step preserves the invariant.                              *)
(***************************************************************************)
\* A request that is still in progress stays sound while awards, totals and the
\* holder of the profile's lock do.
LEMMA OthersSound ==
    ASSUME IInv, NEW r \in Requests, req'[r] = req[r], TypeOK',
           awards \subseteq awards', Due' >= Due,
           At(r, "approve", "award") => owner'[Profile] = owner[Profile] /\ xp' = xp
    PROVE  Sound(r)'
<1>1. Sound(r) /\ req[r] \in Request
  BY DEF IInv, TypeOK
<1>2. Due \in Nat /\ Due' \in Nat
  <2>1. IsFiniteSet(awards')
    BY FS_Subset, ReviewConstants DEF TypeOK
  <2> QED
    BY <2>1, FS_CardinalityType, DueIsNat, ReviewConstants DEF Due, IInv
<1>3. req[r].op = "form" => LevelDue(req[r].level)'
  BY <1>1, <1>2, StillDue DEF Sound, LevelDue, Request
<1>4. req[r].op = "form" => req[r].xp <= Due'
  BY <1>1, <1>2 DEF Sound, Request
<1> QED
  BY <1>1, <1>3, <1>4 DEF Sound, At, LevelDue

LEMMA IdleSound == ASSUME NEW r, req'[r] = Idle PROVE Sound(r)'
BY DEF Sound, Idle, At, Edits

LEMMA IdleIsRequest == Idle \in Request
BY DEF Idle, Request

\* A request that begins.
LEMMA BeginIInv ==
    ASSUME IInv, NEW r \in Requests,
           BeginSubmit(r) \/ BeginTask(r) \/ BeginApplication(r) \/ BeginStaff(r)
             \/ BeginApprove(r) \/ BeginForm(r)
    PROVE  IInv'
<1> USE DEF IInv
<1>1. UNCHANGED <<own, work, awards, xp, level, owner, stale>>
  BY ZenonT(60) DEF BeginSubmit, BeginTask, BeginApplication, BeginStaff, BeginApprove, BeginForm, Begin
<1>2. \A q \in Requests \ {r} : req'[q] = req[q]
  BY ZenonT(60) DEF BeginSubmit, BeginTask, BeginApplication, BeginStaff, BeginApprove, BeginForm,
     Begin, TypeOK
<1>3. req' \in [Requests -> Request] /\ Sound(r)'
  <2>1. ASSUME NEW op \in Edits, NEW i \in Work, NEW to \in StatusOf(i), Begin(r, op, "save", i, to),
               op = "submit" => i \in Missions, op = "task" => i \in Tasks,
               op = "application" => i \in Applications, to = "completed" => i \in awards
        PROVE  req' \in [Requests -> Request] /\ Sound(r)'
    <3>1. to \in Status
      BY <2>1 DEF Status
    <3>2. req'[r] = [op |-> op, pc |-> "save", item |-> i, to |-> to, xp |-> 0, level |-> 1]
      BY <2>1 DEF Begin, Idle, TypeOK
    <3>3. req'[r] \in Request
      BY <3>1, <3>2, <2>1 DEF Request, Edits
    <3> QED
      BY <2>1, <1>1, <3>2, <3>3 DEF Begin, TypeOK, Sound, Edits, At
  <2>2. CASE BeginSubmit(r)
    <3>1. PICK i \in Missions : Begin(r, "submit", "save", i, "submitted")
      BY <2>2 DEF BeginSubmit
    <3> QED
      BY <3>1, <2>1 DEF Edits, Work, StatusOf
  <2>3. CASE BeginTask(r)
    <3>1. PICK i \in Tasks, to \in {"todo", "in_progress", "submitted"} : Begin(r, "task", "save", i, to)
      BY <2>3 DEF BeginTask
    <3> QED
      BY <3>1, <2>1, ReviewConstants DEF Edits, Work, StatusOf
  <2>4. CASE BeginApplication(r)
    <3>1. PICK i \in Applications, to \in {"planned", "applied"} : Begin(r, "application", "save", i, to)
      BY <2>4 DEF BeginApplication
    <3> QED
      BY <3>1, <2>1, ReviewConstants DEF Edits, Work, StatusOf
  <2>5. CASE BeginStaff(r)
    <3>1. PICK i \in Missions \cup Tasks : \E to \in StatusOf(i) :
            /\ to \in {"completed", "approved"} => work[i] = to
            /\ Begin(r, "staff", "save", i, to)
      BY <2>5 DEF BeginStaff
    <3>2. PICK to \in StatusOf(i) : /\ to \in {"completed", "approved"} => work[i] = to
                                    /\ Begin(r, "staff", "save", i, to)
      BY <3>1
    <3>3. to = "completed" => i \in awards
      BY <3>1, <3>2, ReviewConstants DEF StatusOf, Awarded
    <3> QED
      BY <3>1, <3>2, <3>3, <2>1 DEF Edits, Work
  <2>6. CASE BeginApprove(r)
    <3>1. PICK i \in Missions : Begin(r, "approve", "mission", i, None)
      BY <2>6 DEF BeginApprove
    <3>2. req'[r] = [op |-> "approve", pc |-> "mission", item |-> i, to |-> None, xp |-> 0, level |-> 1]
      BY <3>1 DEF Begin, Idle, TypeOK
    <3>3. req'[r] \in Request
      BY <3>1, <3>2 DEF Request, Work
    <3> QED
      BY <3>1, <3>2, <3>3 DEF Begin, TypeOK, Sound, Edits, At
  <2>7. CASE BeginForm(r)
    <3>1. req'[r] = [op |-> "form", pc |-> "save", item |-> None, to |-> None, xp |-> xp, level |-> level]
      BY <2>7 DEF BeginForm, Idle, TypeOK
    <3>2. req'[r] \in Request
      BY <3>1 DEF Request, TypeOK
    <3>3. xp <= Due' /\ LevelDue(level)'
      BY <1>1 DEF Totals, LevelDue, Due
    <3> QED
      BY <2>7, <3>1, <3>2, <3>3, <1>1 DEF BeginForm, TypeOK, Sound, Edits, At, LevelDue
  <2> QED
    BY <2>2, <2>3, <2>4, <2>5, <2>6, <2>7
<1>4. TypeOK'
  BY <1>1, <1>3 DEF TypeOK
<1>5. Due' = Due /\ Due \in Nat
  BY <1>1, DueIsNat DEF Due
<1>6. \A q \in Requests \ {r} : Sound(q)'
  BY <1>1, <1>2, <1>4, <1>5, OthersSound
<1>7. Awarded' /\ Totals'
  BY <1>1 DEF Awarded, Totals, LevelDue, Due
<1> QED
  BY <1>3, <1>4, <1>6, <1>7, SMTT(60)

\* Work other than a completed mission gets a status of its kind; one request
\* may end with it.
LEMMA WorkIInv ==
    ASSUME IInv, NEW i \in Work, NEW to \in StatusOf(i),
           to = "completed" => i \in awards,
           work' \in {work, [work EXCEPT ![i] = to]},
           UNCHANGED <<own, awards, xp, level, stale>>,
           \/ UNCHANGED <<req, owner>>
           \/ \E r \in Requests : ~At(r, "approve", "award") /\ Finish(r)
    PROVE  IInv'
<1> USE DEF IInv
<1>1. \A q \in Requests : req'[q] = Idle \/ req'[q] = req[q]
  BY DEF Finish, TypeOK
<1>2. \A q \in Requests : At(q, "approve", "award") => owner'[Profile] = owner[Profile]
  BY DEF Finish, TypeOK, Sound
<1>3. TypeOK'
  <2>1. work' \in [Work -> Status] /\ \A j \in Work : work'[j] \in StatusOf(j)
    BY DEF TypeOK, Status
  <2>2. req' \in [Requests -> Request]
    BY IdleIsRequest DEF Finish, TypeOK
  <2>3. owner' \in [Work \cup {Profile} -> Requests \cup {None}]
    BY DEF Finish, TypeOK
  <2> QED
    BY <2>1, <2>2, <2>3 DEF TypeOK
<1>4. Due' = Due /\ Due \in Nat
  BY DueIsNat DEF Due
<1>5. ASSUME NEW q \in Requests PROVE Sound(q)'
  BY <1>1, <1>2, <1>3, <1>4, OthersSound, IdleSound
<1>6. Awarded'
  BY DEF Awarded, TypeOK, Work
<1>7. Totals'
  BY DEF Totals, LevelDue, Due
<1> QED
  BY <1>3, <1>5, <1>6, <1>7

\* The steps that write a status.
LEMMA EditIInv ==
    ASSUME IInv, NEW r \in Requests, SaveBlind(r) \/ SaveTask(r) \/ SaveApplication(r)
    PROVE  IInv'
<1>1. Sound(r) /\ req[r].op \in Edits /\ ~At(r, "approve", "award")
  BY DEF IInv, SaveBlind, SaveTask, SaveApplication, At, Edits
<1>2. req[r].item \in Work
  BY <1>1 DEF Sound, Edits, Work
<1>3. /\ work' \in {work, [work EXCEPT ![req[r].item] = req[r].to]}
      /\ Finish(r) /\ UNCHANGED <<own, awards, xp, level, stale>>
  BY DEF SaveBlind, SaveTask, SaveApplication, Unearned
<1> QED
  BY <1>1, <1>2, <1>3, WorkIInv DEF Sound

LEMMA DecisionIInv ==
    ASSUME IInv, NEW i \in Work, Decide(i) \/ SendBack(i) \/ ApproveTask(i)
    PROVE  IInv'
<1>1. PICK to \in StatusOf(i) : work' = [work EXCEPT ![i] = to] /\ to # "completed"
  BY ReviewConstants DEF Decide, SendBack, ApproveTask, StatusOf, Decisions
<1>2. UNCHANGED <<own, awards, xp, level, req, owner, stale>>
  BY DEF Decide, SendBack, ApproveTask
<1> QED
  BY <1>1, <1>2, WorkIInv

\* The two locks of an approval.
LEMMA LockIInv ==
    ASSUME IInv, NEW r \in Requests, LockMission(r) \/ LockProfile(r)
    PROVE  IInv'
<1> USE DEF IInv
<1>1. UNCHANGED <<own, work, awards, xp, level, stale>>
  BY DEF LockMission, LockProfile
<1>2. req[r].op = "approve" /\ req[r].item \in Missions /\ req[r] \in Request
  BY DEF LockMission, LockProfile, At, Sound, TypeOK
<1>3. \A q \in Requests \ {r} : req'[q] = req[q]
  BY DEF LockMission, LockProfile, Finish, TypeOK
<1>4. \A q \in Requests : At(q, "approve", "award") => q # r /\ owner'[Profile] = owner[Profile]
  BY <1>2, ReviewConstants DEF LockMission, LockProfile, Finish, Free, TypeOK, At, Sound, Work
<1>5. req'[r] \in Request /\ Sound(r)'
  <2>1. CASE req'[r] = Idle
    BY <2>1, IdleIsRequest, IdleSound
  <2>2. CASE req'[r] = [req[r] EXCEPT !.pc = "profile"]
    BY <1>2, <2>2 DEF Request, Sound, At, Edits
  <2>3. CASE LockProfile(r)
    <3>1. req'[r] = [req[r] EXCEPT !.pc = "award", !.xp = xp] /\ owner'[Profile] = r
      BY <2>3 DEF LockProfile, TypeOK
    <3> QED
      BY <1>1, <1>2, <3>1 DEF Request, Sound, At, Edits, TypeOK
  <2> QED
    BY <2>1, <2>2, <2>3 DEF LockMission, Finish, TypeOK
<1>6. TypeOK'
  <2>1. req' \in [Requests -> Request]
    BY <1>3, <1>5 DEF LockMission, LockProfile, Finish, TypeOK
  <2>2. owner' \in [Work \cup {Profile} -> Requests \cup {None}]
    BY <1>2 DEF LockMission, LockProfile, Finish, TypeOK
  <2> QED
    BY <1>1, <2>1, <2>2 DEF TypeOK
<1>7. Due' = Due /\ Due \in Nat
  BY <1>1, DueIsNat DEF Due
<1>8. \A q \in Requests \ {r} : Sound(q)'
  BY <1>1, <1>3, <1>4, <1>6, <1>7, OthersSound
<1>9. Awarded' /\ Totals'
  BY <1>1 DEF Awarded, Totals, LevelDue, Due
<1> QED
  BY <1>5, <1>6, <1>8, <1>9

\* The commit of an approval: a new award raises the total by the amount, and
\* the total it adds to is still the one it read.
LEMMA AwardIInv ==
    ASSUME IInv, NEW r \in Requests, SaveApproval(r)
    PROVE  IInv'
<1> USE DEF IInv
<1> DEFINE i == req[r].item
<1>1. i \in Missions /\ owner[Profile] = r /\ req[r].xp = xp
  BY DEF SaveApproval, At, Sound
<1>2. /\ work' = [work EXCEPT ![i] = "completed"] /\ awards' = awards \cup {i}
      /\ xp' = (IF i \in awards THEN xp ELSE xp + Amount)
      /\ Finish(r) /\ UNCHANGED <<own, level, stale>>
  BY <1>1 DEF SaveApproval, Earned
<1>3. Due \in Nat /\ Due' = (IF i \in awards THEN Due ELSE Due + Amount) /\ Due' \in Nat /\ Due' >= Due
  BY <1>1, <1>2, DueGrows, DueIsNat, ReviewConstants
<1>4. TypeOK'
  <2>1. work' \in [Work -> Status] /\ \A j \in Work : work'[j] \in StatusOf(j)
    BY <1>1, <1>2 DEF TypeOK, StatusOf, Status, Work
  <2>2. req' \in [Requests -> Request]
    BY <1>2, IdleIsRequest DEF Finish, TypeOK
  <2>3. owner' \in [Work \cup {Profile} -> Requests \cup {None}]
    BY <1>2 DEF Finish, TypeOK
  <2>4. xp' \in Nat
    BY <1>2, ReviewConstants DEF TypeOK
  <2> QED
    BY <1>1, <1>2, <2>1, <2>2, <2>3, <2>4 DEF TypeOK
<1>5. ASSUME NEW q \in Requests PROVE Sound(q)'
  <2>1. CASE q = r
    BY <1>2, <2>1, IdleSound DEF Finish, TypeOK
  <2>2. CASE q # r
    <3>1. req'[q] = req[q]
      BY <1>2, <2>2 DEF Finish, TypeOK
    <3>2. ~At(q, "approve", "award")
      BY <1>1, <2>2 DEF Sound
    <3> QED
      BY <1>2, <1>3, <1>4, <3>1, <3>2, OthersSound
  <2> QED
    BY <2>1, <2>2
<1>6. Awarded'
  BY <1>1, <1>2 DEF Awarded, TypeOK
<1>7. Totals'
  <2>1. LevelDue(level)'
    BY <1>2, <1>3, StillDue DEF Totals, TypeOK, LevelDue
  <2>2. xp' <= Due' /\ (~stale' => xp' = Due')
    BY <1>2, <1>3, ReviewConstants DEF Totals, TypeOK
  <2> QED
    BY <2>1, <2>2 DEF Totals
<1> QED
  BY <1>4, <1>5, <1>6, <1>7

\* A form writes the profile it loaded; a new level is one the total allows.
LEMMA ProfileIInv ==
    ASSUME IInv, ApproveLevel \/ \E r \in Requests : SaveForm(r)
    PROVE  IInv'
<1> USE DEF IInv
<1>1. UNCHANGED <<own, work, awards>>
  BY DEF ApproveLevel, SaveForm
<1>2. Due' = Due /\ Due \in Nat
  BY <1>1, DueIsNat DEF Due
<1>3. Free(Profile) /\ \A q \in Requests : ~At(q, "approve", "award")
  BY ReviewConstants DEF ApproveLevel, SaveForm, Free, Sound
<1>4. xp' \in Nat /\ level' \in Nat /\ stale' \in BOOLEAN /\ Totals'
  <2>1. CASE ApproveLevel
    <3>1. PICK l \in 1..MaxLevel : EligibleLevel(l, xp) /\ level' = l
      BY <2>1 DEF ApproveLevel
    <3>2. l \in Nat /\ (l = 1 \/ Required(l) <= xp)
      BY <3>1, ReviewConstants DEF EligibleLevel
    <3>3. LevelDue(l)
      BY <3>2, <1>2, RequiredIsInt DEF Totals, LevelDue, TypeOK
    <3> QED
      BY <1>2, <2>1, <3>1, <3>2, <3>3 DEF ApproveLevel, TypeOK, Totals, LevelDue
  <2>2. CASE \E r \in Requests : SaveForm(r)
    <3>1. PICK r \in Requests : SaveForm(r)
      BY <2>2
    <3>2. /\ req[r] \in Request /\ req[r].xp <= Due /\ LevelDue(req[r].level)
          /\ xp' = req[r].xp /\ level' = req[r].level
          /\ stale' = (stale \/ xp' # xp \/ level' # level)
      BY <3>1 DEF SaveForm, At, Sound, TypeOK
    <3> QED
      BY <1>2, <3>2 DEF Request, TypeOK, Totals, LevelDue
  <2> QED
    BY <2>1, <2>2
<1>5. \A q \in Requests : req'[q] = Idle \/ req'[q] = req[q]
  BY DEF ApproveLevel, SaveForm, Finish, TypeOK
<1>6. TypeOK'
  <2>1. req' \in [Requests -> Request]
    BY IdleIsRequest DEF ApproveLevel, SaveForm, Finish, TypeOK
  <2>2. owner' \in [Work \cup {Profile} -> Requests \cup {None}]
    BY DEF ApproveLevel, SaveForm, Finish, TypeOK
  <2> QED
    BY <1>1, <1>4, <2>1, <2>2 DEF TypeOK
<1>7. ASSUME NEW q \in Requests PROVE Sound(q)'
  BY <1>1, <1>2, <1>3, <1>5, <1>6, OthersSound, IdleSound
<1>8. Awarded'
  BY <1>1 DEF Awarded
<1> QED
  BY <1>4, <1>6, <1>7, <1>8

LEMMA InitIInv == Init => IInv
<1> SUFFICES ASSUME Init PROVE IInv
  OBVIOUS
<1>1. TypeOK
  <2>1. \A i \in Work : work[i] \in StatusOf(i)
    BY ReviewConstants DEF Init, StatusOf, Work
  <2>2. work \in [Work -> Status]
    BY <2>1 DEF Init, Status
  <2> QED
    BY <2>1, <2>2, IdleIsRequest DEF Init, TypeOK
<1>2. Due = 0
  BY FS_EmptySet, ReviewConstants DEF Init, Due
<1>3. \A r \in Requests : Sound(r)
  BY DEF Init, Sound, Idle, At, Edits
<1> QED
  BY <1>1, <1>2, <1>3 DEF IInv, Init, Awarded, Totals, LevelDue, Work

LEMMA NextIInv == IInv /\ [Next]_vars => IInv'
<1> SUFFICES ASSUME IInv, [Next]_vars PROVE IInv'
  OBVIOUS
<1>1. CASE UNCHANGED vars
  BY <1>1 DEF vars, IInv, TypeOK, Awarded, Totals, LevelDue, Due, Sound, At
<1>2. ASSUME NEW r \in Requests,
             \/ BeginSubmit(r) \/ BeginTask(r) \/ BeginApplication(r) \/ BeginStaff(r)
             \/ BeginApprove(r) \/ BeginForm(r)
      PROVE  IInv'
  BY <1>2, BeginIInv
<1>3. ASSUME NEW r \in Requests, Serve(r) PROVE IInv'
  BY <1>3, EditIInv, LockIInv, AwardIInv, ProfileIInv DEF Serve
<1>4. ASSUME NEW i \in Work, Decide(i) \/ SendBack(i) \/ ApproveTask(i) PROVE IInv'
  BY <1>4, DecisionIInv
<1>5. CASE ApproveLevel
  BY <1>5, ProfileIInv
<1> QED
  BY <1>1, <1>2, <1>3, <1>4, <1>5 DEF Next

(***************************************************************************)
(* Theorems.                                                               *)
(***************************************************************************)
\* The inductive invariant holds in every reachable state.
THEOREM Invariance == Spec => []IInv
<1>1. IInv /\ [Next]_vars => IInv'
  BY NextIInv
<1> QED
  BY <1>1, InitIInv, PTL DEF Spec

\* Every piece of work has a status of its own kind; the profile, the requests
\* and the locks have their types (models.py, the serializers of the work).
THEOREM TypeCorrect == Spec => []TypeOK
<1>1. IInv => TypeOK
  BY DEF IInv
<1> QED
  BY <1>1, Invariance, PTL

\* An approved mission has earned its XP exactly once, and nobody is above the
\* level that XP entitles them to (award_approval_xp, approve_level).
THEOREM XpIsAwardedOnce == Spec => []XpFollowsApprovals
<1>1. IInv => XpFollowsApprovals
  BY DEF IInv, Awarded, Totals, LevelDue, Due, XpFollowsApprovals
<1> QED
  BY <1>1, Invariance, PTL

\* A student's late save takes back neither an approved task nor an admission
\* decision (TaskViewSet.perform_update, ApplicationViewSet.perform_update).
THEOREM ReviewsStand == Spec => ReviewStands
<1> DEFINE Stands ==
      \A i \in Tasks \cup Applications :
         work[i] \in {"approved"} \cup Decisions /\ work'[i] # work[i] =>
             ~ \E r \in Requests : req[r].item = i /\ req[r].op \in {"task", "application"} /\ req'[r] = Idle
<1>1. ASSUME IInv, [Next]_vars PROVE Stands
  <2> SUFFICES ASSUME NEW i \in Tasks \cup Applications, NEW r \in Requests,
                      work[i] \in {"approved"} \cup Decisions,
                      req[r].item = i, req[r].op \in {"task", "application"}, req'[r] = Idle
               PROVE  work'[i] = work[i]
    OBVIOUS
  <2>1. req[r] # Idle /\ Sound(r)
    BY <1>1 DEF Idle, IInv
  <2>2. ASSUME NEW q \in Requests, Serve(q) PROVE work'[i] = work[i]
    <3>1. CASE q # r
      BY <2>1, <2>2, <3>1, <1>1 DEF Serve, SaveBlind, SaveTask, SaveApplication, SaveForm, LockMission,
            LockProfile, SaveApproval, Finish, IInv, TypeOK
    <3>2. CASE q = r /\ SaveTask(q)
      <4>1. i \in Tasks /\ work[i] \in {"todo", "in_progress", "submitted", "approved"}
        BY <2>1, <3>2, <1>1, ReviewConstants DEF SaveTask, At, Sound, IInv, TypeOK, StatusOf, Work
      <4> QED
        BY <3>2, <4>1 DEF SaveTask, Decisions
    <3>3. CASE q = r /\ SaveApplication(q)
      <4>1. i \in Applications /\ work[i] \in {"planned", "applied"} \cup Decisions
        BY <2>1, <3>3, <1>1, ReviewConstants DEF SaveApplication, At, Sound, IInv, TypeOK,
           StatusOf, Work
      <4> QED
        BY <3>3, <4>1 DEF SaveApplication, Decisions
    <3>4. CASE q = r /\ ~SaveTask(q) /\ ~SaveApplication(q)
      BY <2>2, <3>4, SMTT(60) DEF Serve, SaveBlind, SaveForm, LockMission, LockProfile, SaveApproval, At
    <3> QED
      BY <3>1, <3>2, <3>3, <3>4
  <2>3. ASSUME NEW q \in Requests,
               \/ BeginSubmit(q) \/ BeginTask(q) \/ BeginApplication(q) \/ BeginStaff(q)
               \/ BeginApprove(q) \/ BeginForm(q)
        PROVE  work'[i] = work[i]
    BY <2>3, ZenonT(60) DEF BeginSubmit, BeginTask, BeginApplication, BeginStaff, BeginApprove,
       BeginForm, Begin
  <2>4. ASSUME NEW j \in Work, Decide(j) \/ SendBack(j) \/ ApproveTask(j) PROVE FALSE
    BY <2>1, <2>4 DEF Decide, SendBack, ApproveTask
  <2>5. ApproveLevel \/ UNCHANGED vars => work'[i] = work[i]
    BY DEF ApproveLevel, vars
  <2> QED
    BY <1>1, <2>2, <2>3, <2>4, <2>5 DEF Next
<1>2. IInv /\ [Next]_vars => [Stands]_vars
  BY <1>1
<1> QED
  BY <1>2, Invariance, PTL DEF Spec, ReviewStands
=============================================================================
