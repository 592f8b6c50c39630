-------------------------- MODULE BookingsTheorems --------------------------
(***************************************************************************)
(* Proofs about Bookings, for every number of staff, published times,       *)
(* meetings and requests: the per-staff lock keeps calendars free of        *)
(* overlaps, and the requests implement Calendar.                           *)
(***************************************************************************)
EXTENDS Bookings, TLAPS

(***************************************************************************)
(* Types, made inductive.                                                  *)
(***************************************************************************)
BookingRows ==
    [staff : Staff, slot : Slots \cup {None}, start : Times, dur : Durations, status : Statuses]
Jobs ==
    [op : Ops, pc : {"row", "lock", "save"}, staff : Staff, slot : Slots \cup {None},
     id : Ids \cup {None}, start : 0..MaxTime, dur : Durations \cup {0},
     status : OpenStatuses, starts : SUBSET Times]

\* What the request of each kind carries.
Fit(job) ==
    /\ job.op \in {"claim", "book", "publish", "moveSlot", "move"} =>
         job.start \in Times /\ job.dur \in Durations
    /\ job.op = "repeat" =>
         job.dur \in Durations /\ \A x, y \in job.starts : x < y => x + job.dur <= y
    /\ job.op \in {"claim", "moveSlot", "dropSlot"} => job.slot \in Slots
    /\ job.op \in {"move", "destroy"} => job.id \in Ids
    /\ job.op \in {"claim", "book"} => job.id = None
    /\ job.op \in {"book", "publish"} => job.slot = None
    /\ job.pc = "row" => job.op = "move"

TablesOK ==
    /\ slot \in [Slots -> Rows \cup {None, Deleted}]
    /\ booking \in [Ids -> BookingRows \cup {None, Deleted}]
    /\ now \in 0..MaxTime
LocksOK == person \in [Staff -> Requests \cup {None}] /\ row \in [Ids -> Requests \cup {None}]
RequestsOK ==
    /\ req \in [Requests -> {Idle} \cup Jobs] /\ \A r \in Requests : req[r] \in Jobs => Fit(req[r])
    /\ left \in Script
Types == TablesOK /\ LocksOK /\ RequestsOK

(***************************************************************************)
(* Facts about the data.                                                   *)
(***************************************************************************)
LEMMA DataFacts ==
    /\ Durations \subseteq Nat \ {0} /\ MaxMeeting \in Nat /\ \A d \in Durations : d <= MaxMeeting
    /\ MaxTime \in Nat /\ Times \subseteq Nat \ {0} /\ Times \subseteq 0..MaxTime
    /\ None \notin Slots /\ None \notin Ids /\ None \notin Requests /\ None # Deleted
    /\ \A x \in Rows : Exists(x)
    /\ \A x \in BookingRows : Exists(x)
    /\ ~Exists(None) /\ ~Exists(Deleted)
<1>1. \E m \in Durations : \A d \in Durations : d <= m
  BY BookingConstants
<1>2. MaxMeeting \in Durations /\ \A d \in Durations : d <= MaxMeeting
  BY <1>1 DEF MaxMeeting
<1> QED
  BY <1>2, BookingConstants, RowsAreRows DEF Times, Rows, BookingRows, Statuses, OpenStatuses, Exists

LEMMA IdleFacts ==
    /\ Idle.op = "none" /\ Idle.pc = "idle"
    /\ \A j \in Jobs : j.op \in Ops /\ j.pc # "idle" /\ j # Idle
BY DEF Idle, Jobs, Ops

\* Two intervals of one person that meet are found by overlapping().
LEMMA MeetsIsFound ==
    ASSUME NEW x, NEW y, x.start \in Nat, y.start \in Nat, x.dur \in Durations, y.dur \in Durations
    PROVE  /\ Meets(x, y) => x.staff = y.staff /\ Overlaps(x, y.start, y.dur)
           /\ x.staff = y.staff /\ Overlaps(x, y.start, y.dur) => Meets(x, y)
<1>1. x.dur \in Nat /\ y.dur \in Nat /\ x.dur <= MaxMeeting /\ MaxMeeting \in Nat
  BY DataFacts
<1> QED
  BY <1>1 DEF Meets, Overlaps

LEMMA JobType ==
    ASSUME RequestsOK, NEW r \in Requests, NEW op \in Ops, NEW pc, At(r, op, pc)
    PROVE  req[r] \in Jobs /\ Fit(req[r]) /\ req[r].op = op /\ req[r].pc = pc
BY IdleFacts DEF RequestsOK, At, Ops

(***************************************************************************)
(* Steps of a request.                                                     *)
(***************************************************************************)
LEMMA Ended ==
    ASSUME RequestsOK, NEW r \in Requests, End(r), UNCHANGED left
    PROVE  /\ RequestsOK'
           /\ req'[r] = Idle /\ \A q \in Requests : q # r => req'[q] = req[q]
BY IdleFacts DEF RequestsOK, End

LEMMA Began ==
    ASSUME RequestsOK, NEW r \in Requests, NEW job \in Jobs, Fit(job), Begin(r, job)
    PROVE  /\ RequestsOK' /\ req[r] = Idle
           /\ req'[r] = job /\ \A q \in Requests : q # r => req'[q] = req[q]
<1>1. req \in [Requests -> {Idle} \cup Jobs] /\ req' = [req EXCEPT ![r] = job]
  BY DEF RequestsOK, Begin
<1>2. req'[r] = job /\ \A q \in Requests : q # r => req'[q] = req[q]
  BY <1>1
<1>3. req[r] = Idle
  BY <1>1, IdleFacts DEF Begin
<1>4. left' \in Script
  <2>1. left \in [Ops -> Nat] /\ left[job.op] > 0 /\ left' = [left EXCEPT ![job.op] = @ - 1]
    BY DEF Begin, RequestsOK, Script
  <2> QED
    BY <2>1, IdleFacts DEF Script
<1> QED
  BY <1>1, <1>2, <1>3, <1>4 DEF RequestsOK

LEMMA Advanced ==
    ASSUME RequestsOK, NEW r \in Requests, NEW pc \in {"lock", "save"}, req[r] \in Jobs,
           req' = [req EXCEPT ![r].pc = pc], UNCHANGED left
    PROVE  /\ RequestsOK' /\ req'[r] = [req[r] EXCEPT !.pc = pc] /\ req'[r] \in Jobs
           /\ \A q \in Requests : q # r => req'[q] = req[q]
<1>1. req \in [Requests -> {Idle} \cup Jobs] /\ Fit(req[r])
  BY DEF RequestsOK
<1>2. req'[r] = [req[r] EXCEPT !.pc = pc] /\ \A q \in Requests : q # r => req'[q] = req[q]
  BY <1>1
<1>3. req'[r] \in Jobs /\ Fit(req'[r])
  BY <1>1, <1>2 DEF Jobs, Fit
<1> QED
  BY <1>1, <1>2, <1>3 DEF RequestsOK

LEMMA JobMade ==
    ASSUME NEW op \in Ops, NEW pc \in {"row", "lock", "save"}, NEW s \in Staff, NEW p \in Slots \cup {None},
           NEW b \in Ids \cup {None}, NEW start \in 0..MaxTime, NEW dur \in Durations \cup {0}
    PROVE  Job(op, pc, s, p, b, start, dur) \in Jobs
BY DEF Job, Jobs, OpenStatuses

(***************************************************************************)
(* The invariant: what a request knows between its checks and its write.    *)
(***************************************************************************)
\* The request holds the lock of its staff member.
Holder(r) ==
    req[r].pc = "save" /\ req[r].op \in {"claim", "book", "publish", "repeat", "moveSlot", "move"}
Owns(r) ==
    /\ Holder(r) => person[req[r].staff] = r
    /\ req[r].op = "move" /\ req[r].pc # "row" => row[req[r].id] = r /\ Open(req[r].id)

\* A row never changes its staff member, and a deleted one never comes back as another's.
Target(r) ==
    /\ req[r].op = "move" =>
         /\ booking[req[r].id] # None
         /\ Exists(booking[req[r].id]) => booking[req[r].id].staff = req[r].staff
    /\ req[r].op = "moveSlot" =>
         /\ slot[req[r].slot] # None
         /\ Exists(slot[req[r].slot]) => slot[req[r].slot].staff = req[r].staff

\* The checks the request made under the lock still hold.
TimeFree(r) ==
    Holder(r) /\ req[r].op \in {"claim", "book", "move"} =>
        \A b \in Ids : b # req[r].id /\ Open(b) => ~Meets(booking[b], req[r])
SlotFree(r) ==
    Holder(r) /\ req[r].op \in {"publish", "moveSlot"} =>
        \A p \in Slots : p # req[r].slot /\ Exists(slot[p]) => ~Meets(slot[p], req[r])
OnSlot(r) ==
    Holder(r) /\ req[r].op \in {"claim", "move"} /\ req[r].slot # None => Unchanged(r, req[r].slot)
NoneAt(r) == Holder(r) /\ req[r].op = "moveSlot" => PointAt(req[r].slot) = {}

\* Two requests that move the same published time are for the same staff member.
SameOwner ==
    \A q, r \in Requests :
        req[q].op = "moveSlot" /\ req[r].op = "moveSlot" /\ req[q].slot = req[r].slot =>
            req[q].staff = req[r].staff

Safe(r) == Owns(r) /\ Target(r) /\ TimeFree(r) /\ SlotFree(r) /\ OnSlot(r) /\ NoneAt(r)
IInv ==
    /\ Types /\ SameOwner /\ \A r \in Requests : Safe(r)
    /\ NoDoubleBooking /\ SlotsDisjoint /\ BookingMatchesSlot

LEMMA OneHolder ==
    ASSUME IInv, NEW q \in Requests, NEW r \in Requests, Holder(q), Holder(r),
           req[q].staff = req[r].staff
    PROVE  q = r
BY DEF IInv, Safe, Owns

LEMMA IdleSafe == ASSUME NEW r \in Requests, req'[r] = Idle PROVE Safe(r)'
BY IdleFacts DEF Safe, Owns, Target, TimeFree, SlotFree, OnSlot, NoneAt, Holder

\* A request goes on or ends.
LEMMA OwnersKept ==
    ASSUME SameOwner,
           \A r \in Requests :
               \/ req'[r] = Idle
               \/ req'[r].op = req[r].op /\ req'[r].slot = req[r].slot /\ req'[r].staff = req[r].staff
    PROVE  SameOwner'
BY IdleFacts DEF SameOwner

\* The tables stay as they are: what the other requests know still holds.
LEMMA TablesKept ==
    ASSUME IInv, Types', UNCHANGED <<slot, booking>>, NEW r \in Requests, Safe(r)', SameOwner',
           \A q \in Requests : q # r => req'[q] = req[q],
           \A s \in Staff : person'[s] = person[s] \/ person[s] \in {None, r},
           \A b \in Ids : row'[b] = row[b] \/ row[b] \in {None, r}
    PROVE  IInv'
<1>1. ASSUME NEW q \in Requests, q # r PROVE Safe(q)'
  <2>1. req'[q] = req[q] /\ Safe(q) /\ q # None
    BY <1>1, DataFacts DEF IInv
  <2>2. req[q] = Idle \/ (req[q] \in Jobs /\ Fit(req[q]))
    BY DEF IInv, Types, RequestsOK
  <2>3. CASE req[q] = Idle
    BY <2>1, <2>3, IdleSafe
  <2>4. CASE req[q] \in Jobs /\ Fit(req[q])
    <3>1. Owns(q)'
      BY <1>1, <2>1, <2>4 DEF Safe, Owns, Holder, Jobs, Fit, Open, Exists
    <3> QED
      BY <2>1, <3>1 DEF Safe, Target, TimeFree, SlotFree, OnSlot, NoneAt, Holder, Open, Exists,
         Unchanged, PointAt
  <2> QED
    BY <2>2, <2>3, <2>4
<1>2. NoDoubleBooking' /\ SlotsDisjoint' /\ BookingMatchesSlot'
  BY DEF IInv, NoDoubleBooking, SlotsDisjoint, BookingMatchesSlot, Open, Exists
<1> QED
  BY <1>1, <1>2 DEF IInv

(***************************************************************************)
(* A request arrives.                                                      *)
(***************************************************************************)
LEMMA Arrived ==
    ASSUME IInv, NEW r \in Requests, NEW job \in Jobs, Fit(job), Begin(r, job),
           UNCHANGED <<slot, booking, now, person, row>>,
           job.pc = "save" => job.op \in {"dropSlot", "destroy"},
           job.op = "move" => job.pc = "row" /\ Exists(booking[job.id]) /\ booking[job.id].staff = job.staff,
           job.op = "moveSlot" => Exists(slot[job.slot]) /\ slot[job.slot].staff = job.staff
    PROVE  IInv'
<1>1. RequestsOK' /\ req'[r] = job /\ \A q \in Requests : q # r => req'[q] = req[q]
  BY Began DEF IInv, Types
<1>2. Types'
  BY <1>1 DEF IInv, Types, TablesOK, LocksOK
<1>3. Safe(r)'
  <2>1. ~Holder(r)'
    BY <1>1 DEF Holder
  <2>2. Owns(r)' /\ Target(r)'
    BY <1>1, <2>1, DataFacts DEF Owns, Target, Exists
  <2> QED
    BY <2>1, <2>2 DEF Safe, TimeFree, SlotFree, OnSlot, NoneAt
<1>4. SameOwner'
  <2>1. ASSUME NEW q \in Requests, q # r, req[q].op = "moveSlot", job.op = "moveSlot", req[q].slot = job.slot
        PROVE  req[q].staff = job.staff
    BY <2>1 DEF IInv, Safe, Target
  <2> QED
    BY <1>1, <2>1 DEF IInv, SameOwner
<1> QED
  BY <1>1, <1>2, <1>3, <1>4, TablesKept

LEMMA ArriveSafe == ASSUME IInv, NEW r \in Requests, Arrive(r) PROVE IInv'
<1> USE DataFacts
<1>0. TablesOK
  BY DEF IInv, Types
<1>1. CASE BeginClaim(r)
  <2>1. PICK p \in Slots :
          /\ Exists(slot[p])
          /\ Begin(r, Job("claim", "lock", slot[p].staff, p, None, slot[p].start, slot[p].dur))
    BY <1>1 DEF BeginClaim
  <2>2. slot[p] \in Rows
    BY <1>0, <2>1 DEF TablesOK, Exists
  <2>3. PICK job : job = Job("claim", "lock", slot[p].staff, p, None, slot[p].start, slot[p].dur)
    OBVIOUS
  <2>4. job \in Jobs /\ Fit(job)
    BY <2>2, <2>3, JobMade DEF Rows, Ops, Job, Fit
  <2>5. job.pc = "lock" /\ job.op = "claim"
    BY <2>3 DEF Job
  <2> QED
    BY <1>1, <2>1, <2>3, <2>4, <2>5, Arrived DEF BeginClaim
<1>2. CASE BeginBook(r)
  <2>1. PICK s \in Staff, start \in Times, dur \in Durations :
          Begin(r, Job("book", "lock", s, None, None, start, dur))
    BY <1>2 DEF BeginBook
  <2>2. PICK job : job = Job("book", "lock", s, None, None, start, dur)
    OBVIOUS
  <2>3. job \in Jobs /\ Fit(job)
    BY <2>2, JobMade DEF Ops, Job, Fit
  <2>4. job.pc = "lock" /\ job.op = "book"
    BY <2>2 DEF Job
  <2> QED
    BY <1>2, <2>1, <2>2, <2>3, <2>4, Arrived DEF BeginBook
<1>3. CASE BeginPublish(r)
  <2>1. PICK s \in Staff, start \in Times, dur \in Durations :
          Begin(r, Job("publish", "lock", s, None, None, start, dur))
    BY <1>3 DEF BeginPublish
  <2>2. PICK job : job = Job("publish", "lock", s, None, None, start, dur)
    OBVIOUS
  <2>3. job \in Jobs /\ Fit(job)
    BY <2>2, JobMade DEF Ops, Job, Fit
  <2>4. job.pc = "lock" /\ job.op = "publish"
    BY <2>2 DEF Job
  <2> QED
    BY <1>3, <2>1, <2>2, <2>3, <2>4, Arrived DEF BeginPublish
<1>4. CASE BeginMoveSlot(r)
  <2>1. PICK p \in Slots, start \in Times, dur \in Durations :
          /\ Exists(slot[p])
          /\ Begin(r, Job("moveSlot", "lock", slot[p].staff, p, None, start, dur))
    BY <1>4 DEF BeginMoveSlot
  <2>2. slot[p] \in Rows
    BY <1>0, <2>1 DEF TablesOK, Exists
  <2>3. PICK job : job = Job("moveSlot", "lock", slot[p].staff, p, None, start, dur)
    OBVIOUS
  <2>4. job \in Jobs /\ Fit(job)
    BY <2>2, <2>3, JobMade DEF Rows, Ops, Job, Fit
  <2>5. job.pc = "lock" /\ job.op = "moveSlot" /\ job.slot = p /\ job.staff = slot[p].staff
    BY <2>3 DEF Job
  <2>7. Begin(r, job) /\ UNCHANGED <<slot, booking, now, person, row>>
    BY <1>4, <2>1, <2>3 DEF BeginMoveSlot
  <2> QED
    BY <2>1, <2>4, <2>5, <2>7, Arrived
<1>5. CASE BeginDropSlot(r)
  <2>1. PICK p \in Slots :
          /\ Exists(slot[p])
          /\ Begin(r, Job("dropSlot", "save", slot[p].staff, p, None, 0, 0))
    BY <1>5 DEF BeginDropSlot
  <2>2. slot[p] \in Rows
    BY <1>0, <2>1 DEF TablesOK, Exists
  <2>3. PICK job : job = Job("dropSlot", "save", slot[p].staff, p, None, 0, 0)
    OBVIOUS
  <2>4. job \in Jobs /\ Fit(job)
    <3>1. slot[p].staff \in Staff /\ 0 \in 0..MaxTime /\ 0 \in Durations \cup {0}
      BY <2>2 DEF Rows
    <3>2. job \in Jobs
      BY <2>3, <3>1, JobMade DEF Ops
    <3> QED
      BY <2>3, <3>2 DEF Job, Fit
  <2>5. job.op = "dropSlot"
    BY <2>3 DEF Job
  <2> QED
    BY <1>5, <2>1, <2>3, <2>4, <2>5, Arrived DEF BeginDropSlot
<1>6. CASE BeginRepeat(r)
  <2>1. PICK s \in Staff, starts \in SUBSET Times, dur \in Durations :
          /\ \A x, y \in starts : x < y => x + dur <= y
          /\ Begin(r, [Job("repeat", "lock", s, None, None, 0, dur) EXCEPT
                         !.starts = {x \in starts : x > now}])
    BY <1>6 DEF BeginRepeat
  <2>2. PICK job : job = [Job("repeat", "lock", s, None, None, 0, dur) EXCEPT
                            !.starts = {x \in starts : x > now}]
    OBVIOUS
  <2>3. Job("repeat", "lock", s, None, None, 0, dur) \in Jobs
    BY JobMade DEF Ops
  <2>4. job \in Jobs /\ job.op = "repeat" /\ job.pc = "lock" /\ job.dur = dur /\ job.starts \subseteq starts
    BY <2>2, <2>3 DEF Jobs, Job
  <2>5. Fit(job)
    BY <2>1, <2>4 DEF Fit
  <2> QED
    BY <1>6, <2>1, <2>2, <2>4, <2>5, Arrived DEF BeginRepeat
<1>7. CASE BeginMove(r)
  <2>1. PICK b \in Ids, p \in Slots \cup {None}, start \in Times, dur \in Durations, status \in OpenStatuses :
          /\ Exists(booking[b])
          /\ Begin(r, [Job("move", "row", booking[b].staff, p, b, start, dur) EXCEPT !.status = status])
    BY <1>7, ZenonT(60) DEF BeginMove
  <2>2. booking[b] \in BookingRows
    BY <1>0, <2>1 DEF TablesOK, Exists
  <2>3. PICK job : job = [Job("move", "row", booking[b].staff, p, b, start, dur) EXCEPT !.status = status]
    OBVIOUS
  <2>4. Job("move", "row", booking[b].staff, p, b, start, dur) \in Jobs
    BY <2>2, JobMade DEF BookingRows, Ops
  <2>5. /\ job \in Jobs /\ job.op = "move" /\ job.pc = "row" /\ job.id = b
        /\ job.staff = booking[b].staff /\ job.start = start /\ job.dur = dur
    BY <2>3, <2>4 DEF Jobs, Job
  <2>6. Fit(job)
    BY <2>5 DEF Fit
  <2>7. Begin(r, job) /\ UNCHANGED <<slot, booking, now, person, row>>
    BY <1>7, <2>1, <2>3 DEF BeginMove
  <2> QED
    BY <2>1, <2>5, <2>6, <2>7, Arrived
<1>8. CASE BeginDestroy(r)
  <2>1. PICK b \in Ids :
          /\ Exists(booking[b])
          /\ Begin(r, Job("destroy", "save", booking[b].staff, None, b, 0, 0))
    BY <1>8 DEF BeginDestroy
  <2>2. booking[b] \in BookingRows
    BY <1>0, <2>1 DEF TablesOK, Exists
  <2>3. PICK job : job = Job("destroy", "save", booking[b].staff, None, b, 0, 0)
    OBVIOUS
  <2>4. job \in Jobs /\ Fit(job)
    <3>1. booking[b].staff \in Staff /\ 0 \in 0..MaxTime /\ 0 \in Durations \cup {0}
      BY <2>2 DEF BookingRows
    <3>2. job \in Jobs
      BY <2>3, <3>1, JobMade DEF Ops
    <3> QED
      BY <2>3, <3>2 DEF Job, Fit
  <2>5. job.op = "destroy"
    BY <2>3 DEF Job
  <2> QED
    BY <1>8, <2>1, <2>3, <2>4, <2>5, Arrived DEF BeginDestroy
<1> QED
  BY <1>1, <1>2, <1>3, <1>4, <1>5, <1>6, <1>7, <1>8 DEF Arrive

(***************************************************************************)
(* A request waits for its locks and checks.                               *)
(***************************************************************************)
LEMMA NotBusy ==
    ASSUME TablesOK, NEW job, job.start \in Times, job.dur \in Durations, NEW m,
           ~Busy(job.staff, job.start, job.dur, m)
    PROVE  \A b \in Ids : b # m /\ Open(b) => ~Meets(booking[b], job)
<1> SUFFICES ASSUME NEW b \in Ids, b # m, Open(b), Meets(booking[b], job) PROVE FALSE
  OBVIOUS
<1>1. booking[b] \in BookingRows
  BY DEF TablesOK, Open, Exists
<1>2. booking[b].staff = job.staff /\ Overlaps(booking[b], job.start, job.dur)
  BY <1>1, MeetsIsFound, DataFacts DEF BookingRows
<1> QED
  BY <1>2 DEF Busy

LEMMA NotPublished ==
    ASSUME TablesOK, NEW job, job.start \in Times, job.dur \in Durations, NEW m,
           ~Published(job.staff, job.start, job.dur, m)
    PROVE  \A p \in Slots : p # m /\ Exists(slot[p]) => ~Meets(slot[p], job)
<1> SUFFICES ASSUME NEW p \in Slots, p # m, Exists(slot[p]), Meets(slot[p], job) PROVE FALSE
  OBVIOUS
<1>1. slot[p] \in Rows
  BY DEF TablesOK, Exists
<1>2. slot[p].staff = job.staff /\ Overlaps(slot[p], job.start, job.dur)
  BY <1>1, MeetsIsFound, DataFacts DEF Rows
<1> QED
  BY <1>2 DEF Published

\* The checks of a request that goes on.
Checked(r) ==
    LET job == req[r] IN
    /\ job.op \in {"claim", "book", "move"} => ~Busy(job.staff, job.start, job.dur, job.id)
    /\ job.op \in {"publish", "moveSlot"} => ~Published(job.staff, job.start, job.dur, job.slot)
    /\ job.op \in {"claim", "move"} /\ job.slot # None => Unchanged(r, job.slot)
    /\ job.op = "moveSlot" => PointAt(job.slot) = {}

LEMMA EnterSafe ==
    ASSUME IInv, NEW r \in Requests, req[r] \in Jobs, Fit(req[r]), req[r].pc = "lock",
           NEW ok \in BOOLEAN, Enter(r, ok), ok => Checked(r), UNCHANGED <<slot, booking, now, left>>,
           \A b \in Ids : row'[b] = row[b] \/ (~ok /\ row[b] = r /\ row'[b] = None),
           row' \in [Ids -> Requests \cup {None}]
    PROVE  IInv'
<1>1. \A b \in Ids : row'[b] = row[b] \/ row[b] \in {None, r}
  OBVIOUS
<1>2. TablesOK'
  BY DEF IInv, Types, TablesOK
<1>3. CASE ok
  <2>1. /\ person[req[r].staff] = None /\ person' = [person EXCEPT ![req[r].staff] = r]
        /\ req' = [req EXCEPT ![r].pc = "save"]
    BY <1>3 DEF Enter
  <2>2. /\ RequestsOK' /\ req'[r] = [req[r] EXCEPT !.pc = "save"] /\ req'[r] \in Jobs
        /\ \A q \in Requests : q # r => req'[q] = req[q]
    BY <2>1, Advanced DEF IInv, Types
  <2>3. person \in [Staff -> Requests \cup {None}] /\ req[r].staff \in Staff
    BY DEF IInv, Types, LocksOK, Jobs
  <2>4. Types' /\ \A s \in Staff : person'[s] = person[s] \/ person[s] = None
    BY <1>2, <2>1, <2>2, <2>3 DEF Types, LocksOK
  <2>5. /\ req'[r].pc = "save" /\ req'[r].op = req[r].op /\ req'[r].staff = req[r].staff
        /\ req'[r].slot = req[r].slot /\ req'[r].id = req[r].id
        /\ req'[r].start = req[r].start /\ req'[r].dur = req[r].dur
    BY <2>2 DEF Jobs
  <2>6. Owns(r)' /\ Target(r)'
    <3>1. Owns(r) /\ Target(r)
      BY DEF IInv, Safe
    <3>2. person'[req[r].staff] = r
      BY <2>1, <2>3
    <3> QED
      BY <1>3, <2>5, <3>1, <3>2 DEF Owns, Target, Holder, Open, Exists, Fit
  <2>7. TimeFree(r)'
    <3>1. CASE req[r].op \in {"claim", "book", "move"}
      <4>1. \A b \in Ids : b # req[r].id /\ Open(b) => ~Meets(booking[b], req[r])
        BY <1>3, <3>1, NotBusy DEF Checked, Fit, IInv, Types
      <4>2. \A b \in Ids : Meets(booking[b], req[r])' <=> Meets(booking[b], req[r])
        BY <2>5 DEF Meets
      <4> QED
        BY <2>5, <4>1, <4>2 DEF TimeFree, Open, Exists
    <3> QED
      BY <2>5, <3>1 DEF TimeFree
  <2>8. SlotFree(r)'
    <3>1. CASE req[r].op \in {"publish", "moveSlot"}
      <4>1. \A p \in Slots : p # req[r].slot /\ Exists(slot[p]) => ~Meets(slot[p], req[r])
        BY <1>3, <3>1, NotPublished DEF Checked, Fit, IInv, Types
      <4>2. \A p \in Slots : Meets(slot[p], req[r])' <=> Meets(slot[p], req[r])
        BY <2>5 DEF Meets
      <4> QED
        BY <2>5, <4>1, <4>2 DEF SlotFree, Exists
    <3> QED
      BY <2>5, <3>1 DEF SlotFree
  <2>9. OnSlot(r)' /\ NoneAt(r)'
    BY <1>3, <2>5 DEF OnSlot, NoneAt, Checked, Unchanged, Exists, PointAt
  <2>10. SameOwner'
    BY <2>2, <2>5, OwnersKept DEF IInv
  <2> QED
    BY <1>1, <2>2, <2>4, <2>6, <2>7, <2>8, <2>9, <2>10, TablesKept DEF Safe
<1>4. CASE ~ok
  <2>1. End(r) /\ UNCHANGED person
    BY <1>4 DEF Enter
  <2>2. RequestsOK' /\ req'[r] = Idle /\ \A q \in Requests : q # r => req'[q] = req[q]
    BY <2>1, Ended DEF IInv, Types
  <2>3. Types'
    BY <1>2, <2>1, <2>2 DEF IInv, Types, LocksOK
  <2>4. SameOwner'
    BY <2>2, OwnersKept DEF IInv
  <2> QED
    BY <1>1, <2>1, <2>2, <2>3, <2>4, IdleSafe, TablesKept
<1> QED
  BY <1>3, <1>4

LEMMA LockMoveSafe == ASSUME IInv, NEW r \in Requests, LockMove(r) PROVE IInv'
<1>1. req[r] \in Jobs /\ Fit(req[r]) /\ req[r].op = "move" /\ req[r].pc = "row"
  BY JobType DEF LockMove, IInv, Types, Ops
<1>2. PICK b \in Ids : b = req[r].id
  BY <1>1 DEF Fit
<1>3. UNCHANGED <<slot, booking, now, person, left>> /\ row[b] = None
  BY <1>2 DEF LockMove
<1>4. row \in [Ids -> Requests \cup {None}]
  BY DEF IInv, Types, LocksOK
<1>5. CASE Open(b) /\ row' = [row EXCEPT ![b] = r] /\ req' = [req EXCEPT ![r].pc = "lock"]
  <2>1. /\ RequestsOK' /\ req'[r] = [req[r] EXCEPT !.pc = "lock"] /\ req'[r] \in Jobs
        /\ \A q \in Requests : q # r => req'[q] = req[q]
    BY <1>1, <1>3, <1>5, Advanced DEF IInv, Types
  <2>2. Types' /\ row'[b] = r /\ \A c \in Ids : row'[c] = row[c] \/ row[c] = None
    BY <1>3, <1>4, <1>5, <2>1 DEF IInv, Types, TablesOK, LocksOK
  <2>3. /\ req'[r].pc = "lock" /\ req'[r].op = "move" /\ req'[r].id = b
        /\ req'[r].staff = req[r].staff
    BY <1>1, <1>2, <2>1 DEF Jobs
  <2>4. ~Holder(r)' /\ Target(r)
    BY <2>3 DEF Holder, IInv, Safe
  <2>5. Owns(r)' /\ Target(r)'
    BY <1>1, <1>2, <1>3, <1>5, <2>2, <2>3, <2>4 DEF Owns, Target, Open, Exists
  <2>6. SameOwner'
    <3>1. req'[r].op = req[r].op /\ req'[r].slot = req[r].slot /\ req'[r].staff = req[r].staff
      BY <1>1, <2>1 DEF Jobs
    <3> QED
      BY <2>1, <3>1, OwnersKept DEF IInv
  <2> QED
    BY <1>3, <2>1, <2>2, <2>4, <2>5, <2>6, TablesKept DEF Safe, TimeFree, SlotFree, OnSlot, NoneAt
<1>6. CASE End(r) /\ UNCHANGED row
  <2>1. RequestsOK' /\ req'[r] = Idle /\ \A q \in Requests : q # r => req'[q] = req[q]
    BY <1>3, <1>6, Ended DEF IInv, Types
  <2>2. Types'
    BY <1>3, <1>6, <2>1 DEF IInv, Types, TablesOK, LocksOK
  <2>3. SameOwner'
    BY <2>1, OwnersKept DEF IInv
  <2> QED
    BY <1>3, <1>6, <2>1, <2>2, <2>3, IdleSafe, TablesKept
<1> QED
  BY <1>2, <1>5, <1>6 DEF LockMove, Movable

LEMMA WaitSafe == ASSUME IInv, NEW r \in Requests, Wait(r) PROVE IInv'
<1> USE DataFacts
<1>0. RequestsOK /\ TablesOK /\ row \in [Ids -> Requests \cup {None}]
  BY DEF IInv, Types, LocksOK
<1>1. CASE EnterClaim(r)
  <2>1. req[r] \in Jobs /\ Fit(req[r]) /\ req[r].op = "claim" /\ req[r].pc = "lock"
    BY <1>0, <1>1, JobType DEF EnterClaim, Ops
  <2>2. PICK ok \in BOOLEAN : ok <=> /\ Unchanged(r, req[r].slot)
                                     /\ ~Held(req[r].slot, None)
                                     /\ ~Busy(req[r].staff, req[r].start, req[r].dur, None)
    OBVIOUS
  <2>3. Enter(r, ok) /\ UNCHANGED <<slot, booking, now, row, left>>
    BY <1>1, <2>2 DEF EnterClaim, Enter
  <2>4. ok => Checked(r)
    BY <2>1, <2>2 DEF Checked, Fit
  <2> QED
    BY <1>0, <2>1, <2>3, <2>4, EnterSafe
<1>2. CASE EnterBook(r)
  <2>1. req[r] \in Jobs /\ Fit(req[r]) /\ req[r].op = "book" /\ req[r].pc = "lock"
    BY <1>0, <1>2, JobType DEF EnterBook, Ops
  <2>2. PICK ok \in BOOLEAN : ok <=> ~Busy(req[r].staff, req[r].start, req[r].dur, None)
    OBVIOUS
  <2>3. Enter(r, ok) /\ UNCHANGED <<slot, booking, now, row, left>>
    BY <1>2, <2>2 DEF EnterBook, Enter
  <2>4. ok => Checked(r)
    BY <2>1, <2>2 DEF Checked, Fit
  <2> QED
    BY <1>0, <2>1, <2>3, <2>4, EnterSafe
<1>3. CASE EnterPublish(r)
  <2>1. req[r] \in Jobs /\ Fit(req[r]) /\ req[r].op = "publish" /\ req[r].pc = "lock"
    BY <1>0, <1>3, JobType DEF EnterPublish, Ops
  <2>2. PICK ok \in BOOLEAN : ok <=> /\ ~Published(req[r].staff, req[r].start, req[r].dur, None)
                                     /\ ~Busy(req[r].staff, req[r].start, req[r].dur, None)
    OBVIOUS
  <2>3. Enter(r, ok) /\ UNCHANGED <<slot, booking, now, row, left>>
    BY <1>3, <2>2 DEF EnterPublish, Enter
  <2>4. ok => Checked(r)
    BY <2>1, <2>2 DEF Checked, Fit
  <2> QED
    BY <1>0, <2>1, <2>3, <2>4, EnterSafe
<1>4. CASE EnterMoveSlot(r)
  <2>1. req[r] \in Jobs /\ Fit(req[r]) /\ req[r].op = "moveSlot" /\ req[r].pc = "lock"
    BY <1>0, <1>4, JobType DEF EnterMoveSlot, Ops
  <2>2. PICK ok \in BOOLEAN : ok <=> /\ PointAt(req[r].slot) = {}
                                     /\ ~Published(req[r].staff, req[r].start, req[r].dur, req[r].slot)
                                     /\ ~Busy(req[r].staff, req[r].start, req[r].dur, None)
    OBVIOUS
  <2>3. Enter(r, ok) /\ UNCHANGED <<slot, booking, now, row, left>>
    BY <1>4, <2>2 DEF EnterMoveSlot, Enter
  <2>4. ok => Checked(r)
    BY <2>1, <2>2 DEF Checked
  <2> QED
    BY <1>0, <2>1, <2>3, <2>4, EnterSafe
<1>5. CASE EnterRepeat(r)
  <2>1. req[r] \in Jobs /\ Fit(req[r]) /\ req[r].op = "repeat" /\ req[r].pc = "lock"
    BY <1>0, <1>5, JobType DEF EnterRepeat, Ops
  <2>2. Enter(r, TRUE) /\ UNCHANGED <<slot, booking, now, row, left>> /\ Checked(r)
    BY <1>5, <2>1 DEF EnterRepeat, Checked
  <2> QED
    BY <1>0, <2>1, <2>2, EnterSafe
<1>6. CASE EnterMove(r)
  <2>1. req[r] \in Jobs /\ Fit(req[r]) /\ req[r].op = "move" /\ req[r].pc = "lock"
    BY <1>0, <1>6, JobType DEF EnterMove, Ops
  <2>2. PICK b \in Ids : b = req[r].id
    BY <2>1 DEF Fit
  <2>3. PICK ok \in BOOLEAN : ok <=>
          /\ req[r].slot # None => Unchanged(r, req[r].slot) /\ ~Held(req[r].slot, b)
          /\ ~Busy(req[r].staff, req[r].start, req[r].dur, b)
    OBVIOUS
  <2>4. /\ Enter(r, ok) /\ UNCHANGED <<slot, booking, now, left>>
        /\ row' = IF ok THEN row ELSE [row EXCEPT ![b] = None]
    BY <1>6, <2>2, <2>3 DEF EnterMove, Enter
  <2>5. ok => Checked(r)
    BY <2>1, <2>2, <2>3 DEF Checked
  <2>6. row[b] = r
    BY <2>1, <2>2 DEF IInv, Safe, Owns
  <2>7. row' \in [Ids -> Requests \cup {None}] /\ \A c \in Ids : row'[c] = row[c] \/ (~ok /\ row[c] = r /\ row'[c] = None)
    BY <1>0, <2>4, <2>6
  <2> QED
    BY <2>1, <2>4, <2>5, <2>7, EnterSafe
<1> QED
  BY <1>1, <1>2, <1>3, <1>4, <1>5, <1>6, LockMoveSafe DEF Wait

(***************************************************************************)
(* A request writes and commits.                                           *)
(***************************************************************************)
LEMMA Committed ==
    ASSUME IInv, NEW r \in Requests, req[r] \in Jobs, Holder(r), Commit(r), UNCHANGED left
    PROVE  /\ RequestsOK' /\ req'[r] = Idle /\ \A q \in Requests : q # r => req'[q] = req[q]
           /\ person' \in [Staff -> Requests \cup {None}] /\ SameOwner'
           /\ \A q \in Requests : q # r /\ Holder(q) =>
                person'[req[q].staff] = q /\ req[q].staff # req[r].staff
<1>1. RequestsOK' /\ req'[r] = Idle /\ \A q \in Requests : q # r => req'[q] = req[q]
  BY Ended DEF Commit, IInv, Types
<1>2. person \in [Staff -> Requests \cup {None}] /\ person' = [person EXCEPT ![req[r].staff] = None]
  BY DEF Commit, IInv, Types, LocksOK
<1>3. SameOwner'
  BY <1>1, OwnersKept DEF IInv
<1>4. ASSUME NEW q \in Requests, q # r, Holder(q) PROVE person'[req[q].staff] = q /\ req[q].staff # req[r].staff
  <2>1. req[q].staff # req[r].staff
    BY <1>4, OneHolder
  <2>2. req[q] \in Jobs
    BY <1>4, IdleFacts DEF IInv, Types, RequestsOK, Holder
  <2>3. req[q].staff \in Staff /\ person[req[q].staff] = q
    BY <1>4, <2>2 DEF Jobs, IInv, Safe, Owns
  <2> QED
    BY <1>2, <2>1, <2>3
<1> QED
  BY <1>1, <1>2, <1>3, <1>4

\* A meeting is added, or the one whose row is locked is moved.
LEMMA MeetingWritten ==
    ASSUME IInv, NEW r \in Requests, req[r] \in Jobs, Fit(req[r]), Holder(r), Commit(r),
           req[r].op \in {"claim", "book", "move"},
           NEW b \in Ids, NEW x \in BookingRows,
           IF req[r].op = "move" THEN b = req[r].id ELSE booking[b] = None,
           x.staff = req[r].staff, x.slot = req[r].slot, x.start = req[r].start, x.dur = req[r].dur,
           booking' = [booking EXCEPT ![b] = x], UNCHANGED <<slot, now, left>>,
           row' \in [Ids -> Requests \cup {None}],
           \A c \in Ids : row'[c] = row[c] \/ row[c] = r
    PROVE  IInv'
<1> USE DataFacts
<1>1. /\ RequestsOK' /\ req'[r] = Idle /\ \A q \in Requests : q # r => req'[q] = req[q]
      /\ person' \in [Staff -> Requests \cup {None}] /\ SameOwner'
      /\ \A q \in Requests : q # r /\ Holder(q) =>
           person'[req[q].staff] = q /\ req[q].staff # req[r].staff
  BY Committed
<1>2. booking \in [Ids -> BookingRows \cup {None, Deleted}]
  BY DEF IInv, Types, TablesOK
<1>3. /\ booking'[b] = x /\ Exists(x) /\ \A c \in Ids : c # b => booking'[c] = booking[c]
      /\ booking' \in [Ids -> BookingRows \cup {None, Deleted}]
  BY <1>2
<1>4. Types'
  BY <1>1, <1>3 DEF IInv, Types, TablesOK, LocksOK
<1>5. Owns(r) /\ Target(r) /\ TimeFree(r) /\ OnSlot(r)
  BY DEF IInv, Safe
<1>6. ASSUME NEW c \in Ids, c # b, Open(c) PROVE ~Meets(booking[c], x) /\ ~Meets(x, booking[c])
  <2>1. c # req[r].id
    BY <1>6 DEF Fit
  <2>2. ~Meets(booking[c], req[r])
    BY <1>5, <1>6, <2>1 DEF TimeFree
  <2> QED
    BY <2>2 DEF Meets
<1>7. ASSUME NEW q \in Requests, q # r PROVE Safe(q)'
  <2>1. req'[q] = req[q] /\ Safe(q) /\ (Holder(q) => person'[req[q].staff] = q /\ req[q].staff # req[r].staff)
    BY <1>1, <1>7 DEF IInv
  <2>2. req[q] = Idle \/ (req[q] \in Jobs /\ Fit(req[q]))
    BY DEF IInv, Types, RequestsOK
  <2>3. CASE req[q] = Idle
    BY <2>1, <2>3, IdleSafe
  <2>4. CASE req[q] \in Jobs /\ Fit(req[q])
    <3>1. Owns(q)'
      <4>1. CASE req[q].op = "move" /\ req[q].pc # "row"
        <5>1. req[q].id \in Ids /\ row[req[q].id] = q /\ Open(req[q].id)
          BY <2>1, <2>4, <4>1 DEF Safe, Owns, Fit
        <5>2. req[q].id # b
          <6>1. CASE req[r].op = "move"
            BY <1>5, <1>7, <5>1, <6>1 DEF Owns, Holder
          <6>2. CASE req[r].op # "move"
            BY <5>1, <6>2 DEF Open
          <6> QED
            BY <6>1, <6>2
        <5> QED
          BY <1>3, <1>7, <2>1, <5>1, <5>2 DEF Owns, Open, Exists, Holder
      <4>2. CASE ~(req[q].op = "move" /\ req[q].pc # "row")
        BY <2>1, <4>2 DEF Owns, Holder
      <4> QED
        BY <4>1, <4>2
    <3>2. Target(q)'
      <4>1. CASE req[q].op = "move"
        <5>1. /\ req[q].id \in Ids /\ booking[req[q].id] # None
              /\ Exists(booking[req[q].id]) => booking[req[q].id].staff = req[q].staff
          BY <2>1, <2>4, <4>1 DEF Safe, Target, Fit
        <5>2. CASE req[q].id # b
          BY <1>3, <2>1, <4>1, <5>1, <5>2 DEF Target, Exists
        <5>3. CASE req[q].id = b
          <6>1. req[r].op = "move" /\ b = req[r].id
            BY <5>1, <5>3
          <6>2. Open(b)
            BY <1>5, <6>1 DEF Owns, Holder
          <6>3. booking[b].staff = req[r].staff
            BY <1>5, <6>1, <6>2 DEF Target, Open
          <6> QED
            BY <1>3, <2>1, <4>1, <5>1, <5>3, <6>2, <6>3 DEF Target, Open, Exists
        <5> QED
          BY <5>2, <5>3
      <4>2. CASE req[q].op # "move"
        BY <2>1, <4>2 DEF Safe, Target, Exists
      <4> QED
        BY <4>1, <4>2
    <3>3. TimeFree(q)'
      <4>1. ASSUME Holder(q), req[q].op \in {"claim", "book", "move"}, NEW c \in Ids, c # req[q].id, Open(c)'
            PROVE  ~Meets(booking'[c], req[q])
        <5>1. CASE c = b
          BY <1>3, <2>1, <4>1, <5>1 DEF Meets
        <5>2. CASE c # b
          BY <1>3, <2>1, <4>1, <5>2 DEF Safe, TimeFree, Open, Exists
        <5> QED
          BY <5>1, <5>2
      <4> QED
        BY <2>1, <4>1 DEF TimeFree, Holder
    <3>4. SlotFree(q)' /\ OnSlot(q)'
      BY <2>1 DEF Safe, SlotFree, OnSlot, Holder, Unchanged, Exists
    <3>5. NoneAt(q)'
      <4>1. ASSUME Holder(q), req[q].op = "moveSlot" PROVE PointAt(req[q].slot)' = {}
        <5>1. PointAt(req[q].slot) = {} /\ req[q].slot \in Slots /\ req[q].staff # req[r].staff
          BY <2>1, <2>4, <4>1 DEF Safe, NoneAt, Fit
        <5>2. x.slot # req[q].slot
          <6> SUFFICES ASSUME req[r].slot = req[q].slot PROVE FALSE
            OBVIOUS
          <6>1. Unchanged(r, req[r].slot)
            BY <1>5, <5>1 DEF OnSlot, Fit
          <6>2. Exists(slot[req[q].slot]) => slot[req[q].slot].staff = req[q].staff
            BY <2>1, <4>1 DEF Safe, Target
          <6> QED
            BY <5>1, <6>1, <6>2 DEF Unchanged
        <5> QED
          BY <1>3, <2>1, <5>1, <5>2 DEF PointAt, Exists
      <4> QED
        BY <2>1, <4>1 DEF NoneAt, Holder
    <3> QED
      BY <3>1, <3>2, <3>3, <3>4, <3>5 DEF Safe
  <2> QED
    BY <2>2, <2>3, <2>4
<1>8. NoDoubleBooking'
  <2> SUFFICES ASSUME NEW c \in Ids, NEW d \in Ids, c # d, Open(c)', Open(d)'
               PROVE  ~Meets(booking'[c], booking'[d])
    BY DEF NoDoubleBooking
  <2>1. CASE c = b
    BY <1>3, <1>6, <2>1 DEF Open, Exists
  <2>2. CASE d = b
    BY <1>3, <1>6, <2>2 DEF Open, Exists
  <2>3. CASE c # b /\ d # b
    BY <1>3, <2>3 DEF IInv, NoDoubleBooking, Open, Exists
  <2> QED
    BY <2>1, <2>2, <2>3
<1>9. SlotsDisjoint'
  BY DEF IInv, SlotsDisjoint, Exists
<1>10. BookingMatchesSlot'
  <2> SUFFICES ASSUME NEW c \in Ids, Exists(booking'[c]), booking'[c].slot # None
               PROVE  LET p == booking'[c].slot IN
                      /\ Exists(slot[p]) /\ slot[p].staff = booking'[c].staff
                      /\ slot[p].start = booking'[c].start /\ slot[p].dur = booking'[c].dur
    BY DEF BookingMatchesSlot, Exists
  <2>1. CASE c = b
    BY <1>3, <1>5, <2>1 DEF OnSlot, Unchanged, Fit
  <2>2. CASE c # b
    BY <1>3, <2>2 DEF IInv, BookingMatchesSlot, Exists
  <2> QED
    BY <2>1, <2>2
<1> QED
  BY <1>1, <1>4, <1>7, <1>8, <1>9, <1>10, IdleSafe DEF IInv

LEMMA SaveMeetingSafe ==
    ASSUME IInv, NEW r \in Requests, SaveClaim(r) \/ SaveBook(r) \/ SaveMove(r)
    PROVE  IInv'
<1> USE DataFacts
<1>0. RequestsOK /\ TablesOK /\ row \in [Ids -> Requests \cup {None}]
  BY DEF IInv, Types, LocksOK
<1>1. ASSUME NEW p \in Slots \cup {None}, NEW status \in Statuses, req[r] \in Jobs, Fit(req[r]), Holder(r),
             req[r].op \in {"claim", "book"}, req[r].slot = p,
             Insert(r, p, status), Commit(r), UNCHANGED <<slot, now, row, left>>
      PROVE  IInv'
  <2>1. PICK b \in Ids :
          /\ Unused(booking, b)
          /\ booking' = [booking EXCEPT ![b] =
               [staff |-> req[r].staff, slot |-> p, start |-> req[r].start, dur |-> req[r].dur,
                status |-> status]]
    BY <1>1 DEF Insert
  <2>2. PICK x : x = [staff |-> req[r].staff, slot |-> p, start |-> req[r].start, dur |-> req[r].dur,
                      status |-> status]
    OBVIOUS
  <2>3. /\ x \in BookingRows /\ x.staff = req[r].staff /\ x.slot = req[r].slot
        /\ x.start = req[r].start /\ x.dur = req[r].dur
    BY <1>1, <2>2 DEF BookingRows, Jobs, Fit
  <2>4. booking[b] = None /\ booking' = [booking EXCEPT ![b] = x]
    BY <2>1, <2>2 DEF Unused
  <2>5. row' \in [Ids -> Requests \cup {None}] /\ \A c \in Ids : row'[c] = row[c]
    BY <1>0, <1>1
  <2> QED
    BY <1>1, <2>3, <2>4, <2>5, MeetingWritten
<1>2. CASE SaveClaim(r)
  <2>1. req[r] \in Jobs /\ Fit(req[r]) /\ req[r].op = "claim" /\ req[r].pc = "save"
    BY <1>0, <1>2, JobType DEF SaveClaim, Ops
  <2>2. Holder(r) /\ req[r].slot \in Slots \cup {None} /\ "pending" \in Statuses
    BY <2>1 DEF Holder, Jobs, Statuses, OpenStatuses
  <2> QED
    BY <1>1, <1>2, <2>1, <2>2 DEF SaveClaim
<1>3. CASE SaveBook(r)
  <2>1. req[r] \in Jobs /\ Fit(req[r]) /\ req[r].op = "book" /\ req[r].pc = "save"
    BY <1>0, <1>3, JobType DEF SaveBook, Ops
  <2>2. Holder(r) /\ req[r].slot = None /\ "approved" \in Statuses
    BY <2>1 DEF Holder, Fit, Statuses, OpenStatuses
  <2> QED
    BY <1>1, <1>3, <2>1, <2>2 DEF SaveBook
<1>4. CASE SaveMove(r)
  <2>1. req[r] \in Jobs /\ Fit(req[r]) /\ req[r].op = "move" /\ req[r].pc = "save"
    BY <1>0, <1>4, JobType DEF SaveMove, Ops
  <2>2. Holder(r)
    BY <2>1 DEF Holder
  <2>3. PICK b \in Ids : b = req[r].id
    BY <2>1 DEF Fit
  <2>4. row[b] = r /\ Open(b) /\ booking[b].staff = req[r].staff
    BY <2>1, <2>3 DEF IInv, Safe, Owns, Target, Open
  <2>5. booking[b] \in BookingRows
    BY <1>0, <2>4, SMTT(60) DEF TablesOK, Open, Exists
  <2>6. /\ booking' = [booking EXCEPT ![b].start = req[r].start, ![b].dur = req[r].dur,
                                      ![b].slot = req[r].slot, ![b].status = req[r].status]
        /\ Commit(r) /\ row' = [row EXCEPT ![b] = None] /\ UNCHANGED <<slot, now, left>>
    BY <1>4, <2>3 DEF SaveMove
  <2>7. PICK x : x = [booking[b] EXCEPT !.start = req[r].start, !.dur = req[r].dur,
                                        !.slot = req[r].slot, !.status = req[r].status]
    OBVIOUS
  <2>8. /\ x \in BookingRows /\ x.staff = req[r].staff /\ x.slot = req[r].slot
        /\ x.start = req[r].start /\ x.dur = req[r].dur
    BY <2>1, <2>4, <2>5, <2>7, ZenonT(60) DEF BookingRows, Jobs, Fit, Statuses
  <2>9. booking' = [booking EXCEPT ![b] = x]
    <3>1. booking \in [Ids -> BookingRows \cup {None, Deleted}]
      BY <1>0 DEF TablesOK
    <3> QED
      BY <2>6, <2>7, <3>1
  <2>10. row' \in [Ids -> Requests \cup {None}] /\ \A c \in Ids : row'[c] = row[c] \/ row[c] = r
    BY <1>0, <2>4, <2>6
  <2>11. /\ req[r].op \in {"claim", "book", "move"}
         /\ IF req[r].op = "move" THEN b = req[r].id ELSE booking[b] = None
    BY <2>1, <2>3
  <2>12. UNCHANGED <<slot, now, left>> /\ Commit(r)
    BY <2>6
  <2> QED
    BY <2>1, <2>2, <2>8, <2>9, <2>10, <2>11, <2>12, MeetingWritten
<1> QED
  BY <1>2, <1>3, <1>4

\* Published times are added, or the one nobody points at is moved.
LEMMA SlotsWritten ==
    ASSUME IInv, NEW r \in Requests, req[r] \in Jobs, Fit(req[r]), Holder(r), Commit(r),
           req[r].op \in {"publish", "repeat", "moveSlot"},
           UNCHANGED <<booking, now, row, left>>,
           slot' \in [Slots -> Rows \cup {None, Deleted}],
           NEW P \in SUBSET Slots, \A p \in Slots \ P : slot'[p] = slot[p],
           \A p \in P : /\ slot'[p] \in Rows /\ slot'[p].staff = req[r].staff
                        /\ slot[p] = None \/ (req[r].op = "moveSlot" /\ p = req[r].slot),
           \A p \in P, other \in Slots :
               p # other /\ Exists(slot'[other]) =>
                   ~Meets(slot'[p], slot'[other]) /\ ~Meets(slot'[other], slot'[p])
    PROVE  IInv'
<1> USE DataFacts
<1>1. /\ RequestsOK' /\ req'[r] = Idle /\ \A q \in Requests : q # r => req'[q] = req[q]
      /\ person' \in [Staff -> Requests \cup {None}] /\ SameOwner'
      /\ \A q \in Requests : q # r /\ Holder(q) =>
           person'[req[q].staff] = q /\ req[q].staff # req[r].staff
  BY Committed
<1>2. Types'
  BY <1>1 DEF IInv, Types, TablesOK, LocksOK
<1>3. Target(r) /\ NoneAt(r)
  BY DEF IInv, Safe
<1>4. ASSUME NEW q \in Requests, q # r PROVE Safe(q)'
  <2>1. req'[q] = req[q] /\ Safe(q) /\ (Holder(q) => person'[req[q].staff] = q /\ req[q].staff # req[r].staff)
    BY <1>1, <1>4 DEF IInv
  <2>2. req[q] = Idle \/ (req[q] \in Jobs /\ Fit(req[q]))
    BY DEF IInv, Types, RequestsOK
  <2>3. CASE req[q] = Idle
    BY <2>1, <2>3, IdleSafe
  <2>4. CASE req[q] \in Jobs /\ Fit(req[q])
    <3>1. Owns(q)' /\ TimeFree(q)' /\ NoneAt(q)'
      BY <2>1 DEF Safe, Owns, TimeFree, NoneAt, Holder, Open, Exists, PointAt
    <3>2. Target(q)'
      <4>1. CASE req[q].op = "moveSlot"
        <5>1. /\ req[q].slot \in Slots /\ slot[req[q].slot] # None
              /\ Exists(slot[req[q].slot]) => slot[req[q].slot].staff = req[q].staff
          BY <2>1, <2>4, <4>1 DEF Safe, Target, Fit
        <5>2. CASE req[q].slot \in P
          <6>1. req[r].op = "moveSlot" /\ req[q].slot = req[r].slot
            BY <5>1, <5>2
          <6>2. req[q].staff = req[r].staff
            BY <4>1, <6>1 DEF IInv, SameOwner
          <6> QED
            BY <2>1, <4>1, <5>2, <6>2 DEF Target, Exists
        <5>3. CASE req[q].slot \notin P
          BY <2>1, <4>1, <5>1, <5>3 DEF Target, Exists
        <5> QED
          BY <5>2, <5>3
      <4>2. CASE req[q].op # "moveSlot"
        BY <2>1, <4>2 DEF Safe, Target, Exists
      <4> QED
        BY <4>1, <4>2
    <3>3. SlotFree(q)'
      <4>1. ASSUME Holder(q), req[q].op \in {"publish", "moveSlot"}, NEW p \in Slots, p # req[q].slot, Exists(slot'[p])
            PROVE  ~Meets(slot'[p], req[q])
        <5>1. CASE p \in P
          BY <2>1, <4>1, <5>1 DEF Meets
        <5>2. CASE p \notin P
          BY <2>1, <4>1, <5>2 DEF Safe, SlotFree
        <5> QED
          BY <5>1, <5>2
      <4> QED
        BY <2>1, <4>1 DEF SlotFree, Holder, Exists
    <3>4. OnSlot(q)'
      <4>1. ASSUME Holder(q), req[q].op \in {"claim", "move"}, req[q].slot # None
            PROVE  slot'[req[q].slot] = slot[req[q].slot] /\ Unchanged(q, req[q].slot)
        <5>1. Unchanged(q, req[q].slot) /\ req[q].slot \in Slots
          BY <2>1, <2>4, <4>1 DEF Safe, OnSlot, Jobs
        <5>2. req[q].slot \notin P
          BY <1>3, <2>1, <4>1, <5>1 DEF Unchanged, Target
        <5> QED
          BY <5>1, <5>2
      <4> QED
        BY <2>1, <4>1 DEF OnSlot, Holder, Unchanged, Exists
    <3> QED
      BY <3>1, <3>2, <3>3, <3>4 DEF Safe
  <2> QED
    BY <2>2, <2>3, <2>4
<1>5. NoDoubleBooking'
  BY DEF IInv, NoDoubleBooking, Open, Exists
<1>6. SlotsDisjoint'
  <2> SUFFICES ASSUME NEW p \in Slots, NEW q \in Slots, p # q, Exists(slot'[p]), Exists(slot'[q])
               PROVE  ~Meets(slot'[p], slot'[q])
    BY DEF SlotsDisjoint, Exists
  <2>1. CASE p \in P \/ q \in P
    BY <2>1
  <2>2. CASE p \notin P /\ q \notin P
    BY <2>2 DEF IInv, SlotsDisjoint
  <2> QED
    BY <2>1, <2>2
<1>7. BookingMatchesSlot'
  <2> SUFFICES ASSUME NEW b \in Ids, Exists(booking[b]), booking[b].slot # None
               PROVE  LET p == booking[b].slot IN
                      /\ Exists(slot'[p]) /\ slot'[p].staff = booking[b].staff
                      /\ slot'[p].start = booking[b].start /\ slot'[p].dur = booking[b].dur
    BY DEF BookingMatchesSlot, Exists
  <2>1. booking[b] \in BookingRows
    BY DEF IInv, Types, TablesOK, Exists
  <2>2. PICK p \in Slots : p = booking[b].slot
    BY <2>1 DEF BookingRows
  <2>3. /\ Exists(slot[p]) /\ slot[p].staff = booking[b].staff
        /\ slot[p].start = booking[b].start /\ slot[p].dur = booking[b].dur
    BY <2>2 DEF IInv, BookingMatchesSlot
  <2>4. p \notin P
    BY <1>3, <2>2, <2>3 DEF NoneAt, PointAt
  <2> QED
    BY <2>2, <2>3, <2>4
<1> QED
  BY <1>1, <1>2, <1>4, <1>5, <1>6, <1>7, IdleSafe DEF IInv

LEMMA SaveSlotSafe ==
    ASSUME IInv, NEW r \in Requests, SavePublish(r) \/ SaveMoveSlot(r) \/ SaveRepeat(r)
    PROVE  IInv'
<1> USE DataFacts
<1>0. RequestsOK /\ TablesOK /\ slot \in [Slots -> Rows \cup {None, Deleted}]
  BY DEF IInv, Types, TablesOK
<1>1. ASSUME NEW p \in Slots, req[r] \in Jobs, Fit(req[r]), Holder(r), Commit(r),
             req[r].op \in {"publish", "moveSlot"}, UNCHANGED <<booking, now, row, left>>,
             IF req[r].op = "moveSlot" THEN p = req[r].slot ELSE slot[p] = None,
             slot' = [slot EXCEPT ![p] =
                [staff |-> req[r].staff, start |-> req[r].start, dur |-> req[r].dur]]
      PROVE  IInv'
  <2>1. PICK x : x = [staff |-> req[r].staff, start |-> req[r].start, dur |-> req[r].dur]
    OBVIOUS
  <2>2. x \in Rows /\ x.staff = req[r].staff /\ x.start = req[r].start /\ x.dur = req[r].dur
    BY <1>1, <2>1 DEF Rows, Jobs, Fit
  <2>3. slot'[p] = x /\ \A q \in Slots \ {p} : slot'[q] = slot[q]
    BY <1>0, <1>1, <2>1
  <2>4. slot' \in [Slots -> Rows \cup {None, Deleted}]
    BY <1>0, <1>1, <2>1, <2>2
  <2>5. ASSUME NEW q \in Slots, q # p, Exists(slot'[q])
        PROVE  ~Meets(slot'[p], slot'[q]) /\ ~Meets(slot'[q], slot'[p])
    <3>1. q # req[r].slot
      BY <1>1, <2>5 DEF Fit
    <3>2. ~Meets(slot[q], req[r])
      BY <1>1, <2>3, <2>5, <3>1 DEF IInv, Safe, SlotFree
    <3> QED
      BY <2>2, <2>3, <2>5, <3>2 DEF Meets
  <2>6. \A q \in {p} : /\ slot'[q] \in Rows /\ slot'[q].staff = req[r].staff
                       /\ slot[q] = None \/ (req[r].op = "moveSlot" /\ q = req[r].slot)
    BY <1>1, <2>2, <2>3
  <2>7. PICK P \in SUBSET Slots : P = {p}
    OBVIOUS
  <2>8. \A q \in P, other \in Slots :
          q # other /\ Exists(slot'[other]) =>
              ~Meets(slot'[q], slot'[other]) /\ ~Meets(slot'[other], slot'[q])
    BY <2>5, <2>7
  <2> QED
    BY <1>1, <2>3, <2>4, <2>6, <2>7, <2>8, SlotsWritten
<1>2. CASE SavePublish(r)
  <2>1. req[r] \in Jobs /\ Fit(req[r]) /\ req[r].op = "publish" /\ req[r].pc = "save"
    BY <1>0, <1>2, JobType DEF SavePublish, Ops
  <2>2. Holder(r)
    BY <2>1 DEF Holder
  <2> QED
    BY <1>1, <1>2, <2>1, <2>2 DEF SavePublish, Unused
<1>3. CASE SaveMoveSlot(r)
  <2>1. req[r] \in Jobs /\ Fit(req[r]) /\ req[r].op = "moveSlot" /\ req[r].pc = "save"
    BY <1>0, <1>3, JobType DEF SaveMoveSlot, Ops
  <2>2. Holder(r) /\ req[r].slot \in Slots
    BY <2>1 DEF Holder, Fit
  <2> QED
    BY <1>1, <1>3, <2>1, <2>2 DEF SaveMoveSlot
<1>4. CASE SaveRepeat(r)
  <2>1. req[r] \in Jobs /\ Fit(req[r]) /\ req[r].op = "repeat" /\ req[r].pc = "save"
    BY <1>0, <1>4, JobType, ZenonT(60) DEF SaveRepeat, Ops
  <2>2. Holder(r)
    BY <2>1 DEF Holder
  <2> DEFINE free == {x \in req[r].starts :
                        /\ ~Published(req[r].staff, x, req[r].dur, None)
                        /\ ~Busy(req[r].staff, x, req[r].dur, None)}
  <2>3. PICK ids \in [free -> {p \in Slots : slot[p] = None}] :
          /\ \A x, y \in free : x < y => ids[x] < ids[y]
          /\ slot' = [p \in Slots |->
               IF \E x \in free : ids[x] = p
               THEN [staff |-> req[r].staff, start |-> CHOOSE x \in free : ids[x] = p, dur |-> req[r].dur]
               ELSE slot[p]]
    BY <1>4, ZenonT(60) DEF SaveRepeat
  <2>4. Commit(r) /\ UNCHANGED <<booking, now, row, left>>
    BY <1>4, ZenonT(60) DEF SaveRepeat
  <2>5. PICK P \in SUBSET Slots : P = {p \in Slots : \E x \in free : ids[x] = p}
    OBVIOUS
  <2>6. \A p \in Slots \ P : slot'[p] = slot[p]
    BY <2>3, <2>5
  <2>7. ASSUME NEW p \in P
        PROVE  \E x \in free : /\ ids[x] = p /\ slot[p] = None
                               /\ slot'[p] = [staff |-> req[r].staff, start |-> x, dur |-> req[r].dur]
    BY <2>3, <2>5, <2>7
  <2>8. free \subseteq req[r].starts /\ free \subseteq Times /\ req[r].dur \in Durations
    BY <2>1 DEF Jobs, Fit
  <2>9. ASSUME NEW p \in P PROVE slot'[p] \in Rows /\ slot'[p].staff = req[r].staff /\ slot[p] = None
    <3> HIDE DEF free
    <3>1. PICK x \in free : /\ ids[x] = p /\ slot[p] = None
                            /\ slot'[p] = [staff |-> req[r].staff, start |-> x, dur |-> req[r].dur]
      BY <2>7
    <3>2. x \in Times /\ req[r].staff \in Staff
      BY <2>1, <2>8, <3>1 DEF Jobs
    <3> QED
      BY <2>8, <3>1, <3>2 DEF Rows
  <2>10. slot' \in [Slots -> Rows \cup {None, Deleted}]
    <3> HIDE DEF free
    <3>1. \A p \in Slots : slot'[p] \in Rows \cup {None, Deleted}
      BY <1>0, <2>6, <2>9
    <3>2. slot' = [p \in Slots |-> slot'[p]]
      BY <2>3
    <3> QED
      BY <3>1, <3>2
  <2>11. ASSUME NEW p \in P, NEW other \in Slots, p # other, Exists(slot'[other])
         PROVE  ~Meets(slot'[p], slot'[other]) /\ ~Meets(slot'[other], slot'[p])
    <3>1. PICK x \in free : ids[x] = p /\ slot'[p] = [staff |-> req[r].staff, start |-> x, dur |-> req[r].dur]
      BY <2>7, SMTT(60)
    <3>2. x \in Times /\ req[r].dur \in Nat /\ x \in req[r].starts
      BY <2>8, <3>1
    <3>3. CASE other \in P
      <4>1. PICK y \in free :
              ids[y] = other /\ slot'[other] = [staff |-> req[r].staff, start |-> y, dur |-> req[r].dur]
        BY <2>7, <3>3
      <4>2. y \in Times /\ y \in req[r].starts /\ x # y
        BY <2>8, <2>11, <3>1, <4>1
      <4>3. x + req[r].dur <= y \/ y + req[r].dur <= x
        <5>1. x < y \/ y < x
          BY <3>2, <4>2 DEF Times
        <5> QED
          BY <2>1, <3>2, <4>2, <5>1 DEF Fit
      <4> QED
        BY <3>1, <3>2, <4>1, <4>2, <4>3 DEF Meets, Times
    <3>4. CASE other \notin P
      <4>1. slot'[other] = slot[other] /\ Exists(slot[other])
        BY <2>6, <2>11, <3>4
      <4>2. ~Published(req[r].staff, x, req[r].dur, None)
        BY <3>1
      <4>3. PICK z : z = slot'[p]
        OBVIOUS
      <4>4. z.staff = req[r].staff /\ z.start = x /\ z.dur = req[r].dur
        BY <3>1, <4>3
      <4>5. ~Meets(slot[other], z)
        BY <1>0, <2>8, <3>2, <4>1, <4>2, <4>4, NotPublished, SMTT(60)
      <4> QED
        BY <4>1, <4>3, <4>5 DEF Meets
    <3> QED
      BY <3>3, <3>4
  <2> HIDE DEF free
  <2>12. req[r].op \in {"publish", "repeat", "moveSlot"}
    BY <2>1
  <2>13. /\ \A p \in P : /\ slot'[p] \in Rows /\ slot'[p].staff = req[r].staff
                         /\ slot[p] = None \/ (req[r].op = "moveSlot" /\ p = req[r].slot)
         /\ \A p \in P, other \in Slots :
               p # other /\ Exists(slot'[other]) =>
                   ~Meets(slot'[p], slot'[other]) /\ ~Meets(slot'[other], slot'[p])
    BY <2>9, <2>11
  <2> QED
    BY <2>1, <2>2, <2>4, <2>6, <2>10, <2>12, <2>13, SlotsWritten, SMTT(60)
<1> QED
  BY <1>2, <1>3, <1>4

\* A step that gives time back: meetings close, are deleted or lose their slot,
\* and a slot is deleted that no request relies on.
LEMMA Shrunk ==
    ASSUME IInv, Types', SameOwner', UNCHANGED <<person, row>>,
           \A q \in Requests : req'[q] = req[q] \/ req'[q] = Idle,
           \A b \in Ids :
               /\ booking[b] # None => booking'[b] # None
               /\ row[b] # None => booking'[b] = booking[b]
               /\ Exists(booking'[b]) =>
                    /\ Exists(booking[b]) /\ booking'[b].staff = booking[b].staff
                    /\ booking'[b].start = booking[b].start /\ booking'[b].dur = booking[b].dur
                    /\ booking'[b].slot = booking[b].slot \/ booking'[b].slot = None
                    /\ booking'[b].status \in OpenStatuses => booking[b].status \in OpenStatuses,
           \A p \in Slots :
               \/ slot'[p] = slot[p]
               \/ /\ slot'[p] = Deleted /\ ~SlotLocked(p)
                  /\ \A b \in Ids : Exists(booking'[b]) => booking'[b].slot # p
    PROVE  IInv'
<1> USE DataFacts
<1>1. ASSUME NEW q \in Requests PROVE Safe(q)'
  <2>1. Safe(q) /\ (req[q] = Idle \/ (req[q] \in Jobs /\ Fit(req[q])))
    BY DEF IInv, Types, RequestsOK
  <2>2. CASE req'[q] = Idle
    BY <2>2, IdleSafe
  <2>3. CASE req'[q] = req[q] /\ req[q] \in Jobs /\ Fit(req[q])
    <3>1. Owns(q)'
      BY <2>1, <2>3 DEF Safe, Owns, Holder, Open, Exists, Fit
    <3>2. Target(q)'
      BY <2>1, <2>3 DEF Safe, Target, Exists, Fit
    <3>3. TimeFree(q)'
      <4>1. ASSUME Holder(q), req[q].op \in {"claim", "book", "move"},
                   NEW b \in Ids, b # req[q].id, Exists(booking'[b]), booking'[b].status \in OpenStatuses
            PROVE  ~Meets(booking'[b], req[q])
        BY <2>1, <4>1 DEF Safe, TimeFree, Open, Meets
      <4> QED
        BY <2>3, <4>1 DEF TimeFree, Holder, Open, Exists
    <3>4. SlotFree(q)'
      BY <2>1, <2>3 DEF Safe, SlotFree, Holder, Exists
    <3>5. OnSlot(q)'
      <4>1. ASSUME Holder(q), req[q].op \in {"claim", "move"}, req[q].slot # None
            PROVE  slot'[req[q].slot] = slot[req[q].slot] /\ Unchanged(q, req[q].slot)
        <5>1. req[q].slot \in Slots /\ Unchanged(q, req[q].slot)
          BY <2>1, <2>3, <4>1 DEF Safe, OnSlot, Jobs
        <5>2. SlotLocked(req[q].slot)
          BY <4>1 DEF SlotLocked, Holder
        <5> QED
          BY <5>1, <5>2
      <4> QED
        BY <2>3, <4>1 DEF OnSlot, Holder, Unchanged, Exists
    <3>6. NoneAt(q)'
      <4>1. ASSUME Holder(q), req[q].op = "moveSlot", NEW b \in Ids, Exists(booking'[b])
            PROVE  booking'[b].slot # req[q].slot
        BY <2>1, <2>3, <4>1 DEF Safe, NoneAt, PointAt, Fit
      <4> QED
        BY <2>3, <4>1 DEF NoneAt, Holder, PointAt, Exists
    <3> QED
      BY <3>1, <3>2, <3>3, <3>4, <3>5, <3>6 DEF Safe
  <2> QED
    BY <2>1, <2>2, <2>3
<1>2. NoDoubleBooking'
  <2> SUFFICES ASSUME NEW c \in Ids, NEW d \in Ids, c # d, Open(c)', Open(d)'
               PROVE  ~Meets(booking'[c], booking'[d])
    BY DEF NoDoubleBooking
  <2>1. Open(c) /\ Open(d)
    BY DEF Open, Exists
  <2>2. ~Meets(booking[c], booking[d])
    BY <2>1 DEF IInv, NoDoubleBooking
  <2> QED
    BY <2>2 DEF Meets, Open, Exists
<1>3. SlotsDisjoint'
  BY DEF IInv, SlotsDisjoint, Exists
<1>4. BookingMatchesSlot'
  <2> SUFFICES ASSUME NEW b \in Ids, Exists(booking'[b]), booking'[b].slot # None
               PROVE  LET p == booking'[b].slot IN
                      /\ Exists(slot'[p]) /\ slot'[p].staff = booking'[b].staff
                      /\ slot'[p].start = booking'[b].start /\ slot'[p].dur = booking'[b].dur
    BY DEF BookingMatchesSlot, Exists
  <2>1. Exists(booking[b]) /\ booking[b] \in BookingRows /\ booking'[b].slot = booking[b].slot
    BY DEF IInv, Types, TablesOK, Exists
  <2>2. PICK p \in Slots : p = booking[b].slot
    BY <2>1 DEF BookingRows
  <2>3. /\ Exists(slot[p]) /\ slot[p].staff = booking[b].staff
        /\ slot[p].start = booking[b].start /\ slot[p].dur = booking[b].dur
    BY <2>1, <2>2 DEF IInv, BookingMatchesSlot
  <2>4. slot'[p] = slot[p]
    BY <2>1, <2>2
  <2> QED
    BY <2>1, <2>2, <2>3, <2>4
<1> QED
  BY <1>1, <1>2, <1>3, <1>4 DEF IInv

LEMMA DropSlotSafe == ASSUME IInv, NEW r \in Requests, DropSlot(r) PROVE IInv'
<1> USE DataFacts
<1>0. /\ RequestsOK /\ booking \in [Ids -> BookingRows \cup {None, Deleted}]
      /\ slot \in [Slots -> Rows \cup {None, Deleted}] /\ now \in 0..MaxTime
  BY DEF IInv, Types, TablesOK
<1>1. req[r] \in Jobs /\ Fit(req[r]) /\ req[r].op = "dropSlot" /\ req[r].pc = "save"
  BY <1>0, JobType DEF DropSlot, Ops
<1>2. PICK p \in Slots : p = req[r].slot
  BY <1>1 DEF Fit
<1>3. /\ ~SlotLocked(p) /\ \A b \in PointAt(p) : row[b] = None
      /\ End(r) /\ UNCHANGED <<now, person, row, left>>
  BY <1>2 DEF DropSlot
<1>4. RequestsOK' /\ \A q \in Requests : req'[q] = req[q] \/ req'[q] = Idle
  BY <1>0, <1>3, Ended
<1>5. SameOwner'
  BY <1>4, OwnersKept DEF IInv
<1>6. CASE /\ slot' = [slot EXCEPT ![p] = Deleted]
           /\ booking' = [b \in Ids |-> IF b \in PointAt(p) THEN [booking[b] EXCEPT !.slot = None]
                                        ELSE booking[b]]
  <2>1. ASSUME NEW b \in PointAt(p)
        PROVE  /\ b \in Ids /\ booking[b] \in BookingRows /\ booking'[b] \in BookingRows
               /\ booking'[b].slot = None /\ booking'[b].staff = booking[b].staff
               /\ booking'[b].start = booking[b].start /\ booking'[b].dur = booking[b].dur
               /\ booking'[b].status = booking[b].status
    <3>1. b \in Ids /\ booking[b] \in BookingRows /\ booking'[b] = [booking[b] EXCEPT !.slot = None]
      BY <1>0, <1>6, <2>1 DEF PointAt, Exists
    <3> QED
      BY <3>1 DEF BookingRows
  <2>2. ASSUME NEW b \in Ids \ PointAt(p)
        PROVE  booking'[b] = booking[b] /\ (Exists(booking[b]) => booking[b].slot # p)
    BY <1>6, <2>2 DEF PointAt
  <2>3. booking' \in [Ids -> BookingRows \cup {None, Deleted}]
    <3>1. \A b \in Ids : booking'[b] \in BookingRows \cup {None, Deleted}
      BY <1>0, <2>1, <2>2
    <3>2. booking' = [b \in Ids |-> booking'[b]]
      BY <1>6
    <3> QED
      BY <3>1, <3>2
  <2>4. slot' \in [Slots -> Rows \cup {None, Deleted}]
    BY <1>0, <1>6
  <2>5. Types'
    BY <1>0, <1>3, <1>4, <2>3, <2>4 DEF IInv, Types, TablesOK, LocksOK
  <2>6. ASSUME NEW b \in Ids
        PROVE  /\ booking[b] # None => booking'[b] # None
               /\ row[b] # None => booking'[b] = booking[b]
               /\ Exists(booking'[b]) =>
                    /\ Exists(booking[b]) /\ booking'[b].staff = booking[b].staff
                    /\ booking'[b].start = booking[b].start /\ booking'[b].dur = booking[b].dur
                    /\ booking'[b].slot = booking[b].slot \/ booking'[b].slot = None
                    /\ booking'[b].status \in OpenStatuses => booking[b].status \in OpenStatuses
    <3>1. CASE b \in PointAt(p)
      BY <1>3, <2>1, <3>1 DEF Exists
    <3>2. CASE b \notin PointAt(p)
      BY <2>2, <3>2
    <3> QED
      BY <3>1, <3>2
  <2>7. \A q \in Slots : \/ slot'[q] = slot[q]
                         \/ /\ slot'[q] = Deleted /\ ~SlotLocked(q)
                            /\ \A b \in Ids : Exists(booking'[b]) => booking'[b].slot # q
    <3>1. \A b \in Ids : Exists(booking'[b]) => booking'[b].slot # p
      BY <2>1, <2>2
    <3>2. slot'[p] = Deleted /\ \A q \in Slots : q # p => slot'[q] = slot[q]
      BY <1>0, <1>6
    <3> QED
      BY <1>3, <3>1, <3>2
  <2> QED
    BY <1>3, <1>4, <1>5, <2>5, <2>6, <2>7, Shrunk
<1>7. CASE UNCHANGED <<slot, booking>>
  <2>1. Types'
    BY <1>0, <1>3, <1>4, <1>7 DEF IInv, Types, TablesOK, LocksOK
  <2> QED
    BY <1>3, <1>4, <1>5, <1>7, <2>1, Shrunk
<1> QED
  BY <1>2, <1>6, <1>7 DEF DropSlot

LEMMA DestroySafe == ASSUME IInv, NEW r \in Requests, Destroy(r) PROVE IInv'
<1> USE DataFacts
<1>0. RequestsOK /\ booking \in [Ids -> BookingRows \cup {None, Deleted}]
  BY DEF IInv, Types, TablesOK
<1>1. req[r] \in Jobs /\ Fit(req[r]) /\ req[r].op = "destroy" /\ req[r].pc = "save"
  BY <1>0, JobType DEF Destroy, Ops
<1>2. PICK b \in Ids : b = req[r].id
  BY <1>1 DEF Fit
<1>3. /\ row[b] = None /\ booking' = [booking EXCEPT ![b] = Deleted] /\ End(r)
      /\ UNCHANGED <<slot, now, person, row, left>>
  BY <1>2 DEF Destroy
<1>4. RequestsOK' /\ \A q \in Requests : req'[q] = req[q] \/ req'[q] = Idle
  BY <1>0, <1>3, Ended
<1>5. SameOwner'
  BY <1>4, OwnersKept DEF IInv
<1>6. booking'[b] = Deleted /\ \A c \in Ids : c # b => booking'[c] = booking[c]
  BY <1>0, <1>3
<1>7. Types'
  BY <1>0, <1>3, <1>4 DEF IInv, Types, TablesOK, LocksOK
<1> QED
  BY <1>3, <1>4, <1>5, <1>6, <1>7, Shrunk

LEMMA DecideSafe == ASSUME IInv, NEW b \in Ids, Decide(b) PROVE IInv'
<1> USE DataFacts
<1>0. booking \in [Ids -> BookingRows \cup {None, Deleted}]
  BY DEF IInv, Types, TablesOK
<1>1. PICK status \in Statuses : SetStatus(b, status) /\ Open(b)
  BY DEF Decide, Approve, Reject, Complete, Cancel, Is, Open, Statuses, OpenStatuses
<1>2. /\ row[b] = None /\ booking' = [booking EXCEPT ![b].status = status]
      /\ UNCHANGED <<slot, now, req, person, row, left>>
  BY <1>1 DEF SetStatus
<1>3. booking[b] \in BookingRows
  BY <1>0, <1>1 DEF Open, Exists
<1>4. booking'[b] = [booking[b] EXCEPT !.status = status] /\ \A c \in Ids : c # b => booking'[c] = booking[c]
  BY <1>0, <1>2
<1>5. /\ booking'[b] \in BookingRows /\ booking'[b].slot = booking[b].slot
      /\ booking'[b].staff = booking[b].staff
      /\ booking'[b].start = booking[b].start /\ booking'[b].dur = booking[b].dur
  BY <1>3, <1>4 DEF BookingRows
<1>6. booking' \in [Ids -> BookingRows \cup {None, Deleted}]
  BY <1>0, <1>2, <1>4, <1>5
<1>7. Types' /\ SameOwner'
  BY <1>2, <1>6 DEF IInv, Types, TablesOK, LocksOK, RequestsOK, SameOwner
<1>8. booking[b].status \in OpenStatuses
  BY <1>1 DEF Open
<1> QED
  BY <1>2, <1>3, <1>4, <1>5, <1>7, <1>8, Shrunk

LEMMA TickSafe == ASSUME IInv, Tick PROVE IInv'
<1>1. Types' /\ SameOwner'
  BY BookingConstants DEF Tick, IInv, Types, TablesOK, LocksOK, RequestsOK, SameOwner
<1> QED
  BY <1>1, Shrunk DEF Tick

(***************************************************************************)
(* The invariant of the specification, and what it gives.                  *)
(***************************************************************************)
LEMMA InitSafe == Init => IInv
<1> SUFFICES ASSUME Init PROVE IInv
  OBVIOUS
<1> USE DataFacts
<1>1. \A b \in Ids : ~Exists(booking[b])
  BY DEF Init, Exists
<1>2. \A p \in Slots : ~Exists(slot[p])
  BY DEF Init, Exists
<1>3. \A r \in Requests : req[r] = Idle
  BY DEF Init
<1>4. Types
  BY <1>3, IdleFacts, BookingConstants DEF Init, Types, TablesOK, LocksOK, RequestsOK
<1>5. SameOwner
  BY <1>3, IdleFacts DEF SameOwner
<1>6. \A r \in Requests : Safe(r)
  BY <1>3, IdleFacts DEF Safe, Owns, Target, TimeFree, SlotFree, OnSlot, NoneAt, Holder
<1>7. NoDoubleBooking /\ SlotsDisjoint /\ BookingMatchesSlot
  BY <1>1, <1>2 DEF NoDoubleBooking, SlotsDisjoint, BookingMatchesSlot, Open
<1> QED
  BY <1>4, <1>5, <1>6, <1>7 DEF IInv

LEMMA NextSafe == IInv /\ [Next]_vars => IInv'
<1> SUFFICES ASSUME IInv, [Next]_vars PROVE IInv'
  OBVIOUS
<1>1. CASE UNCHANGED vars
  <2>1. Types' /\ SameOwner'
    BY <1>1 DEF IInv, Types, TablesOK, LocksOK, RequestsOK, SameOwner, vars
  <2> QED
    BY <1>1, <2>1, Shrunk DEF vars
<1>2. ASSUME NEW r \in Requests, Arrive(r) PROVE IInv'
  BY <1>2, ArriveSafe
<1>3. ASSUME NEW r \in Requests, Wait(r) PROVE IInv'
  BY <1>3, WaitSafe
<1>4. ASSUME NEW r \in Requests, Save(r) PROVE IInv'
  BY <1>4, SaveMeetingSafe, SaveSlotSafe, DropSlotSafe, DestroySafe DEF Save
<1>5. ASSUME NEW b \in Ids, Decide(b) PROVE IInv'
  BY <1>5, DecideSafe
<1>6. CASE Tick
  BY <1>6, TickSafe
<1> QED
  BY <1>1, <1>2, <1>3, <1>4, <1>5, <1>6 DEF Next

\* The invariant the following theorems use: the tables, the locks and what each
\* request of BookingViewSet knows between its checks and its commit.
THEOREM Invariance == Spec => []IInv
<1> QED
  BY InitSafe, NextSafe, PTL DEF Spec

\* The rows, the requests and the locks keep their types.
THEOREM TypeCorrect == Spec => []TypeOK
<1>1. IInv => TypeOK
  <2> SUFFICES ASSUME IInv PROVE TypeOK
    OBVIOUS
  <2>1. /\ booking \in [Ids -> BookingRows \cup {None, Deleted}]
        /\ slot \in [Slots -> Rows \cup {None, Deleted}] /\ now \in 0..MaxTime
        /\ person \in [Staff -> Requests \cup {None}] /\ row \in [Ids -> Requests \cup {None}]
        /\ req \in [Requests -> {Idle} \cup Jobs] /\ left \in Script
    BY DEF IInv, Types, TablesOK, LocksOK, RequestsOK
  <2>2. ASSUME NEW b \in Ids, Exists(booking[b]) PROVE booking[b] \in BookingRows
    BY <2>1, <2>2 DEF Exists
  <2> QED
    BY <2>1, <2>2 DEF TypeOK, BookingRows
<1> QED
  BY <1>1, Invariance, PTL

\* However claims, bookings and reschedules interleave, no staff member has two
\* open meetings at the same time: the check BookingViewSet makes under the
\* per-staff lock still holds when it writes.
THEOREM MeetingsStayDisjoint == Spec => []NoDoubleBooking
<1> QED
  BY Invariance, PTL DEF IInv

\* Published times of one staff member never overlap, whether availability adds,
\* repeats or moves them.
THEOREM SlotsStayDisjoint == Spec => []SlotsDisjoint
<1> QED
  BY Invariance, PTL DEF IInv

\* A meeting that points at a published time has that time: availability PATCH
\* refuses to move a time with meetings, and a claim checks again under the lock.
THEOREM MeetingsMatchTheirSlots == Spec => []BookingMatchesSlot
<1> QED
  BY Invariance, PTL DEF IInv

(***************************************************************************)
(* What a step does to the meetings: it writes one of them, which is new or *)
(* was open, or it changes none but the slots they point at.               *)
(***************************************************************************)
SameTime(b) ==
    /\ Exists(booking[b]) <=> Exists(booking'[b])
    /\ Exists(booking[b]) =>
         /\ booking'[b].staff = booking[b].staff /\ booking'[b].start = booking[b].start
         /\ booking'[b].dur = booking[b].dur /\ booking'[b].status = booking[b].status
OneWritten(b) ==
    /\ \A c \in Ids : c # b => booking'[c] = booking[c]
    /\ Exists(booking'[b]) =>
         booking[b] = None \/ (Open(b) /\ booking'[b].staff = booking[b].staff)

LEMMA StepOnMeetings ==
    ASSUME IInv, [Next]_vars
    PROVE  (\A b \in Ids : SameTime(b)) \/ (\E b \in Ids : OneWritten(b))
<1> USE DataFacts
<1>0. RequestsOK /\ booking \in [Ids -> BookingRows \cup {None, Deleted}]
  BY DEF IInv, Types, TablesOK
<1>1. ASSUME UNCHANGED booking PROVE \A b \in Ids : SameTime(b)
  BY <1>1 DEF SameTime, Exists
<1>2. ASSUME NEW r \in Requests, Arrive(r) \/ Wait(r) PROVE UNCHANGED booking
  BY <1>2 DEF Arrive, BeginClaim, BeginBook, BeginPublish, BeginRepeat, BeginMoveSlot, BeginDropSlot,
              BeginMove, BeginDestroy, Wait, EnterClaim, EnterBook, EnterPublish, EnterRepeat,
              EnterMoveSlot, LockMove, EnterMove
<1>3. ASSUME NEW r \in Requests, Save(r)
      PROVE  (\A b \in Ids : SameTime(b)) \/ (\E b \in Ids : OneWritten(b))
  <2>1. CASE SavePublish(r) \/ SaveRepeat(r) \/ SaveMoveSlot(r)
    BY <1>1, <2>1 DEF SavePublish, SaveRepeat, SaveMoveSlot
  <2>2. CASE SaveClaim(r) \/ SaveBook(r)
    <3>1. PICK p, status : Insert(r, p, status)
      BY <2>2 DEF SaveClaim, SaveBook
    <3>2. PICK b \in Ids : booking[b] = None /\ \E x : booking' = [booking EXCEPT ![b] = x]
      BY <3>1 DEF Insert, Unused
    <3>3. OneWritten(b)
      BY <1>0, <3>2 DEF OneWritten
    <3> QED
      BY <3>3
  <2>3. CASE SaveMove(r)
    <3>1. req[r].op = "move" /\ req[r].pc = "save" /\ Fit(req[r])
      BY <1>0, <2>3, JobType DEF SaveMove, Ops
    <3>2. PICK b \in Ids : b = req[r].id
      BY <3>1 DEF Fit
    <3>3. Open(b)
      BY <3>1, <3>2 DEF IInv, Safe, Owns
    <3>4. booking' = [booking EXCEPT ![b].start = req[r].start, ![b].dur = req[r].dur,
                                     ![b].slot = req[r].slot, ![b].status = req[r].status]
      BY <2>3, <3>2 DEF SaveMove
    <3>5. booking[b] \in BookingRows
      BY <1>0, <3>3 DEF Open, Exists
    <3>6. booking'[b].staff = booking[b].staff /\ \A c \in Ids : c # b => booking'[c] = booking[c]
      BY <1>0, <3>4, <3>5 DEF BookingRows
    <3>7. OneWritten(b)
      BY <3>3, <3>6 DEF OneWritten
    <3> QED
      BY <3>7
  <2>4. CASE DropSlot(r)
    <3>1. CASE UNCHANGED booking
      BY <1>1, <3>1
    <3>2. CASE booking' = [b \in Ids |-> IF b \in PointAt(req[r].slot) THEN [booking[b] EXCEPT !.slot = None]
                                         ELSE booking[b]]
      <4>1. ASSUME NEW b \in PointAt(req[r].slot) PROVE SameTime(b)
        <5>1. /\ booking[b] \in BookingRows /\ Exists(booking[b])
              /\ booking'[b] = [booking[b] EXCEPT !.slot = None]
          BY <1>0, <3>2, <4>1 DEF PointAt, Exists
        <5>2. booking'[b] \in BookingRows
          BY <5>1 DEF BookingRows
        <5> QED
          BY <5>1, <5>2 DEF SameTime, BookingRows
      <4>2. ASSUME NEW b \in Ids \ PointAt(req[r].slot) PROVE SameTime(b)
        BY <3>2, <4>2 DEF SameTime
      <4> QED
        BY <4>1, <4>2
    <3> QED
      BY <2>4, <3>1, <3>2 DEF DropSlot
  <2>5. CASE Destroy(r)
    <3>1. req[r].op = "destroy" /\ Fit(req[r])
      BY <1>0, <2>5, JobType DEF Destroy, Ops
    <3>2. PICK b \in Ids : b = req[r].id /\ booking' = [booking EXCEPT ![b] = Deleted]
      BY <2>5, <3>1 DEF Fit, Destroy
    <3>3. OneWritten(b)
      BY <1>0, <3>2 DEF OneWritten
    <3> QED
      BY <3>3
  <2> QED
    BY <1>3, <2>1, <2>2, <2>3, <2>4, <2>5 DEF Save
<1>4. ASSUME NEW b \in Ids, Decide(b) PROVE OneWritten(b)
  <2>1. PICK status : booking' = [booking EXCEPT ![b].status = status] /\ Open(b)
    BY <1>4 DEF Decide, Approve, Reject, Complete, Cancel, Is, Open, OpenStatuses, SetStatus
  <2>2. booking[b] \in BookingRows
    BY <1>0, <2>1 DEF Open, Exists
  <2>3. booking'[b] = [booking[b] EXCEPT !.status = status] /\ \A c \in Ids : c # b => booking'[c] = booking[c]
    BY <1>0, <2>1
  <2>4. booking'[b].staff = booking[b].staff
    BY <2>2, <2>3 DEF BookingRows
  <2> QED
    BY <2>1, <2>3, <2>4 DEF OneWritten
<1>5. CASE Tick \/ UNCHANGED vars
  BY <1>1, <1>5 DEF Tick, vars
<1> QED
  BY <1>1, <1>2, <1>3, <1>4, <1>5 DEF Next

\* A reschedule, an approval or a deleted slot under way never reopens a rejected,
\* completed or cancelled meeting and never moves it (reschedule checks the status
\* again under the row lock).
THEOREM ClosedMeetingsStay == Spec => ClosedMeetingIsFinal
<1>1. IInv /\ [Next]_vars =>
        [\A b \in Ids : Exists(booking[b]) /\ ~Open(b) /\ Exists(booking'[b]) =>
           /\ booking'[b].status = booking[b].status
           /\ booking'[b].start = booking[b].start]_vars
  <2> SUFFICES ASSUME IInv, [Next]_vars,
                      NEW b \in Ids, Exists(booking[b]), ~Open(b), Exists(booking'[b])
               PROVE  booking'[b].status = booking[b].status /\ booking'[b].start = booking[b].start
    OBVIOUS
  <2>1. CASE \A c \in Ids : SameTime(c)
    BY <2>1 DEF SameTime
  <2>2. CASE \E c \in Ids : OneWritten(c)
    BY <2>2, DataFacts DEF OneWritten
  <2> QED
    BY <2>1, <2>2, StepOnMeetings
<1> QED
  BY <1>1, Invariance, PTL DEF Spec, ClosedMeetingIsFinal


(***************************************************************************)
(* The requests implement Calendar.                                        *)
(***************************************************************************)
LEMMA StepOnCalendar == ASSUME IInv, IInv', [Next]_vars PROVE [Cal!Next]_Reserved
<1> USE DataFacts
<1>1. CASE \A b \in Ids : SameTime(b)
  <2>1. ASSUME NEW b \in Ids PROVE Reserved'[b] = Reserved[b]
    BY <1>1, <2>1 DEF Reserved, SameTime, Open, Exists
  <2>2. Reserved' = [b \in Ids |-> Reserved'[b]] /\ Reserved = [b \in Ids |-> Reserved[b]]
    BY DEF Reserved
  <2> QED
    BY <2>1, <2>2
<1>2. ASSUME NEW b \in Ids, OneWritten(b) PROVE [Cal!Next]_Reserved
  <2>1. \A c \in Ids : c # b => Reserved'[c] = Reserved[c] /\ (Open(c)' <=> Open(c))
    BY <1>2 DEF OneWritten, Reserved, Open, Exists
  <2>2. Reserved' = [Reserved EXCEPT ![b] = Reserved'[b]]
    <3>1. Reserved = [c \in Ids |-> Reserved[c]] /\ Reserved' = [c \in Ids |-> Reserved'[c]]
      BY DEF Reserved
    <3> QED
      BY <2>1, <3>1
  <2>3. Open(b) => Reserved[b] # None /\ Reserved[b].staff = booking[b].staff
    <3>1. Open(b) => booking[b] \in BookingRows
      BY DEF IInv, Types, TablesOK, Open, Exists
    <3>2. Open(b) => Reserved[b] \in Rows /\ Reserved[b].staff = booking[b].staff
      BY <3>1 DEF Reserved, Rows, BookingRows
    <3> QED
      BY <3>2 DEF Exists
  <2>4. ~Open(b) => Reserved[b] = None
    BY DEF Reserved
  <2>5. CASE Open(b)'
    <3>1. booking'[b] \in BookingRows
      BY <2>5 DEF IInv, Types, TablesOK, Open, Exists
    <3>2. PICK interval : interval = Reserved'[b]
      OBVIOUS
    <3>3. /\ interval \in Rows /\ interval.staff = booking'[b].staff
          /\ interval.start = booking'[b].start /\ interval.dur = booking'[b].dur
      BY <2>5, <3>1, <3>2 DEF Reserved, Rows, BookingRows
    <3>4. Reserved[b] # None => Reserved[b].staff = interval.staff
      BY <1>2, <2>3, <2>4, <2>5, <3>3 DEF OneWritten, Open, Exists
    <3>5. ASSUME NEW c \in Ids \ {b}, Reserved[c] # None PROVE ~Cal!Meet(Reserved[c], interval)
      <4>1. Open(c) /\ Open(c)'
        BY <2>1, <3>5 DEF Reserved
      <4>2. ~Meets(booking'[c], booking'[b])
        BY <2>5, <4>1 DEF IInv, NoDoubleBooking
      <4>3. booking'[c] = booking[c]
        BY <1>2 DEF OneWritten
      <4>4. /\ Reserved[c].staff = booking[c].staff /\ Reserved[c].start = booking[c].start
            /\ Reserved[c].dur = booking[c].dur
        BY <4>1 DEF Reserved
      <4> QED
        BY <3>3, <4>2, <4>3, <4>4 DEF Meets, Cal!Meet
    <3>6. Cal!FreeFor(b, interval)
      BY <3>5 DEF Cal!FreeFor
    <3>7. interval \in Cal!Interval
      BY <3>3 DEF Cal!Interval, Rows
    <3>8. Cal!Reserve(b)
      BY <2>2, <3>2, <3>4, <3>6, <3>7 DEF Cal!Reserve
    <3> QED
      BY <3>8 DEF Cal!Next
  <2>6. CASE ~Open(b)'
    <3>1. Reserved'[b] = None
      BY <2>6 DEF Reserved
    <3>2. CASE Open(b)
      BY <2>2, <2>3, <3>1, <3>2 DEF Cal!Next, Cal!Release
    <3>3. CASE ~Open(b)
      <4>1. Reserved = [c \in Ids |-> Reserved[c]]
        BY DEF Reserved
      <4>2. Reserved' = Reserved
        BY <2>2, <2>4, <3>1, <3>3, <4>1
      <4> QED
        BY <4>2
    <3> QED
      BY <3>2, <3>3
  <2> QED
    BY <2>5, <2>6
<1> QED
  BY <1>1, <1>2, StepOnMeetings

\* The requests of BookingViewSet, which validate, wait for locks, check again and
\* write in separate steps, implement the calendar that reserves, moves and
\* releases a staff member's time in single steps.
THEOREM BookingsImplementCalendar == Spec => ImplementsCalendar
<1>1. Init => Cal!Init
  BY DataFacts DEF Init, Cal!Init, Reserved, Open, Exists
<1>2. IInv /\ IInv' /\ [Next]_vars => [Cal!Next]_Reserved
  BY StepOnCalendar
<1> QED
  BY <1>1, <1>2, Invariance, PTL DEF Spec, ImplementsCalendar, Cal!Spec
=============================================================================
