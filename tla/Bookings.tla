------------------------------ MODULE Bookings ------------------------------
(***************************************************************************)
(* Meetings and staff availability: BookingViewSet in                       *)
(* backend/apps/admissions/views/portal.py, the serializers that validate   *)
(* its requests and the time rules of meetings.py.                          *)
(*                                                                          *)
(* A request that needs the per-staff lock runs in three steps: it is       *)
(* validated (Begin...), it takes its locks and checks again (Enter...), it *)
(* writes and commits (Save...).  Between the steps every other request     *)
(* runs.  Status changes hold one row lock and are one step.  Deleting a    *)
(* slot or a meeting takes no lock: its check and its delete are two steps. *)
(*                                                                          *)
(* Times count quarters of an hour.                                         *)
(***************************************************************************)
EXTENDS Integers, FiniteSets

CONSTANTS
    Staff,     \* staff members who take meetings
    Slots,     \* ids of published times, numbered as the database does
    Ids,       \* ids of meetings, likewise
    Requests,  \* requests that run at the same time
    Durations, \* MEETING_DURATIONS
    MaxTime,   \* bound: times are 1..MaxTime
    Scripts,   \* bound: how many requests of each kind arrive, see Script
    None,      \* no slot, no lock, an id not used yet
    Deleted    \* an id whose row was deleted

Ops == {"claim", "book", "publish", "moveSlot", "dropSlot", "repeat", "move", "destroy"}
Script == [Ops -> Nat]

ASSUME BookingConstants ==
    /\ Scripts \subseteq Script
    /\ Durations \subseteq Nat \ {0} /\ Durations # {}
    /\ \E longest \in Durations : \A d \in Durations : d <= longest
    /\ MaxTime \in Nat
    /\ Slots \subseteq Nat /\ Ids \subseteq Nat
    /\ None \notin Slots /\ None \notin Ids /\ None \notin Requests /\ None # Deleted

\* No row is None or Deleted.
ASSUME RowsAreRows ==
    /\ \A x \in [staff : Staff, start : 1..MaxTime, dur : Durations] : x \notin {None, Deleted}
    /\ \A x \in [staff : Staff, slot : Slots \cup {None}, start : 1..MaxTime, dur : Durations,
                 status : {"pending", "approved", "rejected", "completed", "cancelled"}] :
          x \notin {None, Deleted}

VARIABLES
    slot,    \* [Slots -> MeetingAvailability row, None or Deleted]
    booking, \* [Ids -> Booking row, None or Deleted]
    now,     \* timezone.now()
    req,     \* [Requests -> the request being served]
    person,  \* [Staff -> request that holds the User row lock]
    row,     \* [Ids -> request that holds the Booking row lock]
    left     \* [Ops -> requests that may still arrive] (bound)

vars == <<slot, booking, now, req, person, row, left>>

Times == 1..MaxTime
MaxMeeting == CHOOSE d \in Durations : \A e \in Durations : e <= d
OpenStatuses == {"pending", "approved"}
Rows == [staff : Staff, start : Times, dur : Durations]

Idle == [op |-> "none", pc |-> "idle"]
Exists(x) == x \notin {None, Deleted}

\* Mutant of Overlaps: only rows that start within the asked duration are read.
OverlapsShort(x, start, dur) == x.start < start + dur /\ x.start > start - dur /\ x.start + x.dur > start

\* overlapping(): the rows that overlap [start, start + dur).
Overlaps(x, start, dur) ==
    /\ x.start < start + dur
    /\ x.start > start - MaxMeeting
    /\ x.start + x.dur > start

Open(b) == Exists(booking[b]) /\ booking[b].status \in OpenStatuses
Started(b) == booking[b].start <= now

\* Mutant of Busy: a request nobody confirmed yet reserves nothing.
BusyConfirmed(s, start, dur, moving) ==
    \E b \in Ids \ {moving} :
        /\ Exists(booking[b]) /\ booking[b].status = "approved"
        /\ booking[b].staff = s /\ Overlaps(booking[b], start, dur)

\* Some open meeting of s, other than `moving`, overlaps the time.
Busy(s, start, dur, moving) ==
    \E b \in Ids \ {moving} : Open(b) /\ booking[b].staff = s /\ Overlaps(booking[b], start, dur)

\* Some published slot of s, other than `moving`, overlaps the time.
Published(s, start, dur, moving) ==
    \E p \in Slots \ {moving} : Exists(slot[p]) /\ slot[p].staff = s /\ Overlaps(slot[p], start, dur)

\* Mutant of PointAt: closed meetings are forgotten.
PointAtOpen(p) == {b \in Ids : Open(b) /\ booking[b].slot = p}

\* Meetings that point at slot p; those that hold it.
PointAt(p) == {b \in Ids : Exists(booking[b]) /\ booking[b].slot = p}
Held(p, moving) == \E b \in PointAt(p) \ {moving} : Open(b)

(***************************************************************************)
(* Steps every request is made of.                                         *)
(***************************************************************************)
Begin(r, job) ==
    /\ req[r].pc = "idle" /\ left[job.op] > 0
    /\ req' = [req EXCEPT ![r] = job]
    /\ left' = [left EXCEPT ![job.op] = @ - 1]
End(r) == req' = [req EXCEPT ![r] = Idle]
At(r, op, pc) == req[r].op = op /\ req[r].pc = pc
Job(op, pc, s, p, b, start, dur) ==
    [op |-> op, pc |-> pc, staff |-> s, slot |-> p, id |-> b, start |-> start, dur |-> dur,
     status |-> "pending", starts |-> {}]

\* Mutant of Enter: the checks run without the per-staff lock.
EnterUnlocked(r, ok) ==
    /\ UNCHANGED person
    /\ IF ok THEN req' = [req EXCEPT ![r].pc = "save"] ELSE End(r)

\* Mutant of Enter: a refused request keeps the lock.
EnterKeepsLock(r, ok) ==
    /\ person[req[r].staff] = None
    /\ person' = [person EXCEPT ![req[r].staff] = r]
    /\ IF ok THEN req' = [req EXCEPT ![r].pc = "save"] ELSE End(r)

\* User.objects.select_for_update(): with the lock in hand the request goes on
\* when `ok`, else it answers 400 and its transaction ends.
Enter(r, ok) ==
    /\ person[req[r].staff] = None
    /\ IF ok THEN /\ person' = [person EXCEPT ![req[r].staff] = r]
                  /\ req' = [req EXCEPT ![r].pc = "save"]
       ELSE End(r) /\ UNCHANGED person

Commit(r) == End(r) /\ person' = [person EXCEPT ![req[r].staff] = None]

\* Bound: an id is left for every row a request may still insert; a weekly
\* request adds RepeatSize times.
RepeatSize == 2
Running(ops) == Cardinality({r \in Requests : req[r].op \in ops})
RoomForMeeting == Cardinality({b \in Ids : booking[b] = None}) > Running({"claim", "book"})
RoomForSlots(n) ==
    Cardinality({p \in Slots : slot[p] = None}) >= n + Running({"publish"}) + RepeatSize * Running({"repeat"})

\* The next id of the table.
Unused(table, i) == table[i] = None /\ \A j \in DOMAIN table : table[j] = None => i <= j

Insert(r, p, status) ==
    \E b \in Ids :
        /\ Unused(booking, b)
        /\ booking' = [booking EXCEPT ![b] =
             [staff |-> req[r].staff, slot |-> p, start |-> req[r].start, dur |-> req[r].dur,
              status |-> status]]

(***************************************************************************)
(* A student requests a published time: BookingSerializer.validate, then    *)
(* perform_create.                                                          *)
(***************************************************************************)
BeginClaim(r) ==
    \E p \in Slots :
        /\ RoomForMeeting
        /\ Exists(slot[p]) /\ slot[p].start > now
        /\ ~Held(p, None) /\ ~Busy(slot[p].staff, slot[p].start, slot[p].dur, None)
        /\ Begin(r, Job("claim", "lock", slot[p].staff, p, None, slot[p].start, slot[p].dur))
        /\ UNCHANGED <<slot, booking, now, person, row>>

\* The slot may have been moved, taken or deleted since.
Unchanged(r, p) ==
    /\ Exists(slot[p]) /\ slot[p].staff = req[r].staff
    /\ slot[p].start = req[r].start /\ slot[p].dur = req[r].dur

EnterClaim(r) ==
    /\ At(r, "claim", "lock")
    /\ Enter(r, /\ Unchanged(r, req[r].slot)
                /\ ~Held(req[r].slot, None)
                /\ ~Busy(req[r].staff, req[r].start, req[r].dur, None))
    /\ UNCHANGED <<slot, booking, now, row, left>>

SaveClaim(r) ==
    /\ At(r, "claim", "save")
    /\ Insert(r, req[r].slot, "pending")
    /\ Commit(r)
    /\ UNCHANGED <<slot, now, row, left>>

(***************************************************************************)
(* Staff books with themselves: confirmed at once.                         *)
(***************************************************************************)
BeginBook(r) ==
    \E s \in Staff, start \in Times, dur \in Durations :
        /\ RoomForMeeting
        /\ start > now
        /\ Begin(r, Job("book", "lock", s, None, None, start, dur))
        /\ UNCHANGED <<slot, booking, now, person, row>>

EnterBook(r) ==
    /\ At(r, "book", "lock")
    /\ Enter(r, ~Busy(req[r].staff, req[r].start, req[r].dur, None))
    /\ UNCHANGED <<slot, booking, now, row, left>>

SaveBook(r) ==
    /\ At(r, "book", "save")
    /\ Insert(r, None, "approved")
    /\ Commit(r)
    /\ UNCHANGED <<slot, now, row, left>>

(***************************************************************************)
(* availability: POST, PATCH, DELETE.                                      *)
(***************************************************************************)
BeginPublish(r) ==
    \E s \in Staff, start \in Times, dur \in Durations :
        /\ RoomForSlots(1)
        /\ start > now
        /\ Begin(r, Job("publish", "lock", s, None, None, start, dur))
        /\ UNCHANGED <<slot, booking, now, person, row>>

EnterPublish(r) ==
    /\ At(r, "publish", "lock")
    /\ Enter(r, /\ ~Published(req[r].staff, req[r].start, req[r].dur, None)
                /\ ~Busy(req[r].staff, req[r].start, req[r].dur, None))
    /\ UNCHANGED <<slot, booking, now, row, left>>

SavePublish(r) ==
    /\ At(r, "publish", "save")
    /\ \E p \in Slots :
        /\ Unused(slot, p)
        /\ slot' = [slot EXCEPT ![p] =
             [staff |-> req[r].staff, start |-> req[r].start, dur |-> req[r].dur]]
    /\ Commit(r)
    /\ UNCHANGED <<booking, now, row, left>>

\* The slot is read before the lock is taken; a past one stays where it is.
BeginMoveSlot(r) ==
    \E p \in Slots, start \in Times, dur \in Durations :
        /\ Exists(slot[p]) /\ slot[p].start > now /\ start > now
        /\ Begin(r, Job("moveSlot", "lock", slot[p].staff, p, None, start, dur))
        /\ UNCHANGED <<slot, booking, now, person, row>>

EnterMoveSlot(r) ==
    /\ At(r, "moveSlot", "lock")
    /\ Enter(r, /\ PointAt(req[r].slot) = {}
                /\ ~Published(req[r].staff, req[r].start, req[r].dur, req[r].slot)
                /\ ~Busy(req[r].staff, req[r].start, req[r].dur, None))
    /\ UNCHANGED <<slot, booking, now, row, left>>

\* save() of the instance read in the beginning writes the row again when it
\* was deleted meanwhile.
SaveMoveSlot(r) ==
    /\ At(r, "moveSlot", "save")
    /\ slot' = [slot EXCEPT ![req[r].slot] =
         [staff |-> req[r].staff, start |-> req[r].start, dur |-> req[r].dur]]
    /\ Commit(r)
    /\ UNCHANGED <<booking, now, row, left>>

BeginDropSlot(r) ==
    \E p \in Slots :
        /\ Exists(slot[p]) /\ ~Held(p, None)
        /\ Begin(r, Job("dropSlot", "save", slot[p].staff, p, None, 0, 0))
        /\ UNCHANGED <<slot, booking, now, person, row>>

\* select_for_update() on the slot, by a claim or a reschedule.
SlotLocked(p) ==
    \E q \in Requests : req[q].op \in {"claim", "move"} /\ req[q].pc = "save" /\ req[q].slot = p

\* on_delete=SET_NULL: the meetings that point at the slot are written first, so
\* a reschedule that holds one of them is waited for.  A meeting that came to
\* point at the slot after that write makes the delete fail.
DropSlot(r) ==
    LET p == req[r].slot IN
    /\ At(r, "dropSlot", "save")
    /\ ~SlotLocked(p)
    /\ \A b \in PointAt(p) : row[b] = None
    /\ End(r)
    /\ \/ /\ slot' = [slot EXCEPT ![p] = Deleted]
          /\ booking' = [b \in Ids |-> IF b \in PointAt(p) THEN [booking[b] EXCEPT !.slot = None]
                                       ELSE booking[b]]
       \/ Held(p, None) /\ UNCHANGED <<slot, booking>>
    /\ UNCHANGED <<now, person, row, left>>

(***************************************************************************)
(* availability_repeat: many times in one transaction; past and taken ones  *)
(* are skipped.                                                            *)
(***************************************************************************)
BeginRepeat(r) ==
    \E s \in Staff, starts \in SUBSET Times, dur \in Durations :
        /\ Cardinality(starts) = RepeatSize /\ RoomForSlots(RepeatSize)
        /\ \A x, y \in starts : x < y => x + dur <= y
        /\ Begin(r, [Job("repeat", "lock", s, None, None, 0, dur) EXCEPT
                       !.starts = {x \in starts : x > now}])
        /\ UNCHANGED <<slot, booking, now, person, row>>

EnterRepeat(r) ==
    /\ At(r, "repeat", "lock")
    /\ Enter(r, TRUE)
    /\ UNCHANGED <<slot, booking, now, row, left>>

SaveRepeat(r) ==
    LET free == {x \in req[r].starts :
                   /\ ~Published(req[r].staff, x, req[r].dur, None)
                   /\ ~Busy(req[r].staff, x, req[r].dur, None)}
    IN
    /\ At(r, "repeat", "save")
    /\ \E ids \in [free -> {p \in Slots : slot[p] = None}] :
        /\ \A x, y \in free : x < y => ids[x] < ids[y]
        /\ \A x \in free, p \in Slots : slot[p] = None /\ p < ids[x] => \E y \in free : ids[y] = p
        /\ slot' = [p \in Slots |->
             IF \E x \in free : ids[x] = p
             THEN [staff |-> req[r].staff, start |-> CHOOSE x \in free : ids[x] = p, dur |-> req[r].dur]
             ELSE slot[p]]
    /\ Commit(r)
    /\ UNCHANGED <<booking, now, row, left>>

(***************************************************************************)
(* reschedule: a student or a counselor asks for another time ("pending"),  *)
(* the participant moves the meeting at once ("approved").  The meeting's   *)
(* row is locked first, then the staff member.                             *)
(***************************************************************************)
BeginMove(r) ==
    \E b \in Ids, p \in Slots \cup {None}, start \in Times, dur \in Durations, status \in OpenStatuses :
        /\ Exists(booking[b]) /\ start > now
        /\ p # None => Exists(slot[p])
        /\ Begin(r, [Job("move", "row", booking[b].staff, p, b, start, dur) EXCEPT !.status = status])
        /\ UNCHANGED <<slot, booking, now, person, row>>

\* Asked for the time it has, the meeting stays as it is.
Movable(r, b) ==
    /\ Open(b) /\ ~Started(b)
    /\ booking[b].start # req[r].start \/ booking[b].dur # req[r].dur

LockMove(r) ==
    LET b == req[r].id IN
    /\ At(r, "move", "row")
    /\ row[b] = None
    /\ IF Movable(r, b) THEN /\ row' = [row EXCEPT ![b] = r]
                             /\ req' = [req EXCEPT ![r].pc = "lock"]
       ELSE End(r) /\ UNCHANGED row
    /\ UNCHANGED <<slot, booking, now, person, left>>

EnterMove(r) ==
    LET b == req[r].id
        p == req[r].slot
        ok == /\ p # None => Unchanged(r, p) /\ ~Held(p, b)
              /\ ~Busy(req[r].staff, req[r].start, req[r].dur, b)
    IN
    /\ At(r, "move", "lock")
    /\ Enter(r, ok)
    /\ row' = IF ok THEN row ELSE [row EXCEPT ![b] = None]
    /\ UNCHANGED <<slot, booking, now, left>>

\* Mutant of SaveMove: the meeting gets a status of its own.
SaveMoveAsMoved(r) ==
    LET b == req[r].id IN
    /\ At(r, "move", "save")
    /\ booking' = [booking EXCEPT ![b].start = req[r].start, ![b].dur = req[r].dur, ![b].status = "moved"]
    /\ Commit(r)
    /\ row' = [row EXCEPT ![b] = None]
    /\ UNCHANGED <<slot, now, left>>

SaveMove(r) ==
    LET b == req[r].id IN
    /\ At(r, "move", "save")
    /\ booking' = [booking EXCEPT ![b].start = req[r].start, ![b].dur = req[r].dur,
                                  ![b].slot = req[r].slot, ![b].status = req[r].status]
    /\ Commit(r)
    /\ row' = [row EXCEPT ![b] = None]
    /\ UNCHANGED <<slot, now, left>>

(***************************************************************************)
(* approve, reject, complete, cancel: one row lock, one step.              *)
(***************************************************************************)
\* Mutant of SetStatus: the meeting's row is not locked.
SetStatusUnlocked(b, status) ==
    /\ booking' = [booking EXCEPT ![b].status = status]
    /\ UNCHANGED <<slot, now, req, person, row, left>>

SetStatus(b, status) ==
    /\ row[b] = None
    /\ booking' = [booking EXCEPT ![b].status = status]
    /\ UNCHANGED <<slot, now, req, person, row, left>>

Is(b, status) == Exists(booking[b]) /\ booking[b].status = status

\* An expired request is not confirmed any more.
Approve(b) == Is(b, "pending") /\ ~Started(b) /\ SetStatus(b, "approved")
Reject(b) == Is(b, "pending") /\ SetStatus(b, "rejected")
Complete(b) == Is(b, "approved") /\ SetStatus(b, "completed")
Cancel(b) == Open(b) /\ ~Started(b) /\ SetStatus(b, "cancelled")

(***************************************************************************)
(* destroy: a closed or started meeting is cleared off the list; nothing is *)
(* locked between the check and the delete.                                *)
(***************************************************************************)
BeginDestroy(r) ==
    \E b \in Ids :
        /\ Exists(booking[b]) /\ (~Open(b) \/ Started(b))
        /\ Begin(r, Job("destroy", "save", booking[b].staff, None, b, 0, 0))
        /\ UNCHANGED <<slot, booking, now, person, row>>

Destroy(r) ==
    LET b == req[r].id IN
    /\ At(r, "destroy", "save")
    /\ row[b] = None
    /\ booking' = [booking EXCEPT ![b] = Deleted]
    /\ End(r)
    /\ UNCHANGED <<slot, now, person, row, left>>

Tick ==
    /\ now < MaxTime
    /\ now' = now + 1
    /\ UNCHANGED <<slot, booking, req, person, row, left>>

Init ==
    /\ slot = [p \in Slots |-> None]
    /\ booking = [b \in Ids |-> None]
    /\ now = 0
    /\ req = [r \in Requests |-> Idle]
    /\ person = [s \in Staff |-> None]
    /\ row = [b \in Ids |-> None]
    /\ left \in Scripts

Arrive(r) ==
    \/ BeginClaim(r) \/ BeginBook(r) \/ BeginPublish(r) \/ BeginRepeat(r)
    \/ BeginMoveSlot(r) \/ BeginDropSlot(r) \/ BeginMove(r) \/ BeginDestroy(r)
Wait(r) ==
    \/ EnterClaim(r) \/ EnterBook(r) \/ EnterPublish(r) \/ EnterRepeat(r)
    \/ EnterMoveSlot(r) \/ LockMove(r) \/ EnterMove(r)
Save(r) ==
    \/ SaveClaim(r) \/ SaveBook(r) \/ SavePublish(r) \/ SaveRepeat(r)
    \/ SaveMoveSlot(r) \/ DropSlot(r) \/ SaveMove(r) \/ Destroy(r)
Decide(b) == Approve(b) \/ Reject(b) \/ Complete(b) \/ Cancel(b)

Next ==
    \/ \E r \in Requests : Arrive(r) \/ Wait(r) \/ Save(r)
    \/ \E b \in Ids : Decide(b)
    \/ Tick

Spec == Init /\ [][Next]_vars

\* A request whose lock is free takes it, and one that holds its locks goes on.
Fairness == \A r \in Requests : WF_vars(Wait(r) \/ Save(r))
FairSpec == Spec /\ Fairness

(***************************************************************************)
(* Properties.                                                             *)
(***************************************************************************)
Statuses == OpenStatuses \cup {"rejected", "completed", "cancelled"}

\* Types of the rows, the requests and the locks.
TypeOK ==
    /\ slot \in [Slots -> Rows \cup {None, Deleted}]
    /\ now \in 0..MaxTime
    /\ DOMAIN booking = Ids /\ DOMAIN req = Requests /\ left \in Script
    /\ person \in [Staff -> Requests \cup {None}]
    /\ row \in [Ids -> Requests \cup {None}]
    /\ \A b \in Ids : Exists(booking[b]) =>
        /\ booking[b].staff \in Staff /\ booking[b].slot \in Slots \cup {None}
        /\ booking[b].start \in Times /\ booking[b].dur \in Durations
        /\ booking[b].status \in Statuses

Meets(x, y) == x.staff = y.staff /\ x.start < y.start + y.dur /\ y.start < x.start + x.dur

\* No staff member has two open meetings at the same time, however requests,
\* bookings and reschedules interleave (the per-staff lock of BookingViewSet).
NoDoubleBooking ==
    \A a, b \in Ids : a # b /\ Open(a) /\ Open(b) => ~Meets(booking[a], booking[b])

\* No two published times of a staff member overlap, whether they were added one
\* by one, weekly or moved (availability, availability_repeat).
SlotsDisjoint ==
    \A p, q \in Slots : p # q /\ Exists(slot[p]) /\ Exists(slot[q]) => ~Meets(slot[p], slot[q])

\* A meeting that points at a published time has that time, even when staff
\* moves the time while the student requests it ("moving it would rewrite that
\* meeting's time", availability PATCH).
BookingMatchesSlot ==
    \A b \in Ids : Exists(booking[b]) /\ booking[b].slot # None =>
        LET p == booking[b].slot IN
        /\ Exists(slot[p]) /\ slot[p].staff = booking[b].staff
        /\ slot[p].start = booking[b].start /\ slot[p].dur = booking[b].dur

\* A rejected, completed or cancelled meeting never opens again and keeps its
\* time: a reschedule that was under way does not bring it back.
ClosedMeetingIsFinal ==
    [][\A b \in Ids : Exists(booking[b]) /\ ~Open(b) /\ Exists(booking'[b]) =>
         /\ booking'[b].status = booking[b].status
         /\ booking'[b].start = booking[b].start]_vars

\* Every request ends: a reschedule waits for the staff lock with its meeting
\* locked, and no other request waits the other way round.
RequestsEnd == \A r \in Requests : req[r].pc # "idle" ~> req[r].pc = "idle"

\* The time an open meeting reserves.
Reserved == [b \in Ids |->
    IF Open(b) THEN [staff |-> booking[b].staff, start |-> booking[b].start, dur |-> booking[b].dur]
    ELSE None]

Cal == INSTANCE Calendar WITH Lengths <- Durations, Free <- None, reserved <- Reserved

\* The requests implement the calendar that reserves, moves and releases times
\* in single steps.
ImplementsCalendar == Cal!Spec
=============================================================================
