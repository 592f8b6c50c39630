SPECIFICATION FairSpec
CONSTANTS
    Staff = {s1}
    Slots = {1, 2}
    Ids = {1, 2}
    Requests = {r1, r2}
    Durations = {1, 2}
    MaxTime = 3
    Scripts <- RaceScripts
    None = None
    Deleted = Deleted
CHECK_DEADLOCK FALSE
INVARIANT TypeOK
INVARIANT NoDoubleBooking
INVARIANT SlotsDisjoint
INVARIANT BookingMatchesSlot
PROPERTY ClosedMeetingIsFinal
PROPERTY RequestsEnd
PROPERTY ImplementsCalendar
