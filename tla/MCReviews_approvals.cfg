SPECIFICATION Spec
CONSTANTS
    m1 = m1
    m2 = m2
    Missions = {m1, m2}
    Tasks = {t1}
    Applications = {a1}
    Before <- Chain
    Requests = {r1, r2}
    Amount = 75
    MaxLevel = 3
    Profile = Profile
    None = None
INVARIANT TypeOK
INVARIANT XpFollowsApprovals
PROPERTY ReviewStands
