SPECIFICATION FairSpec
CONSTANTS
    Blocks = {b1}
    Typed = {t1}
    Feedback = {m1}
    Elsewhere = {}
    None = None
    MaxEdits = 2
    MaxCrashes = 0
    MaxLate = 2
    MaxRestore = 0
    Rewrites = {TRUE, FALSE}
PROPERTY TypingReachesServer
