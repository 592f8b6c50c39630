SPECIFICATION Spec
CONSTANTS
    Blocks = {b1, b2}
    Typed = {t1}
    Feedback = {m1}
    Elsewhere = {}
    None = None
    MaxEdits = 1
    MaxCrashes = 0
    MaxLate = 0
    MaxRestore = 0
    Rewrites = {FALSE}
SYMMETRY Symmetry
INVARIANT BaseIsServerVersion
