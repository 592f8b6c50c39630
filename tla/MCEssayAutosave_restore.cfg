SPECIFICATION Spec
CONSTANTS
    Blocks = {b1, b2}
    Typed = {t1}
    Feedback = {m1}
    Elsewhere = {}
    None = None
    MaxEdits = 1
    MaxCrashes = 1
    MaxLate = 2
    MaxRestore = 2
    Rewrites = {FALSE}
SYMMETRY Symmetry
INVARIANT SavedBadgeIsTrue
PROPERTY NoBlindOverwrite
