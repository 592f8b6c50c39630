SPECIFICATION Spec
CONSTANTS
    Blocks = {b1, b2}
    Typed = {t1}
    Feedback = {m1}
    Elsewhere = {e1}
    None = None
    MaxEdits = 1
    MaxCrashes = 1
    MaxLate = 2
    MaxRestore = 0
    Rewrites = {TRUE, FALSE}
SYMMETRY Symmetry
INVARIANT BaseIsServerVersionUnlessSkipped
PROPERTY NoBlindOverwrite
PROPERTY MergeWithBaseKeepsTyping
PROPERTY NeverGoesBack
