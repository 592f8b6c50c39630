SPECIFICATION Spec
CONSTANTS
    Blocks = {b1, b2}
    Typed = {t1}
    Feedback = {m1}
    Elsewhere = {}
    None = None
    MaxEdits = 2
    MaxCrashes = 0
    MaxLate = 0
    MaxRestore = 0
    Rewrites = {TRUE, FALSE}
SYMMETRY Symmetry
PROPERTY MergeKeepsTyping
