------------------------------ MODULE EssayDoc ------------------------------
(***************************************************************************)
(* A tab's document as the save protocol sees it: top-level blocks         *)
(* addressed by a stable id, each holding a set of pieces of text and      *)
(* marks.  The operators are the ones both sides build a save from:        *)
(* the block operations "ops v2" (docMerge.js diffBlocksV2, doc.py         *)
(* apply_ops_v2) and the three-way merge of docMerge.js mergeBlocks.       *)
(*                                                                         *)
(* Abstraction: the blocks of the tab are fixed (no block is inserted,     *)
(* removed or moved), a block's hash is the block itself, and the text of  *)
(* a block is the set of pieces it holds.                                  *)
(***************************************************************************)
CONSTANTS
    Blocks,     \* ids (bid) of the top-level blocks
    Typed,      \* pieces of text the student can type on this device
    Feedback,   \* comment / suggestion marks a counselor can leave
    Elsewhere   \* pieces of text another device of the same student can save

ASSUME PiecesAreDistinct ==
    /\ Typed \cap Feedback = {}
    /\ Typed \cap Elsewhere = {}
    /\ Feedback \cap Elsewhere = {}

Foreign == Feedback \cup Elsewhere

Piece == Typed \cup Foreign

Doc == [Blocks -> SUBSET Piece]

EmptyDoc == [b \in Blocks |-> {}]

\* Everything a document holds, wherever it stands.
PiecesOf(doc) == UNION {doc[b] : b \in Blocks}

(***************************************************************************)
(* Ops v2.  A save names the blocks that differ from the version it was    *)
(* made from; each carries the hash of that version's block.               *)
(***************************************************************************)
Changed(from, to) == {b \in Blocks : from[b] # to[b]}

\* The {set} operations the server refuses: the stored block is not the one
\* the client started from.
OpConflicts(stored, from, to) == {b \in Changed(from, to) : stored[b] # from[b]}

ApplyOps(stored, from, to) ==
    [b \in Blocks |-> IF b \in Changed(from, to) THEN to[b] ELSE stored[b]]

(***************************************************************************)
(* The client's three-way merge.  "dropped" are the marks whose range lies *)
(* inside text rewritten here: they have nowhere to go and are left out.   *)
(***************************************************************************)
OnlyMarksDiffer(x, y) == x \ Feedback = y \ Feedback

MergeConflicts(base, local, server) ==
    {b \in Changed(base, local) \cap Changed(base, server) :
        local[b] # server[b] /\ ~OnlyMarksDiffer(base[b], server[b])}

\* Mutant of MergeBlocks: a block both sides changed takes the server's version.
MergeBlocksServerWins(base, local, server, dropped) ==
    [b \in Blocks |-> IF b \in Changed(base, local) \ Changed(base, server)
                      THEN local[b] ELSE server[b]]

MergeBlocks(base, local, server, dropped) ==
    [b \in Blocks |->
        IF b \notin Changed(base, local) THEN server[b]
        ELSE IF /\ b \in Changed(base, server)
                /\ local[b] # server[b]
                /\ OnlyMarksDiffer(base[b], server[b])
             THEN local[b] \cup ((server[b] \ base[b]) \ dropped)
             ELSE local[b]]
=============================================================================
