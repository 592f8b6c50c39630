------------------------------ MODULE SaveQueue ------------------------------
(***************************************************************************)
(* The save queue of one open tab (frontend/src/essayLab/saveQueue.js) as  *)
(* operators on its state: each JavaScript function that the handle or a   *)
(* promise callback runs without a pause is one operator from the queue    *)
(* before the call to the queue after it.  "doc" is getSnapshot().doc, the *)
(* text in the editor during the call, and "id" the value makeId() returns.*)
(*                                                                         *)
(* Time is abstract: a timer is a flag, set when the code arms it, and its *)
(* action may run at any moment while it is set.  The wait itself          *)
(* (debounce, throttle, backoff with jitter, the attempt count) is not     *)
(* modelled.  closed, forgotten and the waiters of flushAndWait are not    *)
(* part of this module.                                                    *)
(***************************************************************************)
EXTENDS EssayDoc, Naturals

CONSTANT None

\* One autosave request.  "full" carries the whole document, "ops" the blocks
\* that differ between "from" and "to"; prepared.get(payload) is "to".
Payload ==
    [id : Nat, base_seq : Nat, kind : {"full", "ops"}, from : Doc \cup {None}, to : Doc]

Draft == [doc : Doc, base_seq : Nat]

\* error.details of a 409, plus whether the editor's effect on it is still to run.
Conflict ==
    [kind : {"conflict", "block_conflict"}, seq : Nat, doc : Doc, fresh : BOOLEAN]

\* null is no document, no request, no draft and no conflict.
ASSUME NoneIsNothing ==
    None \notin Doc /\ None \notin Payload /\ None \notin Draft /\ None \notin Conflict

\* "rejected" is the code's status 'error' when lastError is a 4xx that no
\* retry can fix (sessions.js saveProblem); "error" stands for 'error' and 'offline'.
Status == {"saved", "pending", "saving", "conflict", "expired", "error", "rejected"}

Queue ==
    [seq : Nat, base : Doc \cup {None}, dirty : BOOLEAN, followUp : BOOLEAN,
     inFlight : Payload \cup {None}, pendingRetry : Payload \cup {None},
     conflict : Conflict \cup {None}, expired : BOOLEAN, status : Status,
     syncTimer : BOOLEAN, retryTimer : BOOLEAN, draftTimer : BOOLEAN,
     draft : Draft \cup {None}]

\* createSaveQueue for a tab the server returned at "seq" with text "doc";
\* the draft under this tab's key is whatever the device holds.
NewQueue(seq, doc, draft) ==
    [seq |-> seq, base |-> doc, dirty |-> FALSE, followUp |-> FALSE,
     inFlight |-> None, pendingRetry |-> None, conflict |-> None,
     expired |-> FALSE, status |-> "saved",
     syncTimer |-> FALSE, retryTimer |-> FALSE, draftTimer |-> FALSE,
     draft |-> draft]

Unsettled(q) ==
    \/ q.dirty
    \/ q.pendingRetry # None
    \/ q.inFlight # None
    \/ q.conflict # None
    \/ q.expired

\* Mutant of WriteDraftNow: the draft does not say which version it builds on.
WriteDraftWithoutSeq(q, doc) ==
    [q EXCEPT !.draftTimer = FALSE, !.draft = IF Unsettled(q) THEN [doc |-> doc] ELSE @]

WriteDraftNow(q, doc) ==
    [q EXCEPT !.draftTimer = FALSE,
              !.draft = IF Unsettled(q) THEN [doc |-> doc, base_seq |-> q.seq] ELSE @]

ScheduleSync(q) ==
    [q EXCEPT !.syncTimer = q.dirty /\ q.conflict = None /\ ~q.expired]

SendPayload(q, payload) == [q EXCEPT !.inFlight = payload, !.status = "saving"]

\* Everything sent has landed and nothing new waits: the draft goes.
Settle(q) ==
    [q EXCEPT !.followUp = FALSE, !.draftTimer = FALSE, !.draft = None, !.status = "saved"]

\* The request a snapshot becomes: block operations from the acknowledged
\* document when there is one, otherwise the whole text.
MakePayload(q, doc, id) ==
    [id |-> id, base_seq |-> q.seq, kind |-> IF q.base = None THEN "full" ELSE "ops",
     from |-> q.base, to |-> doc]

\* flush() past its early returns: the text is sent unless the server has it.
SendSnapshot(q, doc, id) ==
    LET clean == [q EXCEPT !.dirty = FALSE]
    IN  IF doc = q.base THEN Settle(clean)
        ELSE SendPayload(clean, MakePayload(q, doc, id))

\* retryNow() past its guards: the failed request again, byte for byte.
Resend(q) ==
    SendPayload([q EXCEPT !.retryTimer = FALSE, !.pendingRetry = None], q.pendingRetry)

Flush(q, doc, id, reason) ==
    LET idle == [q EXCEPT !.syncTimer = FALSE]
    IN  IF q.conflict # None \/ q.expired THEN idle
        ELSE IF q.inFlight # None THEN [idle EXCEPT !.followUp = q.followUp \/ q.dirty]
        ELSE IF q.pendingRetry # None THEN (IF reason = "timer" THEN idle ELSE Resend(idle))
        ELSE IF q.dirty THEN SendSnapshot(idle, doc, id)
        ELSE idle

RetryNow(q, doc, id) ==
    LET ready == [q EXCEPT !.retryTimer = FALSE]
        again == [ready EXCEPT !.expired = FALSE, !.dirty = q.dirty \/ q.expired]
    IN  IF q.conflict # None \/ q.inFlight # None THEN ready
        ELSE IF q.pendingRetry # None THEN Resend(again)
        ELSE Flush(again, doc, id, "retry")

\* Mutant of SettleClean: what was typed during the save counts as saved with it.
SettleWithoutTyping(q, doc, id) == Settle([q EXCEPT !.dirty = FALSE])

\* Mutant of SettleClean: what was typed during the save is left without a timer.
SettleWithoutTimer(q, doc, id) ==
    IF ~q.dirty THEN Settle(q)
    ELSE IF q.followUp THEN Flush([q EXCEPT !.followUp = FALSE], doc, id, "follow-up")
    ELSE [WriteDraftNow(q, doc) EXCEPT !.status = "pending"]

SettleClean(q, doc, id) ==
    LET pending == [WriteDraftNow(q, doc) EXCEPT !.status = "pending"]
    IN  IF ~q.dirty THEN Settle(q)
        ELSE IF q.followUp THEN Flush([pending EXCEPT !.followUp = FALSE], doc, id, "follow-up")
        ELSE ScheduleSync(pending)

\* Mutant of Change: no draft is scheduled while a save is on its way.
ChangeWithoutDraft(q) ==
    LET marked == [q EXCEPT !.dirty = TRUE, !.status = IF @ = "saved" THEN "pending" ELSE @]
    IN  IF q.inFlight = None /\ q.pendingRetry = None
        THEN ScheduleSync([marked EXCEPT !.draftTimer = TRUE]) ELSE marked

Change(q) ==
    LET marked == [q EXCEPT !.dirty = TRUE, !.draftTimer = TRUE,
                            !.status = IF @ = "saved" THEN "pending" ELSE @]
    IN  IF q.inFlight = None /\ q.pendingRetry = None THEN ScheduleSync(marked) ELSE marked

Hide(q, doc, id) ==
    LET written == IF q.dirty \/ q.pendingRetry # None \/ q.conflict # None
                   THEN WriteDraftNow(q, doc) ELSE q
    IN  Flush(written, doc, id, "hide")

\* The editor shows "doc" as saved at "seq"; None stands for an unknown document.
Rebase(q, seq, doc) ==
    [q EXCEPT !.seq = seq, !.base = IF doc # None THEN doc ELSE IF seq # q.seq THEN None ELSE @]

KeepMine(q, seq, serverDoc, doc, id) ==
    Flush([Rebase(q, seq, serverDoc) EXCEPT !.conflict = None, !.dirty = TRUE],
          doc, id, "keep-mine")

Adopt(q, seq, serverDoc) == IF q.inFlight # None THEN q ELSE Rebase(q, seq, serverDoc)

AcceptServer(q, seq, serverDoc) ==
    [Rebase(q, seq, serverDoc) EXCEPT
        !.conflict = None, !.expired = FALSE, !.dirty = FALSE, !.followUp = FALSE,
        !.pendingRetry = None, !.syncTimer = FALSE, !.retryTimer = FALSE,
        !.draftTimer = FALSE, !.draft = None, !.status = "saved"]

(***************************************************************************)
(* Answers.  succeeded() after its merged branch handed the server's       *)
(* document to the editor is SettleClean; the parts before it follow.      *)
(***************************************************************************)
Landed(q, seq, base) == [q EXCEPT !.inFlight = None, !.seq = seq, !.base = base]

\* Mutant of AckedBase: the sent text becomes the base of a merged save too.
AckedBaseIgnoresMerge(payload, answer) ==
    IF answer.kind \in {"merged", "replay"} \/ answer.doc = payload.to THEN payload.to ELSE None

\* An answer with the hash of the stored document: the sent text is the next
\* base only when the hashes agree.  A replay carries no hash.
AckedBase(payload, answer) ==
    IF answer.kind = "merged" THEN answer.doc
    ELSE IF answer.kind = "replay" \/ answer.doc = payload.to THEN payload.to
    ELSE None

Resync(q) ==
    SendPayload([q EXCEPT !.base = None], [q.inFlight EXCEPT !.kind = "full", !.from = None])

Conflicted(q, answer, doc) ==
    [WriteDraftNow([q EXCEPT !.inFlight = None, !.followUp = FALSE, !.dirty = TRUE,
                             !.conflict = [kind |-> answer.kind, seq |-> answer.seq,
                                           doc |-> answer.doc, fresh |-> TRUE],
                             !.syncTimer = FALSE], doc)
        EXCEPT !.status = "conflict"]

Unauthorized(q, doc) ==
    [WriteDraftNow([q EXCEPT !.inFlight = None, !.followUp = FALSE, !.dirty = TRUE,
                             !.expired = TRUE, !.pendingRetry = None,
                             !.syncTimer = FALSE, !.retryTimer = FALSE], doc)
        EXCEPT !.status = "expired"]

\* Mutant of Unreachable: the failed save is kept, and nothing sends it again.
UnreachableWithoutTimer(q, doc) ==
    [WriteDraftNow([q EXCEPT !.inFlight = None, !.followUp = FALSE,
                             !.pendingRetry = q.inFlight], doc)
        EXCEPT !.status = "error"]

Unreachable(q, doc) ==
    [WriteDraftNow([q EXCEPT !.inFlight = None, !.followUp = FALSE,
                             !.pendingRetry = q.inFlight, !.retryTimer = TRUE], doc)
        EXCEPT !.status = "error"]

Rejected(q, doc) ==
    [WriteDraftNow([q EXCEPT !.inFlight = None, !.followUp = FALSE, !.dirty = TRUE], doc)
        EXCEPT !.status = "rejected"]
=============================================================================
