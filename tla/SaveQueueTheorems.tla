------------------------- MODULE SaveQueueTheorems -------------------------
(***************************************************************************)
(* What every function of the save queue preserves, for any set of blocks, *)
(* pieces and documents:                                                   *)
(*   - Keeps: the result is a queue, builds on the same server version,    *)
(*     and has not let go of the request that was on its way;              *)
(*   - Alive: unsent text has a timer, a request or a badge that explains  *)
(*     why it has none;                                                    *)
(*   - Tells: the badge says "Saved" only of a text with nothing left to   *)
(*     send, and a text counts as settled only if it was sent or stored;   *)
(*   - Sends: the requests it makes carry the text at hand, made from the  *)
(*     version the queue builds on;                                        *)
(*   - KeepsDraft, DraftsAt: the draft is kept, dropped, or written down   *)
(*     as building on that version.                                        *)
(***************************************************************************)
EXTENDS SaveQueue, TLAPS

\* From "before" to "after" a function neither rebased the queue, nor dropped
\* the request on its way, nor found a conflict.
Keeps(before, after) ==
    /\ after \in Queue
    /\ after.seq = before.seq
    /\ after.base = before.base
    /\ before.inFlight # None => after.inFlight = before.inFlight
    /\ after.conflict \in {before.conflict, None}

\* The part of NeverStranded that is about the queue alone, with what it takes
\* to make it inductive: the badge names the reason for as long as it lasts.
Alive(q) ==
    /\ q.dirty => \/ q.syncTimer
                  \/ q.inFlight # None
                  \/ q.pendingRetry # None
                  \/ q.status \in {"conflict", "expired", "rejected"}
    /\ q.pendingRetry # None => q.inFlight = None /\ q.retryTimer
    /\ q.followUp => q.inFlight # None
    /\ q.conflict # None => q.status = "conflict" /\ q.inFlight = None /\ q.pendingRetry = None
    /\ q.expired => q.status = "expired" /\ q.inFlight = None /\ q.pendingRetry = None

LEMMA KeepsTransitive ==
    ASSUME NEW q, NEW r, NEW s, Keeps(q, r), Keeps(r, s)
    PROVE  Keeps(q, s)
BY DEF Keeps

-----------------------------------------------------------------------------
\* The operators on documents return documents.
LEMMA ApplyOpsType ==
    ASSUME NEW stored \in Doc, NEW from, NEW to \in Doc
    PROVE  ApplyOps(stored, from, to) \in Doc
BY DEF ApplyOps, Doc

LEMMA MergeBlocksType ==
    ASSUME NEW base, NEW local \in Doc, NEW server \in Doc, NEW dropped
    PROVE  MergeBlocks(base, local, server, dropped) \in Doc
BY DEF MergeBlocks, Doc

LEMMA EmptyDocType == EmptyDoc \in Doc
BY DEF EmptyDoc, Doc

-----------------------------------------------------------------------------
\* Setting one flag of a queue leaves a queue.
LEMMA FlagsKeep ==
    ASSUME NEW q \in Queue, NEW flag \in BOOLEAN
    PROVE  /\ Keeps(q, [q EXCEPT !.dirty = flag])
           /\ Keeps(q, [q EXCEPT !.followUp = flag])
           /\ Keeps(q, [q EXCEPT !.expired = flag])
           /\ Keeps(q, [q EXCEPT !.syncTimer = flag])
           /\ Keeps(q, [q EXCEPT !.retryTimer = flag])
           /\ Keeps(q, [q EXCEPT !.draftTimer = flag])
BY DEF Queue, Keeps

LEMMA StatusKeeps ==
    ASSUME NEW q \in Queue, NEW status \in Status
    PROVE  Keeps(q, [q EXCEPT !.status = status])
BY DEF Queue, Keeps

LEMMA WriteDraftNowKeeps ==
    ASSUME NEW q \in Queue, NEW doc \in Doc
    PROVE  Keeps(q, WriteDraftNow(q, doc))
BY ZenonT(60) DEF WriteDraftNow, Queue, Draft, Keeps

LEMMA ScheduleSyncKeeps ==
    ASSUME NEW q \in Queue
    PROVE  Keeps(q, ScheduleSync(q))
<1>1. (q.dirty /\ q.conflict = None /\ ~q.expired) \in BOOLEAN
  OBVIOUS
<1> QED
  BY <1>1, FlagsKeep DEF ScheduleSync

LEMMA SettleKeeps ==
    ASSUME NEW q \in Queue
    PROVE  Keeps(q, Settle(q))
BY ZenonT(60) DEF Settle, Queue, Status, Keeps

LEMMA MakePayloadType ==
    ASSUME NEW q \in Queue, NEW doc \in Doc, NEW id \in Nat
    PROVE  MakePayload(q, doc, id) \in Payload
BY DEF MakePayload, Queue, Payload

\* A payload is only sent when none is on its way.
LEMMA SendPayloadKeeps ==
    ASSUME NEW q \in Queue, NEW payload \in Payload, q.inFlight = None
    PROVE  Keeps(q, SendPayload(q, payload))
BY ZenonT(60) DEF SendPayload, Queue, Status, Keeps

LEMMA SendSnapshotKeeps ==
    ASSUME NEW q \in Queue, NEW doc \in Doc, NEW id \in Nat, q.inFlight = None
    PROVE  Keeps(q, SendSnapshot(q, doc, id))
<1> DEFINE clean == [q EXCEPT !.dirty = FALSE]
<1>1. Keeps(q, clean) /\ clean \in Queue /\ clean.inFlight = None
  BY ZenonT(60) DEF Queue, Keeps
<1>2. Keeps(clean, Settle(clean))
  BY <1>1, SettleKeeps
<1>3. Keeps(clean, SendPayload(clean, MakePayload(q, doc, id)))
  BY <1>1, SendPayloadKeeps, MakePayloadType
<1> HIDE DEF clean
<1>4. Keeps(q, Settle(clean)) /\ Keeps(q, SendPayload(clean, MakePayload(q, doc, id)))
  BY <1>1, <1>2, <1>3, KeepsTransitive
<1> QED
  BY <1>4 DEF SendSnapshot, clean

LEMMA ResendKeeps ==
    ASSUME NEW q \in Queue, q.pendingRetry # None, q.inFlight = None
    PROVE  Keeps(q, Resend(q))
<1> DEFINE ready == [q EXCEPT !.retryTimer = FALSE, !.pendingRetry = None]
<1>1. Keeps(q, ready) /\ ready \in Queue /\ ready.inFlight = None
  BY ZenonT(60) DEF Queue, Keeps
<1>2. q.pendingRetry \in Payload
  BY DEF Queue
<1>3. Keeps(ready, SendPayload(ready, q.pendingRetry))
  BY <1>1, <1>2, SendPayloadKeeps
<1> HIDE DEF ready
<1>4. Keeps(q, SendPayload(ready, q.pendingRetry))
  BY <1>1, <1>3, KeepsTransitive
<1> QED
  BY <1>4 DEF Resend, ready

LEMMA FlushKeeps ==
    ASSUME NEW q \in Queue, NEW doc \in Doc, NEW id \in Nat, NEW reason
    PROVE  Keeps(q, Flush(q, doc, id, reason))
<1> DEFINE idle == [q EXCEPT !.syncTimer = FALSE]
<1>1. /\ Keeps(q, idle)
      /\ idle \in Queue
      /\ idle.inFlight = q.inFlight
      /\ idle.pendingRetry = q.pendingRetry
  BY ZenonT(60) DEF Queue, Keeps
<1>2. (q.followUp \/ q.dirty) \in BOOLEAN
  OBVIOUS
<1> HIDE DEF idle
<1>3. Keeps(idle, [idle EXCEPT !.followUp = q.followUp \/ q.dirty])
  BY <1>1, <1>2, FlagsKeep
<1>4. q.pendingRetry # None /\ q.inFlight = None => Keeps(idle, Resend(idle))
  BY <1>1, ResendKeeps
<1>5. q.inFlight = None => Keeps(idle, SendSnapshot(idle, doc, id))
  BY <1>1, SendSnapshotKeeps
<1>6. /\ Keeps(q, [idle EXCEPT !.followUp = q.followUp \/ q.dirty])
      /\ q.pendingRetry # None /\ q.inFlight = None => Keeps(q, Resend(idle))
      /\ q.inFlight = None => Keeps(q, SendSnapshot(idle, doc, id))
  BY <1>1, <1>3, <1>4, <1>5, KeepsTransitive
<1> QED
  BY <1>1, <1>6 DEF Flush, idle

LEMMA RetryNowKeeps ==
    ASSUME NEW q \in Queue, NEW doc \in Doc, NEW id \in Nat
    PROVE  Keeps(q, RetryNow(q, doc, id))
<1> DEFINE ready == [q EXCEPT !.retryTimer = FALSE]
           again == [ready EXCEPT !.expired = FALSE, !.dirty = q.dirty \/ q.expired]
<1>1. Keeps(q, ready) /\ ready \in Queue
  BY ZenonT(60) DEF Queue, Keeps
<1>2. (q.dirty \/ q.expired) \in BOOLEAN
  OBVIOUS
<1>3. \A flag \in BOOLEAN :
          LET r == [ready EXCEPT !.expired = FALSE, !.dirty = flag]
          IN  /\ Keeps(q, r)
              /\ r \in Queue
              /\ r.inFlight = q.inFlight
              /\ r.pendingRetry = q.pendingRetry
  BY ZenonT(60) DEF Queue, Keeps
<1>4. /\ Keeps(q, again)
      /\ again \in Queue
      /\ again.inFlight = q.inFlight
      /\ again.pendingRetry = q.pendingRetry
  BY <1>2, <1>3
<1> HIDE DEF again
<1>5. q.pendingRetry # None /\ q.inFlight = None => Keeps(q, Resend(again))
  BY <1>4, ResendKeeps, KeepsTransitive
<1>6. Keeps(q, Flush(again, doc, id, "retry"))
  BY <1>4, FlushKeeps, KeepsTransitive
<1> QED
  BY <1>1, <1>5, <1>6 DEF RetryNow, again

LEMMA SettleCleanKeeps ==
    ASSUME NEW q \in Queue, NEW doc \in Doc, NEW id \in Nat
    PROVE  Keeps(q, SettleClean(q, doc, id))
<1> DEFINE written == WriteDraftNow(q, doc)
           pending == [written EXCEPT !.status = "pending"]
           again == [pending EXCEPT !.followUp = FALSE]
<1>1. Keeps(q, written) /\ written \in Queue
  BY WriteDraftNowKeeps DEF Keeps
<1> HIDE DEF written
<1>2. Keeps(q, pending) /\ pending \in Queue
  BY <1>1, StatusKeeps, KeepsTransitive DEF Keeps, Status
<1> HIDE DEF pending
<1>3. Keeps(q, again) /\ again \in Queue
  BY <1>2, FlagsKeep, KeepsTransitive DEF Keeps
<1> HIDE DEF again
<1>4. Keeps(q, Flush(again, doc, id, "follow-up"))
  BY <1>3, FlushKeeps, KeepsTransitive
<1>5. Keeps(q, ScheduleSync(pending))
  BY <1>2, ScheduleSyncKeeps, KeepsTransitive
<1> QED
  BY <1>4, <1>5, SettleKeeps DEF SettleClean, written, pending, again

LEMMA ChangeKeeps ==
    ASSUME NEW q \in Queue
    PROVE  Keeps(q, Change(q))
<1> DEFINE marked == [q EXCEPT !.dirty = TRUE, !.draftTimer = TRUE,
                               !.status = IF @ = "saved" THEN "pending" ELSE @]
<1>1. Keeps(q, marked) /\ marked \in Queue
  BY ZenonT(60) DEF Queue, Status, Keeps
<1> HIDE DEF marked
<1>2. Keeps(q, ScheduleSync(marked))
  BY <1>1, ScheduleSyncKeeps, KeepsTransitive
<1> QED
  BY <1>1, <1>2 DEF Change, marked

LEMMA HideKeeps ==
    ASSUME NEW q \in Queue, NEW doc \in Doc, NEW id \in Nat
    PROVE  Keeps(q, Hide(q, doc, id))
<1> DEFINE written == IF q.dirty \/ q.pendingRetry # None \/ q.conflict # None
                      THEN WriteDraftNow(q, doc) ELSE q
<1>1. Keeps(q, written) /\ written \in Queue
  BY WriteDraftNowKeeps DEF Keeps
<1> HIDE DEF written
<1>2. Keeps(q, Flush(written, doc, id, "hide"))
  BY <1>1, FlushKeeps, KeepsTransitive
<1> QED
  BY <1>2 DEF Hide, written

-----------------------------------------------------------------------------
\* The functions that move the queue to another version of the server's text.
LEMMA RebaseType ==
    ASSUME NEW q \in Queue, NEW seq \in Nat, NEW doc \in Doc \cup {None}
    PROVE  /\ Rebase(q, seq, doc) \in Queue
           /\ Rebase(q, seq, doc).seq = seq
           /\ Rebase(q, seq, doc).base =
                 IF doc # None THEN doc ELSE IF seq # q.seq THEN None ELSE q.base
           /\ Rebase(q, seq, doc).inFlight = q.inFlight
           /\ Rebase(q, seq, doc).conflict = q.conflict
BY ZenonT(60) DEF Rebase, Queue

LEMMA KeepMineType ==
    ASSUME NEW q \in Queue, NEW seq \in Nat, NEW serverDoc \in Doc \cup {None},
           NEW doc \in Doc, NEW id \in Nat
    PROVE  /\ Keeps(Rebase(q, seq, serverDoc), KeepMine(q, seq, serverDoc, doc, id))
           /\ KeepMine(q, seq, serverDoc, doc, id).conflict = None
<1> DEFINE rebased == Rebase(q, seq, serverDoc)
           resolved == [rebased EXCEPT !.conflict = None, !.dirty = TRUE]
<1>1. rebased \in Queue
  BY RebaseType
<1> HIDE DEF rebased
<1>2. Keeps(rebased, resolved) /\ resolved \in Queue /\ resolved.conflict = None
  BY <1>1, ZenonT(60) DEF Queue, Keeps
<1> HIDE DEF resolved
<1>3. Keeps(resolved, Flush(resolved, doc, id, "keep-mine"))
  BY <1>2, FlushKeeps
<1>4. /\ Keeps(rebased, Flush(resolved, doc, id, "keep-mine"))
      /\ Flush(resolved, doc, id, "keep-mine").conflict = None
  BY <1>2, <1>3, KeepsTransitive DEF Keeps
<1> QED
  BY <1>4 DEF KeepMine, rebased, resolved

LEMMA AdoptType ==
    ASSUME NEW q \in Queue, NEW seq \in Nat, NEW serverDoc \in Doc, q.inFlight = None
    PROVE  Adopt(q, seq, serverDoc) = Rebase(q, seq, serverDoc)
BY DEF Adopt

LEMMA AcceptServerType ==
    ASSUME NEW q \in Queue, NEW seq \in Nat, NEW serverDoc \in Doc \cup {None}
    PROVE  /\ Keeps(Rebase(q, seq, serverDoc), AcceptServer(q, seq, serverDoc))
           /\ AcceptServer(q, seq, serverDoc).conflict = None
<1>1. ASSUME NEW r \in Queue
      PROVE  /\ Keeps(r, [r EXCEPT !.conflict = None, !.expired = FALSE, !.dirty = FALSE,
                                   !.followUp = FALSE, !.pendingRetry = None])
             /\ [r EXCEPT !.conflict = None, !.expired = FALSE, !.dirty = FALSE,
                           !.followUp = FALSE, !.pendingRetry = None].conflict = None
  BY ZenonT(60) DEF Queue, Keeps
<1>2. ASSUME NEW r \in Queue
      PROVE  Keeps(r, [r EXCEPT !.syncTimer = FALSE, !.retryTimer = FALSE])
  BY ZenonT(60) DEF Queue, Keeps
<1>3. ASSUME NEW r \in Queue
      PROVE  Keeps(r, [r EXCEPT !.draftTimer = FALSE, !.draft = None, !.status = "saved"])
  BY ZenonT(60) DEF Queue, Status, Keeps
<1> DEFINE rebased == Rebase(q, seq, serverDoc)
           idle == [rebased EXCEPT !.conflict = None, !.expired = FALSE, !.dirty = FALSE,
                                   !.followUp = FALSE, !.pendingRetry = None]
           quiet == [idle EXCEPT !.syncTimer = FALSE, !.retryTimer = FALSE]
           accepted == [quiet EXCEPT !.draftTimer = FALSE, !.draft = None, !.status = "saved"]
<1>4. rebased \in Queue
  BY RebaseType
<1> HIDE DEF rebased
<1>5. Keeps(rebased, idle) /\ idle \in Queue /\ idle.conflict = None
  BY <1>1, <1>4 DEF Keeps
<1> HIDE DEF idle
<1>6. Keeps(idle, quiet) /\ quiet \in Queue
  BY <1>2, <1>5 DEF Keeps
<1> HIDE DEF quiet
<1>7. Keeps(quiet, accepted)
  BY <1>3, <1>6
<1>8. Keeps(rebased, accepted) /\ accepted.conflict = None
  BY <1>5, <1>6, <1>7, KeepsTransitive DEF Keeps
<1> QED
  BY <1>8 DEF AcceptServer, rebased, idle, quiet

LEMMA LandedType ==
    ASSUME NEW q \in Queue, NEW seq \in Nat, NEW base \in Doc \cup {None}
    PROVE  /\ Landed(q, seq, base) \in Queue
           /\ Landed(q, seq, base).seq = seq
           /\ Landed(q, seq, base).base = base
           /\ Landed(q, seq, base).inFlight = None
           /\ Landed(q, seq, base).conflict = q.conflict
           /\ Landed(q, seq, base).pendingRetry = q.pendingRetry
           /\ Landed(q, seq, base).expired = q.expired
BY DEF Landed, Queue

LEMMA ResyncType ==
    ASSUME NEW q \in Queue, q.inFlight # None
    PROVE  /\ Resync(q) \in Queue /\ Resync(q).base = None /\ Resync(q).inFlight \in Payload
           /\ Resync(q).seq = q.seq /\ Resync(q).conflict = q.conflict
<1>1. [q EXCEPT !.base = None] \in Queue
  BY DEF Queue
<1>2. [q.inFlight EXCEPT !.kind = "full", !.from = None] \in Payload
  BY DEF Queue, Payload
<1> QED
  BY <1>1, <1>2 DEF Resync, SendPayload, Queue, Status

\* The refusals write the draft and change no version.
LEMMA ConflictedType ==
    ASSUME NEW q \in Queue, NEW answer, NEW doc \in Doc,
           answer.kind \in {"conflict", "block_conflict"},
           answer.seq \in Nat, answer.doc \in Doc
    PROVE  /\ Conflicted(q, answer, doc) \in Queue
           /\ Conflicted(q, answer, doc).seq = q.seq
           /\ Conflicted(q, answer, doc).base = q.base
           /\ Conflicted(q, answer, doc).inFlight = None
           /\ Conflicted(q, answer, doc).conflict.seq = answer.seq
           /\ Conflicted(q, answer, doc).conflict.doc = answer.doc
<1> DEFINE reason == [kind |-> answer.kind, seq |-> answer.seq, doc |-> answer.doc, fresh |-> TRUE]
           refused == [q EXCEPT !.inFlight = None, !.followUp = FALSE, !.dirty = TRUE,
                                !.conflict = reason, !.syncTimer = FALSE]
<1>1. reason \in Conflict
  BY DEF Conflict
<1>2. /\ refused \in Queue
      /\ refused.inFlight = None /\ refused.conflict = reason
      /\ refused.seq = q.seq /\ refused.base = q.base
  BY <1>1 DEF Queue
<1> HIDE DEF refused
<1>3. [WriteDraftNow(refused, doc) EXCEPT !.status = "conflict"] \in Queue
  BY <1>2, WriteDraftNowKeeps, StatusKeeps DEF Keeps, Status
<1>4. LET result == [WriteDraftNow(refused, doc) EXCEPT !.status = "conflict"]
      IN  /\ result.inFlight = refused.inFlight /\ result.conflict = refused.conflict
          /\ result.seq = refused.seq /\ result.base = refused.base
  BY <1>2 DEF WriteDraftNow, Queue
<1> QED
  BY <1>2, <1>3, <1>4 DEF Conflicted, refused

LEMMA UnauthorizedType ==
    ASSUME NEW q \in Queue, NEW doc \in Doc
    PROVE  /\ Unauthorized(q, doc) \in Queue
           /\ Unauthorized(q, doc).seq = q.seq
           /\ Unauthorized(q, doc).base = q.base
           /\ Unauthorized(q, doc).inFlight = None
           /\ Unauthorized(q, doc).conflict = q.conflict
BY ZenonT(60) DEF Unauthorized, WriteDraftNow, Draft, Queue, Status

LEMMA UnreachableType ==
    ASSUME NEW q \in Queue, NEW doc \in Doc
    PROVE  /\ Unreachable(q, doc) \in Queue
           /\ Unreachable(q, doc).seq = q.seq
           /\ Unreachable(q, doc).base = q.base
           /\ Unreachable(q, doc).inFlight = None
           /\ Unreachable(q, doc).conflict = q.conflict
BY ZenonT(60) DEF Unreachable, WriteDraftNow, Draft, Queue, Status

LEMMA RejectedType ==
    ASSUME NEW q \in Queue, NEW doc \in Doc
    PROVE  /\ Rejected(q, doc) \in Queue
           /\ Rejected(q, doc).seq = q.seq
           /\ Rejected(q, doc).base = q.base
           /\ Rejected(q, doc).inFlight = None
           /\ Rejected(q, doc).conflict = q.conflict
BY ZenonT(60) DEF Rejected, WriteDraftNow, Draft, Queue, Status

LEMMA NewQueueType ==
    ASSUME NEW seq \in Nat, NEW doc \in Doc \cup {None}, NEW draft \in Draft \cup {None}
    PROVE  NewQueue(seq, doc, draft) \in Queue
BY DEF NewQueue, Queue, Status

-----------------------------------------------------------------------------
\* Alive, function by function.  "Free" is a queue that nothing holds back.
Free(q) == q.inFlight = None /\ q.pendingRetry = None /\ q.conflict = None /\ ~q.expired

LEMMA ScheduleSyncAlive ==
    ASSUME NEW q \in Queue, Free(q), ~q.followUp
    PROVE  Alive(ScheduleSync(q))
BY DEF ScheduleSync, Queue, Free, Alive

LEMMA SettleAlive ==
    ASSUME NEW q \in Queue, Free(q), ~q.dirty
    PROVE  Alive(Settle(q))
BY DEF Settle, Queue, Free, Alive

\* A request on its way is reason enough for everything else to wait.
LEMMA SendPayloadAlive ==
    ASSUME NEW q \in Queue, Free(q), NEW payload \in Payload
    PROVE  Alive(SendPayload(q, payload))
<1>1. payload # None
  BY NoneIsNothing
<1> QED
  BY <1>1 DEF SendPayload, Queue, Free, Alive

LEMMA SendSnapshotAlive ==
    ASSUME NEW q \in Queue, NEW doc \in Doc, NEW id \in Nat, Free(q)
    PROVE  Alive(SendSnapshot(q, doc, id))
<1> DEFINE clean == [q EXCEPT !.dirty = FALSE]
<1>1. clean \in Queue /\ Free(clean) /\ ~clean.dirty
  BY DEF Queue, Free
<1> HIDE DEF clean
<1>2. Alive(Settle(clean))
  BY <1>1, SettleAlive
<1>3. Alive(SendPayload(clean, MakePayload(q, doc, id)))
  BY <1>1, MakePayloadType, SendPayloadAlive
<1> QED
  BY <1>2, <1>3 DEF SendSnapshot, clean

LEMMA ResendAlive ==
    ASSUME NEW q \in Queue, q.inFlight = None, q.pendingRetry # None, q.conflict = None, ~q.expired
    PROVE  Alive(Resend(q))
<1> DEFINE ready == [q EXCEPT !.retryTimer = FALSE, !.pendingRetry = None]
<1>1. ready \in Queue /\ Free(ready) /\ q.pendingRetry \in Payload
  BY DEF Queue, Free
<1> HIDE DEF ready
<1>2. Alive(SendPayload(ready, q.pendingRetry))
  BY <1>1, SendPayloadAlive
<1> QED
  BY <1>2 DEF Resend, ready

\* flush() keeps a queue alive, and revives one that only lacks its timer.
LEMMA FlushAlive ==
    ASSUME NEW q \in Queue, NEW doc \in Doc, NEW id \in Nat, NEW reason,
           \/ Alive(q)
           \/ Free(q) /\ ~q.followUp
    PROVE  Alive(Flush(q, doc, id, reason))
<1> DEFINE idle == [q EXCEPT !.syncTimer = FALSE]
           later == [idle EXCEPT !.followUp = q.followUp \/ q.dirty]
<1>1. /\ idle \in Queue
      /\ idle.inFlight = q.inFlight /\ idle.pendingRetry = q.pendingRetry
      /\ idle.conflict = q.conflict /\ idle.expired = q.expired
  BY DEF Queue
<1>2. CASE q.conflict # None \/ q.expired
  <2>1. Alive(idle)
    BY <1>2 DEF Queue, Alive, Free
  <2> QED
    BY <1>2, <2>1 DEF Flush
<1>3. CASE ~(q.conflict # None \/ q.expired) /\ q.inFlight # None
  <2>1. Alive(later)
    BY <1>3 DEF Queue, Alive, Free
  <2> QED
    BY <1>3, <2>1 DEF Flush
<1>4. CASE ~(q.conflict # None \/ q.expired) /\ q.inFlight = None /\ q.pendingRetry # None
  <2>1. Alive(idle)
    BY <1>4 DEF Queue, Alive, Free
  <2> HIDE DEF idle
  <2>2. Alive(Resend(idle))
    BY <1>1, <1>4, ResendAlive
  <2> QED
    BY <1>4, <2>1, <2>2 DEF Flush, idle
<1>5. CASE ~(q.conflict # None \/ q.expired) /\ q.inFlight = None /\ q.pendingRetry = None
  <2>1. ~q.dirty => Alive(idle)
    BY <1>5 DEF Queue, Alive, Free
  <2>2. Free(idle)
    BY <1>1, <1>5 DEF Free
  <2> HIDE DEF idle
  <2>3. Alive(SendSnapshot(idle, doc, id))
    BY <1>1, <2>2, SendSnapshotAlive
  <2> QED
    BY <1>5, <2>1, <2>3 DEF Flush, idle
<1> QED
  BY <1>2, <1>3, <1>4, <1>5

LEMMA RetryNowAlive ==
    ASSUME NEW q \in Queue, NEW doc \in Doc, NEW id \in Nat, Alive(q)
    PROVE  Alive(RetryNow(q, doc, id))
<1> DEFINE ready == [q EXCEPT !.retryTimer = FALSE]
           again == [ready EXCEPT !.expired = FALSE, !.dirty = q.dirty \/ q.expired]
<1>1. CASE q.conflict # None \/ q.inFlight # None
  <2>1. Alive(ready)
    BY <1>1 DEF Queue, Alive
  <2> QED
    BY <1>1, <2>1 DEF RetryNow
<1>2. CASE q.conflict = None /\ q.inFlight = None
  <2>1. (q.dirty \/ q.expired) \in BOOLEAN
    OBVIOUS
  <2>2. \A flag \in BOOLEAN :
            LET r == [ready EXCEPT !.expired = FALSE, !.dirty = flag]
            IN  /\ r \in Queue /\ ~r.expired
                /\ r.inFlight = q.inFlight /\ r.pendingRetry = q.pendingRetry
                /\ r.conflict = q.conflict /\ r.followUp = q.followUp
    BY ZenonT(60) DEF Queue
  <2>3. /\ again \in Queue /\ ~again.expired
        /\ again.inFlight = q.inFlight /\ again.pendingRetry = q.pendingRetry
        /\ again.conflict = q.conflict /\ again.followUp = q.followUp
    BY <2>1, <2>2
  <2> HIDE DEF again
  <2>4. q.pendingRetry # None => Alive(Resend(again))
    BY <1>2, <2>3, ResendAlive
  <2>5. q.pendingRetry = None => Free(again) /\ ~again.followUp
    BY <1>2, <2>3 DEF Free, Alive, Queue
  <2>6. q.pendingRetry = None => Alive(Flush(again, doc, id, "retry"))
    BY <2>3, <2>5, FlushAlive
  <2> QED
    BY <1>2, <2>4, <2>6 DEF RetryNow, again
<1> QED
  BY <1>1, <1>2

\* The draft is no reason to wait or to move.
LEMMA WriteDraftNowAlive ==
    ASSUME NEW q \in Queue, NEW doc
    PROVE  /\ Alive(q) => Alive(WriteDraftNow(q, doc))
           /\ Free(q) => Free(WriteDraftNow(q, doc))
           /\ WriteDraftNow(q, doc).followUp = q.followUp
           /\ WriteDraftNow(q, doc).dirty = q.dirty
BY DEF WriteDraftNow, Queue, Alive, Free

\* The answer that settles a save need not find the queue alive: the request it
\* waited for is gone.
LEMMA SettleCleanAlive ==
    ASSUME NEW q \in Queue, NEW doc \in Doc, NEW id \in Nat, Free(q)
    PROVE  Alive(SettleClean(q, doc, id))
<1> DEFINE written == WriteDraftNow(q, doc)
           pending == [written EXCEPT !.status = "pending"]
           again == [pending EXCEPT !.followUp = FALSE]
<1>1. written \in Queue /\ Free(written) /\ written.followUp = q.followUp /\ written.dirty = q.dirty
  BY WriteDraftNowKeeps, WriteDraftNowAlive DEF Keeps
<1> HIDE DEF written
<1>2. ASSUME NEW r \in Queue, Free(r)
      PROVE  LET p == [r EXCEPT !.status = "pending"]
             IN  p \in Queue /\ Free(p) /\ p.followUp = r.followUp /\ p.dirty = r.dirty
  BY <1>2 DEF Queue, Status, Free
<1>3. pending \in Queue /\ Free(pending) /\ pending.followUp = q.followUp
  BY <1>1, <1>2
<1> HIDE DEF pending
<1>4. ASSUME NEW r \in Queue, Free(r)
      PROVE  LET p == [r EXCEPT !.followUp = FALSE]
             IN  p \in Queue /\ Free(p) /\ ~p.followUp
  BY <1>4 DEF Queue, Free
<1>5. again \in Queue /\ Free(again) /\ ~again.followUp
  BY <1>3, <1>4
<1> HIDE DEF again
<1>6. ~q.dirty => Alive(Settle(q))
  BY SettleAlive
<1>7. Alive(Flush(again, doc, id, "follow-up"))
  BY <1>5, FlushAlive
<1>8. ~q.followUp => Alive(ScheduleSync(pending))
  BY <1>3, ScheduleSyncAlive
<1> QED
  BY <1>6, <1>7, <1>8 DEF SettleClean, written, pending, again

LEMMA ChangeAlive ==
    ASSUME NEW q \in Queue
    PROVE  /\ Alive(q) => Alive(Change(q))
           /\ Free(q) => Free(Change(q))
           /\ Change(q).inFlight = q.inFlight
           /\ Change(q).conflict = q.conflict
<1> DEFINE marked == [q EXCEPT !.dirty = TRUE, !.draftTimer = TRUE,
                               !.status = IF @ = "saved" THEN "pending" ELSE @]
<1>1. /\ marked \in Queue /\ marked.dirty
      /\ marked.inFlight = q.inFlight /\ marked.pendingRetry = q.pendingRetry
      /\ marked.conflict = q.conflict /\ marked.expired = q.expired
      /\ marked.followUp = q.followUp /\ marked.retryTimer = q.retryTimer
      /\ marked.status = IF q.status = "saved" THEN "pending" ELSE q.status
  BY ZenonT(60) DEF Queue, Status
<1> HIDE DEF marked
<1>2. ASSUME NEW r \in Queue
      PROVE  LET p == ScheduleSync(r)
             IN  /\ p.inFlight = r.inFlight /\ p.pendingRetry = r.pendingRetry
                 /\ p.conflict = r.conflict /\ p.expired = r.expired
                 /\ p.followUp = r.followUp /\ p.retryTimer = r.retryTimer
                 /\ p.status = r.status /\ p.dirty = r.dirty
                 /\ r.dirty /\ r.conflict = None /\ ~r.expired => p.syncTimer
  BY DEF ScheduleSync, Queue
<1> DEFINE armed == ScheduleSync(marked)
<1>a. /\ armed.inFlight = q.inFlight /\ armed.pendingRetry = q.pendingRetry
      /\ armed.conflict = q.conflict /\ armed.expired = q.expired
      /\ armed.followUp = q.followUp /\ armed.retryTimer = q.retryTimer
      /\ armed.status = marked.status
      /\ q.conflict = None /\ ~q.expired => armed.syncTimer
  BY <1>1, <1>2
<1> HIDE DEF armed
<1>b. Change(q) = IF q.inFlight = None /\ q.pendingRetry = None THEN armed ELSE marked
  BY DEF Change, armed, marked
<1>3. /\ Change(q).inFlight = q.inFlight /\ Change(q).pendingRetry = q.pendingRetry
      /\ Change(q).conflict = q.conflict /\ Change(q).expired = q.expired
      /\ Change(q).followUp = q.followUp /\ Change(q).retryTimer = q.retryTimer
      /\ Change(q).status = IF q.status = "saved" THEN "pending" ELSE q.status
  BY <1>1, <1>a, <1>b
<1>4. Free(q) => Change(q).syncTimer
  BY <1>a, <1>b DEF Free
<1> QED
  BY <1>3, <1>4 DEF Alive, Free

LEMMA HideAlive ==
    ASSUME NEW q \in Queue, NEW doc \in Doc, NEW id \in Nat, Alive(q)
    PROVE  Alive(Hide(q, doc, id))
<1> DEFINE written == IF q.dirty \/ q.pendingRetry # None \/ q.conflict # None
                      THEN WriteDraftNow(q, doc) ELSE q
<1>1. written \in Queue /\ Alive(written)
  BY WriteDraftNowKeeps, WriteDraftNowAlive DEF Keeps
<1> HIDE DEF written
<1>2. Alive(Flush(written, doc, id, "hide"))
  BY <1>1, FlushAlive
<1> QED
  BY <1>2 DEF Hide, written

LEMMA RebaseAlive ==
    ASSUME NEW q \in Queue, NEW seq \in Nat, NEW doc \in Doc \cup {None}, Alive(q)
    PROVE  Alive(Rebase(q, seq, doc))
BY DEF Rebase, Queue, Alive

\* "Keep mine" revives a queue that a conflict had stopped.
LEMMA KeepMineAlive ==
    ASSUME NEW q \in Queue, NEW seq \in Nat, NEW serverDoc \in Doc \cup {None},
           NEW doc \in Doc, NEW id \in Nat, Alive(q)
    PROVE  Alive(KeepMine(q, seq, serverDoc, doc, id))
<1> DEFINE rebased == Rebase(q, seq, serverDoc)
           resolved == [rebased EXCEPT !.conflict = None, !.dirty = TRUE]
<1>1. rebased \in Queue /\ Alive(rebased)
  BY RebaseType, RebaseAlive
<1> HIDE DEF rebased
<1>2. /\ resolved \in Queue /\ resolved.dirty /\ resolved.conflict = None
      /\ resolved.inFlight = rebased.inFlight /\ resolved.pendingRetry = rebased.pendingRetry
      /\ resolved.expired = rebased.expired /\ resolved.followUp = rebased.followUp
      /\ resolved.status = rebased.status /\ resolved.retryTimer = rebased.retryTimer
  BY <1>1, ZenonT(60) DEF Queue
<1> HIDE DEF resolved
<1>3. CASE rebased.expired
  <2>1. Alive(resolved)
    BY <1>1, <1>2, <1>3 DEF Alive
  <2> QED
    BY <1>2, <2>1, FlushAlive DEF KeepMine, rebased, resolved
<1>4. CASE ~rebased.expired /\ (rebased.inFlight # None \/ rebased.pendingRetry # None)
  <2>1. Alive(resolved)
    BY <1>1, <1>2, <1>4 DEF Alive
  <2> QED
    BY <1>2, <2>1, FlushAlive DEF KeepMine, rebased, resolved
<1>5. CASE ~rebased.expired /\ rebased.inFlight = None /\ rebased.pendingRetry = None
  <2>1. Free(resolved)
    BY <1>2, <1>5 DEF Free
  <2>2. ~resolved.followUp
    BY <1>1, <1>2, <1>5 DEF Alive
  <2> QED
    BY <1>2, <2>1, <2>2, FlushAlive DEF KeepMine, rebased, resolved
<1> QED
  BY <1>3, <1>4, <1>5

LEMMA AcceptServerAlive ==
    ASSUME NEW q \in Queue, NEW seq \in Nat, NEW serverDoc \in Doc \cup {None}
    PROVE  Alive(AcceptServer(q, seq, serverDoc))
<1> DEFINE rebased == Rebase(q, seq, serverDoc)
<1>1. rebased \in Queue
  BY RebaseType
<1> HIDE DEF rebased
<1>2. AcceptServer(q, seq, serverDoc) =
        [rebased EXCEPT
            !.conflict = None, !.expired = FALSE, !.dirty = FALSE, !.followUp = FALSE,
            !.pendingRetry = None, !.syncTimer = FALSE, !.retryTimer = FALSE,
            !.draftTimer = FALSE, !.draft = None, !.status = "saved"]
  BY DEF AcceptServer, rebased
<1> QED
  BY <1>1, <1>2 DEF Queue, Alive

LEMMA RefusalsAlive ==
    ASSUME NEW q \in Queue, NEW answer, NEW doc, q.inFlight # None,
           q.pendingRetry = None, q.conflict = None, ~q.expired
    PROVE  /\ Alive(Conflicted(q, answer, doc))
           /\ Alive(Unauthorized(q, doc))
           /\ Alive(Rejected(q, doc))
           /\ Alive(Unreachable(q, doc))
<1>1. Alive(Conflicted(q, answer, doc))
  BY DEF Conflicted, WriteDraftNow, Queue, Alive
<1>2. Alive(Unauthorized(q, doc))
  BY DEF Unauthorized, WriteDraftNow, Queue, Alive
<1>3. Alive(Rejected(q, doc))
  BY DEF Rejected, WriteDraftNow, Queue, Alive
<1>4. Alive(Unreachable(q, doc))
  <2> DEFINE failed == [q EXCEPT !.inFlight = None, !.followUp = FALSE,
                                 !.pendingRetry = q.inFlight, !.retryTimer = TRUE]
  <2>1. /\ failed \in Queue /\ failed.inFlight = None /\ ~failed.followUp
        /\ failed.pendingRetry # None /\ failed.retryTimer
        /\ failed.conflict = None /\ ~failed.expired
    BY DEF Queue
  <2> HIDE DEF failed
  <2>2. LET r == [WriteDraftNow(failed, doc) EXCEPT !.status = "error"]
        IN  /\ r.inFlight = None /\ ~r.followUp
            /\ r.pendingRetry # None /\ r.retryTimer
            /\ r.conflict = None /\ ~r.expired
    BY <2>1 DEF WriteDraftNow, Queue
  <2> QED
    BY <2>2 DEF Unreachable, failed, Alive
<1> QED
  BY <1>1, <1>2, <1>3, <1>4

LEMMA ResyncAlive ==
    ASSUME NEW q \in Queue, q.inFlight # None, Alive(q)
    PROVE  Alive(Resync(q)) /\ Resync(q).inFlight # None
<1>1. [q.inFlight EXCEPT !.kind = "full", !.from = None] \in Payload
  BY DEF Queue, Payload
<1>2. [q.inFlight EXCEPT !.kind = "full", !.from = None] # None
  BY <1>1, NoneIsNothing
<1> QED
  BY <1>2 DEF Resync, SendPayload, Queue, Alive

-----------------------------------------------------------------------------
\* The badge, function by function.  A queue tells the truth about the text
\* "doc" when its badge says "Saved" only with nothing left to do, and when it
\* is not dirty only over a text that is on its way, or waits to be sent
\* again, or is one of the documents in "stored".
Tells(q, doc, stored) ==
    /\ q.status = "saved" => ~Unsettled(q)
    /\ ~q.dirty => /\ q.inFlight # None => q.inFlight.to = doc
                   /\ q.pendingRetry # None => q.pendingRetry.to = doc
                   /\ ~Unsettled(q) => doc \in stored

Requests(q) == {q.inFlight, q.pendingRetry} \ {None}

\* "after" owes the server what "before" owes it.
Like(before, after) ==
    /\ after.dirty = before.dirty
    /\ after.inFlight = before.inFlight /\ after.pendingRetry = before.pendingRetry
    /\ after.conflict = before.conflict /\ after.expired = before.expired
    /\ after.seq = before.seq /\ after.base = before.base
    /\ after.status = "saved" => before.status = "saved"

\* The queue sends nothing but what it held, and the snapshot of "doc".
Sends(q, r, doc, id) == Requests(r) \subseteq Requests(q) \cup {MakePayload(q, doc, id)}

LEMMA LikeTells ==
    ASSUME NEW q, NEW r, NEW doc, NEW stored, Like(q, r)
    PROVE  /\ Tells(q, doc, stored) => Tells(r, doc, stored)
           /\ Requests(r) = Requests(q)
           /\ \A id : MakePayload(r, doc, id) = MakePayload(q, doc, id)
           /\ Free(q) => Free(r)
BY DEF Like, Tells, Unsettled, Requests, MakePayload, Free

LEMMA WriteDraftNowLike ==
    ASSUME NEW q \in Queue, NEW doc
    PROVE  Like(q, WriteDraftNow(q, doc))
BY DEF WriteDraftNow, Queue, Like

LEMMA ScheduleSyncLike ==
    ASSUME NEW q \in Queue
    PROVE  Like(q, ScheduleSync(q))
BY DEF ScheduleSync, Queue, Like

LEMMA SettleTells ==
    ASSUME NEW q \in Queue, NEW doc, NEW stored, Free(q), ~q.dirty, doc \in stored
    PROVE  Tells(Settle(q), doc, stored) /\ Requests(Settle(q)) = {}
<1>1. /\ ~Settle(q).dirty /\ Settle(q).inFlight = None /\ Settle(q).pendingRetry = None
      /\ Settle(q).conflict = None /\ ~Settle(q).expired
  BY DEF Settle, Queue, Free
<1> QED
  BY <1>1 DEF Tells, Unsettled, Requests

LEMMA SendPayloadTells ==
    ASSUME NEW q \in Queue, NEW doc, NEW stored, NEW payload \in Payload,
           q.pendingRetry = None, ~q.dirty => payload.to = doc
    PROVE  /\ Tells(SendPayload(q, payload), doc, stored)
           /\ Requests(SendPayload(q, payload)) = {payload}
<1> DEFINE r == SendPayload(q, payload)
<1>1. /\ r.dirty = q.dirty /\ r.inFlight = payload /\ r.pendingRetry = None
      /\ r.status = "saving"
  BY DEF SendPayload, Queue
<1>2. payload # None
  BY NoneIsNothing
<1> HIDE DEF r
<1>3. Tells(r, doc, stored) /\ Requests(r) = {payload}
  BY <1>1, <1>2 DEF Tells, Unsettled, Requests
<1> QED
  BY <1>3 DEF r

\* A snapshot that equals the acknowledged document needs no request.
LEMMA SendSnapshotTells ==
    ASSUME NEW q \in Queue, NEW doc \in Doc, NEW id \in Nat, NEW stored, Free(q),
           q.base # None => q.base \in stored
    PROVE  /\ Tells(SendSnapshot(q, doc, id), doc, stored)
           /\ Sends(q, SendSnapshot(q, doc, id), doc, id)
<1> DEFINE clean == [q EXCEPT !.dirty = FALSE]
           payload == MakePayload(q, doc, id)
<1>1. clean \in Queue /\ Free(clean) /\ ~clean.dirty
  BY DEF Queue, Free
<1>2. payload \in Payload /\ payload.to = doc
  BY MakePayloadType DEF MakePayload
<1> HIDE DEF clean, payload
<1>3. doc = q.base => Tells(Settle(clean), doc, stored) /\ Requests(Settle(clean)) = {}
  <2>1. doc # None
    BY NoneIsNothing
  <2> QED
    BY <1>1, <2>1, SettleTells
<1>4. /\ Tells(SendPayload(clean, payload), doc, stored)
      /\ Requests(SendPayload(clean, payload)) = {payload}
  BY <1>1, <1>2, SendPayloadTells DEF Free
<1> QED
  BY <1>3, <1>4 DEF SendSnapshot, Sends, clean, payload

LEMMA ResendTells ==
    ASSUME NEW q \in Queue, NEW doc, NEW id, NEW stored,
           q.pendingRetry # None, Tells(q, doc, stored)
    PROVE  Tells(Resend(q), doc, stored) /\ Sends(q, Resend(q), doc, id)
<1> DEFINE ready == [q EXCEPT !.retryTimer = FALSE, !.pendingRetry = None]
<1>1. ready \in Queue /\ ready.dirty = q.dirty /\ ready.pendingRetry = None
  BY DEF Queue
<1>2. q.pendingRetry \in Payload /\ (~ready.dirty => q.pendingRetry.to = doc)
  BY <1>1 DEF Queue, Tells
<1> HIDE DEF ready
<1>3. /\ Tells(SendPayload(ready, q.pendingRetry), doc, stored)
      /\ Requests(SendPayload(ready, q.pendingRetry)) = {q.pendingRetry}
  BY <1>1, <1>2, SendPayloadTells
<1> QED
  BY <1>3 DEF Resend, ready, Sends, Requests

LEMMA FlushTells ==
    ASSUME NEW q \in Queue, NEW doc \in Doc, NEW id \in Nat, NEW reason, NEW stored,
           q.base # None => q.base \in stored,
           Tells(q, doc, stored) \/ (q.dirty /\ Free(q))
    PROVE  /\ Tells(Flush(q, doc, id, reason), doc, stored)
           /\ Sends(q, Flush(q, doc, id, reason), doc, id)
<1> DEFINE idle == [q EXCEPT !.syncTimer = FALSE]
           later == [idle EXCEPT !.followUp = q.followUp \/ q.dirty]
<1>1. idle \in Queue /\ Like(q, idle) /\ Like(q, later)
  BY DEF Queue, Like
<1> HIDE DEF idle, later
<1>2. /\ Tells(q, doc, stored) => Tells(idle, doc, stored) /\ Tells(later, doc, stored)
      /\ Requests(idle) = Requests(q) /\ Requests(later) = Requests(q)
      /\ MakePayload(idle, doc, id) = MakePayload(q, doc, id)
  BY <1>1, LikeTells
<1>3. Sends(q, idle, doc, id) /\ Sends(q, later, doc, id)
  BY <1>2 DEF Sends
<1>4. CASE q.conflict # None \/ q.expired
  BY <1>2, <1>3, <1>4 DEF Flush, Free, idle
<1>5. CASE ~(q.conflict # None \/ q.expired) /\ q.inFlight # None
  BY <1>2, <1>3, <1>5 DEF Flush, Free, idle, later
<1>6. CASE ~(q.conflict # None \/ q.expired) /\ q.inFlight = None /\ q.pendingRetry # None
  <2>1. idle.pendingRetry # None /\ Tells(idle, doc, stored)
    BY <1>1, <1>2, <1>6 DEF Like, Free
  <2>2. Tells(Resend(idle), doc, stored) /\ Sends(idle, Resend(idle), doc, id)
    BY <1>1, <2>1, ResendTells
  <2>3. Sends(q, Resend(idle), doc, id)
    BY <1>2, <2>2 DEF Sends
  <2> QED
    BY <1>2, <1>3, <1>6, <2>1, <2>2, <2>3 DEF Flush, idle
<1>7. CASE ~(q.conflict # None \/ q.expired) /\ q.inFlight = None /\ q.pendingRetry = None
  <2>1. Free(idle) /\ idle.base = q.base
    BY <1>1, <1>7 DEF Like, Free
  <2>2. /\ Tells(SendSnapshot(idle, doc, id), doc, stored)
        /\ Sends(idle, SendSnapshot(idle, doc, id), doc, id)
    BY <1>1, <2>1, SendSnapshotTells
  <2>3. Sends(q, SendSnapshot(idle, doc, id), doc, id)
    BY <1>2, <2>2 DEF Sends
  <2> QED
    BY <1>2, <1>3, <1>7, <2>2, <2>3 DEF Flush, idle
<1> QED
  BY <1>4, <1>5, <1>6, <1>7

LEMMA RetryNowTells ==
    ASSUME NEW q \in Queue, NEW doc \in Doc, NEW id \in Nat, NEW stored,
           q.base # None => q.base \in stored, Tells(q, doc, stored)
    PROVE  /\ Tells(RetryNow(q, doc, id), doc, stored)
           /\ Sends(q, RetryNow(q, doc, id), doc, id)
<1> DEFINE ready == [q EXCEPT !.retryTimer = FALSE]
           again == [ready EXCEPT !.expired = FALSE, !.dirty = q.dirty \/ q.expired]
<1>1. Like(q, ready)
  BY DEF Queue, Like
<1>2. Tells(ready, doc, stored) /\ Sends(q, ready, doc, id)
  BY <1>1, LikeTells DEF Sends
<1>3. /\ again \in Queue /\ ~again.expired /\ again.status = q.status
      /\ again.inFlight = q.inFlight /\ again.pendingRetry = q.pendingRetry
      /\ again.conflict = q.conflict /\ again.seq = q.seq /\ again.base = q.base
      /\ again.dirty = (q.dirty \/ q.expired)
  <2>1. (q.dirty \/ q.expired) \in BOOLEAN
    OBVIOUS
  <2>2. \A flag \in BOOLEAN :
            LET r == [ready EXCEPT !.expired = FALSE, !.dirty = flag]
            IN  /\ r \in Queue /\ ~r.expired /\ r.status = q.status
                /\ r.inFlight = q.inFlight /\ r.pendingRetry = q.pendingRetry
                /\ r.conflict = q.conflict /\ r.seq = q.seq /\ r.base = q.base
                /\ r.dirty = flag
    BY ZenonT(60) DEF Queue
  <2> QED
    BY <2>1, <2>2
<1> HIDE DEF again, ready
<1>4. Tells(again, doc, stored)
  BY <1>3 DEF Tells, Unsettled
<1>5. /\ Requests(again) = Requests(q)
      /\ MakePayload(again, doc, id) = MakePayload(q, doc, id)
  BY <1>3 DEF Requests, MakePayload
<1>6. q.pendingRetry # None => Tells(Resend(again), doc, stored) /\ Sends(q, Resend(again), doc, id)
  BY <1>3, <1>4, <1>5, ResendTells DEF Sends
<1>7. /\ Tells(Flush(again, doc, id, "retry"), doc, stored)
      /\ Sends(q, Flush(again, doc, id, "retry"), doc, id)
  BY <1>3, <1>4, <1>5, FlushTells DEF Sends
<1> QED
  BY <1>2, <1>6, <1>7 DEF RetryNow, ready, again

LEMMA HideTells ==
    ASSUME NEW q \in Queue, NEW doc \in Doc, NEW id \in Nat, NEW stored,
           q.base # None => q.base \in stored, Tells(q, doc, stored)
    PROVE  /\ Tells(Hide(q, doc, id), doc, stored)
           /\ Sends(q, Hide(q, doc, id), doc, id)
<1> DEFINE written == IF q.dirty \/ q.pendingRetry # None \/ q.conflict # None
                      THEN WriteDraftNow(q, doc) ELSE q
<1>1. written \in Queue /\ Like(q, written)
  BY WriteDraftNowKeeps, WriteDraftNowLike DEF Keeps, Like
<1> HIDE DEF written
<1>2. /\ Tells(written, doc, stored) /\ Requests(written) = Requests(q)
      /\ MakePayload(written, doc, id) = MakePayload(q, doc, id) /\ written.base = q.base
  BY <1>1, LikeTells DEF Like
<1>3. /\ Tells(Flush(written, doc, id, "hide"), doc, stored)
      /\ Sends(written, Flush(written, doc, id, "hide"), doc, id)
  BY <1>1, <1>2, FlushTells
<1> QED
  BY <1>2, <1>3 DEF Hide, written, Sends

\* Whatever the queue, a change leaves it dirty, and not "saved".
LEMMA ChangeTells ==
    ASSUME NEW q \in Queue, NEW doc, NEW stored
    PROVE  /\ Change(q).dirty /\ Tells(Change(q), doc, stored)
           /\ Requests(Change(q)) = Requests(q)
           /\ Change(q).pendingRetry = q.pendingRetry /\ Change(q).expired = q.expired
<1> DEFINE marked == [q EXCEPT !.dirty = TRUE, !.draftTimer = TRUE,
                               !.status = IF @ = "saved" THEN "pending" ELSE @]
<1>1. /\ marked \in Queue /\ marked.dirty /\ marked.status # "saved"
      /\ marked.inFlight = q.inFlight /\ marked.pendingRetry = q.pendingRetry
      /\ marked.expired = q.expired
  BY ZenonT(60) DEF Queue, Status
<1> HIDE DEF marked
<1>2. Like(marked, ScheduleSync(marked))
  BY <1>1, ScheduleSyncLike
<1>3. /\ Change(q).dirty /\ Change(q).status # "saved"
      /\ Change(q).inFlight = q.inFlight /\ Change(q).pendingRetry = q.pendingRetry
      /\ Change(q).expired = q.expired
  BY <1>1, <1>2 DEF Change, marked, Like
<1> QED
  BY <1>3 DEF Tells, Requests

\* The answer to a save: without newer typing the text had better be stored.
LEMMA SettleCleanTells ==
    ASSUME NEW q \in Queue, NEW doc \in Doc, NEW id \in Nat, NEW stored, Free(q),
           q.base # None => q.base \in stored, ~q.dirty => doc \in stored
    PROVE  /\ Tells(SettleClean(q, doc, id), doc, stored)
           /\ Sends(q, SettleClean(q, doc, id), doc, id)
<1> DEFINE written == WriteDraftNow(q, doc)
           pending == [written EXCEPT !.status = "pending"]
           again == [pending EXCEPT !.followUp = FALSE]
<1>1. written \in Queue /\ Like(q, written)
  BY WriteDraftNowKeeps, WriteDraftNowLike DEF Keeps
<1> HIDE DEF written
<1>2. pending \in Queue /\ Like(q, pending) /\ pending.status = "pending"
  BY <1>1 DEF Queue, Status, Like
<1> HIDE DEF pending
<1>3. again \in Queue /\ Like(q, again) /\ again.status = "pending"
  <2>1. again \in Queue
    BY <1>2, FlagsKeep DEF Keeps
  <2>2. Like(pending, again) /\ again.status = "pending"
    BY <1>2 DEF Queue, Like
  <2> QED
    BY <1>2, <2>1, <2>2 DEF Like
<1> HIDE DEF again
<1>4. CASE ~q.dirty
  BY <1>4, SettleTells DEF SettleClean, Sends
<1>5. CASE q.dirty
  <2>1. Tells(pending, doc, stored) /\ Tells(again, doc, stored)
    BY <1>2, <1>3, <1>5 DEF Like, Tells
  <2>2. /\ Requests(pending) = Requests(q) /\ Requests(again) = Requests(q)
        /\ MakePayload(again, doc, id) = MakePayload(q, doc, id) /\ again.base = q.base
    BY <1>2, <1>3, LikeTells, SMTT(60) DEF Like
  <2>3. /\ Tells(Flush(again, doc, id, "follow-up"), doc, stored)
        /\ Sends(q, Flush(again, doc, id, "follow-up"), doc, id)
    BY <1>3, <2>1, <2>2, FlushTells DEF Sends
  <2>4. Tells(ScheduleSync(pending), doc, stored) /\ Requests(ScheduleSync(pending)) = Requests(q)
    BY <1>2, <2>1, <2>2, ScheduleSyncLike, LikeTells
  <2> QED
    BY <1>5, <2>3, <2>4 DEF SettleClean, Sends, written, pending, again
<1> QED
  BY <1>4, <1>5

\* "Keep mine" with nothing else going on.
LEMMA KeepMineTells ==
    ASSUME NEW q \in Queue, NEW seq \in Nat, NEW serverDoc \in Doc \cup {None},
           NEW doc \in Doc, NEW id \in Nat, NEW stored,
           q.inFlight = None, q.pendingRetry = None, ~q.expired,
           Rebase(q, seq, serverDoc).base # None => Rebase(q, seq, serverDoc).base \in stored
    PROVE  /\ Tells(KeepMine(q, seq, serverDoc, doc, id), doc, stored)
           /\ Requests(KeepMine(q, seq, serverDoc, doc, id))
                  \subseteq {MakePayload(Rebase(q, seq, serverDoc), doc, id)}
<1> DEFINE rebased == Rebase(q, seq, serverDoc)
           mine == [rebased EXCEPT !.conflict = None, !.dirty = TRUE]
<1>1. /\ rebased \in Queue /\ rebased.inFlight = None
      /\ rebased.pendingRetry = None /\ ~rebased.expired
  <2>1. rebased.pendingRetry = q.pendingRetry /\ rebased.expired = q.expired
    BY DEF Rebase, Queue
  <2> QED
    BY <2>1, RebaseType
<1> HIDE DEF rebased
<1>2. /\ mine \in Queue /\ mine.dirty /\ Free(mine) /\ Requests(mine) = {}
      /\ mine.base = rebased.base /\ mine.seq = rebased.seq
  <2>1. /\ mine \in Queue /\ mine.dirty /\ mine.conflict = None
        /\ mine.inFlight = None /\ mine.pendingRetry = None /\ ~mine.expired
        /\ mine.base = rebased.base /\ mine.seq = rebased.seq
    BY <1>1, ZenonT(60) DEF Queue
  <2> QED
    BY <2>1 DEF Free, Requests
<1> HIDE DEF mine
<1>3. MakePayload(mine, doc, id) = MakePayload(rebased, doc, id)
  BY <1>2 DEF MakePayload
<1>4. mine.base # None => mine.base \in stored
  BY <1>2 DEF rebased
<1>5. /\ Tells(Flush(mine, doc, id, "keep-mine"), doc, stored)
      /\ Sends(mine, Flush(mine, doc, id, "keep-mine"), doc, id)
  BY <1>2, <1>4, FlushTells
<1>6. Requests(Flush(mine, doc, id, "keep-mine")) \subseteq {MakePayload(rebased, doc, id)}
  BY <1>2, <1>3, <1>5 DEF Sends
<1> QED
  BY <1>5, <1>6 DEF KeepMine, rebased, mine

LEMMA AcceptServerTells ==
    ASSUME NEW q \in Queue, NEW seq \in Nat, NEW serverDoc \in Doc \cup {None}, NEW stored,
           q.inFlight = None, serverDoc \in stored
    PROVE  /\ Tells(AcceptServer(q, seq, serverDoc), serverDoc, stored)
           /\ Requests(AcceptServer(q, seq, serverDoc)) = {}
<1> DEFINE rebased == Rebase(q, seq, serverDoc)
           r == AcceptServer(q, seq, serverDoc)
<1>1. rebased \in Queue /\ rebased.inFlight = None
  BY RebaseType
<1> HIDE DEF rebased
<1>2. r = [rebased EXCEPT
            !.conflict = None, !.expired = FALSE, !.dirty = FALSE, !.followUp = FALSE,
            !.pendingRetry = None, !.syncTimer = FALSE, !.retryTimer = FALSE,
            !.draftTimer = FALSE, !.draft = None, !.status = "saved"]
  BY DEF AcceptServer, rebased
<1>3. /\ ~r.dirty /\ r.inFlight = None /\ r.pendingRetry = None
      /\ r.conflict = None /\ ~r.expired
  BY <1>1, <1>2 DEF Queue
<1> HIDE DEF r
<1>4. Tells(r, serverDoc, stored) /\ Requests(r) = {}
  BY <1>3 DEF Tells, Unsettled, Requests
<1> QED
  BY <1>4 DEF r

\* A refused request leaves the queue dirty; a lost one waits for another try.
LEMMA RefusalsTell ==
    ASSUME NEW q \in Queue, NEW doc, NEW stored, NEW answer
    PROVE  /\ Tells(Conflicted(q, answer, doc), doc, stored)
           /\ Tells(Unauthorized(q, doc), doc, stored)
           /\ Tells(Rejected(q, doc), doc, stored)
           /\ Requests(Conflicted(q, answer, doc)) \subseteq Requests(q)
           /\ Requests(Unauthorized(q, doc)) \subseteq Requests(q)
           /\ Requests(Rejected(q, doc)) \subseteq Requests(q)
<1>1. LET r == Conflicted(q, answer, doc)
      IN  r.dirty /\ r.status # "saved" /\ r.inFlight = None /\ r.pendingRetry = q.pendingRetry
  BY DEF Conflicted, WriteDraftNow, Queue
<1>2. LET r == Unauthorized(q, doc)
      IN  r.dirty /\ r.status # "saved" /\ r.inFlight = None /\ r.pendingRetry = None
  BY DEF Unauthorized, WriteDraftNow, Queue
<1>3. LET r == Rejected(q, doc)
      IN  r.dirty /\ r.status # "saved" /\ r.inFlight = None /\ r.pendingRetry = q.pendingRetry
  BY DEF Rejected, WriteDraftNow, Queue
<1> QED
  BY <1>1, <1>2, <1>3 DEF Tells, Requests

LEMMA UnreachableTells ==
    ASSUME NEW q \in Queue, NEW doc, NEW stored, q.inFlight # None, Tells(q, doc, stored)
    PROVE  /\ Tells(Unreachable(q, doc), doc, stored)
           /\ Requests(Unreachable(q, doc)) \subseteq Requests(q)
<1> DEFINE r == Unreachable(q, doc)
<1>1. /\ r.dirty = q.dirty /\ r.status # "saved" /\ r.inFlight = None
      /\ r.pendingRetry = q.inFlight
  <2> DEFINE failed == [q EXCEPT !.inFlight = None, !.followUp = FALSE,
                                 !.pendingRetry = q.inFlight, !.retryTimer = TRUE]
  <2>1. /\ failed \in Queue /\ failed.dirty = q.dirty /\ failed.inFlight = None
        /\ failed.pendingRetry = q.inFlight
    BY DEF Queue
  <2> HIDE DEF failed
  <2>2. LET w == [WriteDraftNow(failed, doc) EXCEPT !.status = "error"]
        IN  /\ w.dirty = failed.dirty /\ w.status # "saved"
            /\ w.inFlight = failed.inFlight /\ w.pendingRetry = failed.pendingRetry
    BY <2>1 DEF WriteDraftNow, Queue
  <2> QED
    BY <2>1, <2>2 DEF Unreachable, failed
<1> HIDE DEF r
<1>2. Tells(r, doc, stored) /\ Requests(r) \subseteq Requests(q)
  BY <1>1 DEF Tells, Unsettled, Requests
<1> QED
  BY <1>2 DEF r

\* The whole document goes out instead of the operations, under the same id.
LEMMA ResyncTells ==
    ASSUME NEW q \in Queue, NEW doc, NEW stored, q.inFlight # None, q.pendingRetry = None,
           Tells(q, doc, stored)
    PROVE  /\ Tells(Resync(q), doc, stored)
           /\ Requests(Resync(q)) = {[q.inFlight EXCEPT !.kind = "full", !.from = None]}
           /\ [q.inFlight EXCEPT !.kind = "full", !.from = None].to = q.inFlight.to
           /\ [q.inFlight EXCEPT !.kind = "full", !.from = None].id = q.inFlight.id
           /\ [q.inFlight EXCEPT !.kind = "full", !.from = None].kind = "full"
<1> DEFINE whole == [q.inFlight EXCEPT !.kind = "full", !.from = None]
           rebased == [q EXCEPT !.base = None]
<1>1. /\ whole \in Payload /\ whole.to = q.inFlight.to /\ whole.id = q.inFlight.id
      /\ whole.kind = "full"
  BY ZenonT(60) DEF Queue, Payload
<1>2. rebased \in Queue /\ rebased.pendingRetry = None /\ rebased.dirty = q.dirty
  BY DEF Queue
<1> HIDE DEF whole, rebased
<1>3. ~rebased.dirty => whole.to = doc
  BY <1>1, <1>2 DEF Tells
<1>4. /\ Tells(SendPayload(rebased, whole), doc, stored)
      /\ Requests(SendPayload(rebased, whole)) = {whole}
  BY <1>1, <1>2, <1>3, SendPayloadTells
<1> QED
  BY <1>1, <1>4 DEF Resync, whole, rebased

-----------------------------------------------------------------------------
\* The draft, function by function: it stays, it goes, or it is written down as
\* building on the version that the queue builds on.
KeepsDraft(q, r) == r.draft \in {q.draft, None}

DraftsAt(q, r) == r.draft # None => r.draft = q.draft \/ r.draft.base_seq = q.seq

LEMMA KeepsDraftTransitive ==
    ASSUME NEW q, NEW r, NEW s, KeepsDraft(r, s)
    PROVE  /\ KeepsDraft(q, r) => KeepsDraft(q, s)
           /\ DraftsAt(q, r) => DraftsAt(q, s)
           /\ DraftsAt(r, s)
BY DEF KeepsDraft, DraftsAt

LEMMA WriteDraftNowDrafts ==
    ASSUME NEW q \in Queue, NEW doc
    PROVE  DraftsAt(q, WriteDraftNow(q, doc))
BY DEF WriteDraftNow, Queue, DraftsAt

LEMMA ScheduleSyncKeepsDraft ==
    ASSUME NEW q \in Queue
    PROVE  KeepsDraft(q, ScheduleSync(q))
BY DEF ScheduleSync, Queue, KeepsDraft

LEMMA SendSnapshotKeepsDraft ==
    ASSUME NEW q \in Queue, NEW doc, NEW id
    PROVE  KeepsDraft(q, SendSnapshot(q, doc, id))
<1> DEFINE clean == [q EXCEPT !.dirty = FALSE]
           payload == MakePayload(q, doc, id)
<1>1. Settle(clean).draft = None /\ SendPayload(clean, payload).draft = q.draft
  BY DEF Settle, SendPayload, Queue
<1> HIDE DEF clean, payload
<1> QED
  BY <1>1 DEF SendSnapshot, KeepsDraft, clean, payload

LEMMA FlushKeepsDraft ==
    ASSUME NEW q \in Queue, NEW doc, NEW id, NEW reason
    PROVE  KeepsDraft(q, Flush(q, doc, id, reason))
<1> DEFINE idle == [q EXCEPT !.syncTimer = FALSE]
           later == [idle EXCEPT !.followUp = q.followUp \/ q.dirty]
<1>1. idle \in Queue /\ idle.draft = q.draft /\ later.draft = q.draft
  BY DEF Queue
<1>2. Resend(idle).draft = q.draft
  BY DEF Resend, SendPayload, Queue
<1>3. KeepsDraft(idle, SendSnapshot(idle, doc, id))
  BY <1>1, SendSnapshotKeepsDraft
<1> HIDE DEF idle, later
<1> QED
  BY <1>1, <1>2, <1>3 DEF Flush, KeepsDraft, idle, later

LEMMA RetryNowKeepsDraft ==
    ASSUME NEW q \in Queue, NEW doc, NEW id
    PROVE  KeepsDraft(q, RetryNow(q, doc, id))
<1> DEFINE ready == [q EXCEPT !.retryTimer = FALSE]
           again == [ready EXCEPT !.expired = FALSE, !.dirty = q.dirty \/ q.expired]
<1>1. ready.draft = q.draft
  BY DEF Queue
<1>2. again \in Queue /\ again.draft = q.draft
  <2>1. (q.dirty \/ q.expired) \in BOOLEAN
    OBVIOUS
  <2>2. \A flag \in BOOLEAN :
            LET r == [ready EXCEPT !.expired = FALSE, !.dirty = flag]
            IN  r \in Queue /\ r.draft = q.draft
    BY ZenonT(60) DEF Queue
  <2> QED
    BY <2>1, <2>2
<1>3. Resend(again).draft = q.draft
  BY <1>2 DEF Resend, SendPayload, Queue
<1> HIDE DEF ready, again
<1>4. KeepsDraft(again, Flush(again, doc, id, "retry"))
  BY <1>2, FlushKeepsDraft
<1> QED
  BY <1>1, <1>2, <1>3, <1>4 DEF RetryNow, KeepsDraft, ready, again

LEMMA HideDrafts ==
    ASSUME NEW q \in Queue, NEW doc \in Doc, NEW id
    PROVE  DraftsAt(q, Hide(q, doc, id))
<1> DEFINE written == IF q.dirty \/ q.pendingRetry # None \/ q.conflict # None
                      THEN WriteDraftNow(q, doc) ELSE q
<1>1. written \in Queue /\ DraftsAt(q, written)
  BY WriteDraftNowKeeps, WriteDraftNowDrafts DEF Keeps, DraftsAt
<1> HIDE DEF written
<1>2. KeepsDraft(written, Flush(written, doc, id, "hide"))
  BY <1>1, FlushKeepsDraft
<1>3. DraftsAt(q, Flush(written, doc, id, "hide"))
  BY <1>1, <1>2, KeepsDraftTransitive
<1> QED
  BY <1>3 DEF Hide, written

LEMMA ChangeKeepsDraft ==
    ASSUME NEW q \in Queue
    PROVE  Change(q).draft = q.draft
BY DEF Change, ScheduleSync, Queue

LEMMA SettleCleanDrafts ==
    ASSUME NEW q \in Queue, NEW doc \in Doc, NEW id
    PROVE  DraftsAt(q, SettleClean(q, doc, id))
<1> DEFINE written == WriteDraftNow(q, doc)
           pending == [written EXCEPT !.status = "pending"]
           again == [pending EXCEPT !.followUp = FALSE]
<1>1. written \in Queue /\ DraftsAt(q, written)
  BY WriteDraftNowKeeps, WriteDraftNowDrafts DEF Keeps
<1> HIDE DEF written
<1>2. pending \in Queue /\ DraftsAt(q, pending)
  BY <1>1 DEF Queue, Status, DraftsAt
<1> HIDE DEF pending
<1>3. again \in Queue /\ DraftsAt(q, again)
  <2>1. again \in Queue
    BY <1>2, FlagsKeep DEF Keeps
  <2>2. again.draft = pending.draft
    BY <1>2 DEF Queue
  <2> QED
    BY <1>2, <2>1, <2>2 DEF DraftsAt
<1> HIDE DEF again
<1>4. /\ KeepsDraft(again, Flush(again, doc, id, "follow-up"))
      /\ KeepsDraft(pending, ScheduleSync(pending))
  BY <1>2, <1>3, FlushKeepsDraft, ScheduleSyncKeepsDraft
<1>5. DraftsAt(q, Flush(again, doc, id, "follow-up")) /\ DraftsAt(q, ScheduleSync(pending))
  BY <1>2, <1>3, <1>4, KeepsDraftTransitive
<1>6. DraftsAt(q, Settle(q))
  BY DEF Settle, Queue, DraftsAt
<1> QED
  BY <1>5, <1>6 DEF SettleClean, written, pending, again

LEMMA KeepMineKeepsDraft ==
    ASSUME NEW q \in Queue, NEW seq \in Nat, NEW serverDoc \in Doc \cup {None}, NEW doc, NEW id
    PROVE  KeepsDraft(q, KeepMine(q, seq, serverDoc, doc, id))
<1> DEFINE rebased == Rebase(q, seq, serverDoc)
           mine == [rebased EXCEPT !.conflict = None, !.dirty = TRUE]
<1>1. rebased \in Queue /\ rebased.draft = q.draft
  <2>1. rebased.draft = q.draft
    BY DEF Rebase, Queue
  <2> QED
    BY <2>1, RebaseType
<1> HIDE DEF rebased
<1>2. mine \in Queue /\ mine.draft = q.draft
  BY <1>1, ZenonT(60) DEF Queue
<1> HIDE DEF mine
<1>3. KeepsDraft(mine, Flush(mine, doc, id, "keep-mine"))
  BY <1>2, FlushKeepsDraft
<1> QED
  BY <1>2, <1>3 DEF KeepMine, KeepsDraft, rebased, mine

LEMMA AcceptServerKeepsDraft ==
    ASSUME NEW q \in Queue, NEW seq, NEW serverDoc
    PROVE  KeepsDraft(q, AcceptServer(q, seq, serverDoc))
BY DEF AcceptServer, Rebase, Queue, KeepsDraft

LEMMA RefusalsDraft ==
    ASSUME NEW q \in Queue, NEW doc, NEW answer
    PROVE  /\ DraftsAt(q, Conflicted(q, answer, doc))
           /\ DraftsAt(q, Unauthorized(q, doc))
           /\ DraftsAt(q, Rejected(q, doc))
           /\ DraftsAt(q, Unreachable(q, doc))
<1>1. DraftsAt(q, Conflicted(q, answer, doc))
  BY DEF Conflicted, WriteDraftNow, Queue, DraftsAt
<1>2. DraftsAt(q, Unauthorized(q, doc))
  BY DEF Unauthorized, WriteDraftNow, Queue, DraftsAt
<1>3. DraftsAt(q, Rejected(q, doc))
  BY DEF Rejected, WriteDraftNow, Queue, DraftsAt
<1>4. DraftsAt(q, Unreachable(q, doc))
  BY DEF Unreachable, WriteDraftNow, Queue, DraftsAt
<1> QED
  BY <1>1, <1>2, <1>3, <1>4

LEMMA ResyncKeepsDraft ==
    ASSUME NEW q \in Queue
    PROVE  Resync(q).draft = q.draft
BY DEF Resync, SendPayload, Queue
=============================================================================
