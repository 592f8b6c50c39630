------------------------- MODULE EssayDraftTheorems -------------------------
(***************************************************************************)
(* The draft on the device covers the text, for any blocks, pieces of      *)
(* text, number of edits, crashes, late requests and restores.             *)
(*                                                                         *)
(* Each function of the queue either writes the text into the draft        *)
(* (Covered), or leaves the draft alone and settles no less than it found  *)
(* (Quieter).  A draft the student is being asked about is the one on the  *)
(* device, and nothing is unsettled while the question stands (Asked).     *)
(*                                                                         *)
(* On that invariant rest three more: the "Saved" badge tells the truth    *)
(* (BInv), a merge takes no typing out of the editor that the server does  *)
(* not hold, and nothing of another writer is overwritten unseen (NInv).   *)
(***************************************************************************)
EXTENDS EssayAutosaveTheorems

\* The draft holds "doc", or the throttled write is due.
Held(q, doc) == ~q.draftTimer => q.draft # None /\ q.draft.doc = doc

Covered(q, doc) == Unsettled(q) => Held(q, doc)

\* From "before" to "after" nothing became unsettled, and the draft went only
\* with the last reason to keep it.
Quieter(before, after) ==
    /\ Unsettled(after) => /\ Unsettled(before)
                           /\ after.draft = before.draft
                           /\ after.draftTimer = before.draftTimer
    /\ ~Unsettled(before) => after.draft = before.draft

Asked == unsynced # None => ~Unsettled(queue) /\ queue.draft = unsynced

DInv == Covered(queue, editor) /\ Asked

-----------------------------------------------------------------------------
(***************************************************************************)
(* The functions of the queue.                                             *)
(***************************************************************************)
LEMMA QuieterTransitive ==
    ASSUME NEW q, NEW r, NEW s, Quieter(q, r), Quieter(r, s)
    PROVE  Quieter(q, s)
BY DEF Quieter

LEMMA QuieterStaysCovered ==
    ASSUME NEW q, NEW r, NEW doc, Quieter(q, r), Covered(q, doc)
    PROVE  Covered(r, doc)
BY DEF Quieter, Covered, Held

\* Whatever the queue, a draft written now covers the text.
LEMMA WriteDraftNowCovers ==
    ASSUME NEW q \in Queue, NEW doc \in Doc
    PROVE  /\ Covered(WriteDraftNow(q, doc), doc)
           /\ Unsettled(WriteDraftNow(q, doc)) <=> Unsettled(q)
           /\ ~Unsettled(q) => WriteDraftNow(q, doc).draft = q.draft
<1> DEFINE written == WriteDraftNow(q, doc)
<1>1. /\ written.dirty = q.dirty /\ written.pendingRetry = q.pendingRetry
      /\ written.inFlight = q.inFlight /\ written.conflict = q.conflict
      /\ written.expired = q.expired
      /\ written.draft = IF Unsettled(q) THEN [doc |-> doc, base_seq |-> q.seq] ELSE q.draft
  BY DEF WriteDraftNow, Queue
<1> HIDE DEF written
<1>2. Unsettled(written) <=> Unsettled(q)
  BY <1>1 DEF Unsettled
<1>3. [doc |-> doc, base_seq |-> q.seq] # None
  <2>1. [doc |-> doc, base_seq |-> q.seq] \in Draft
    BY DEF Draft, Queue
  <2> QED
    BY <2>1, NoneIsNothing
<1> QED
  BY <1>1, <1>2, <1>3 DEF Covered, Held, written

LEMMA ScheduleSyncQuieter ==
    ASSUME NEW q \in Queue
    PROVE  Quieter(q, ScheduleSync(q))
BY DEF Quieter, ScheduleSync, Unsettled, Queue

LEMMA ResendQuieter ==
    ASSUME NEW q \in Queue, q.pendingRetry # None
    PROVE  Quieter(q, Resend(q))
BY DEF Quieter, Resend, SendPayload, Unsettled, Queue

LEMMA SendSnapshotQuieter ==
    ASSUME NEW q \in Queue, NEW doc, NEW id, q.dirty,
           q.conflict = None, ~q.expired, q.inFlight = None, q.pendingRetry = None
    PROVE  Quieter(q, SendSnapshot(q, doc, id))
<1> DEFINE clean == [q EXCEPT !.dirty = FALSE]
<1>1. ~Unsettled(Settle(clean))
  BY DEF Settle, Unsettled, Queue
<1>2. /\ SendPayload(clean, MakePayload(q, doc, id)).draft = q.draft
      /\ SendPayload(clean, MakePayload(q, doc, id)).draftTimer = q.draftTimer
  BY DEF SendPayload, Queue
<1>3. Unsettled(q)
  BY DEF Unsettled
<1>4. \/ SendSnapshot(q, doc, id) = Settle(clean)
      \/ SendSnapshot(q, doc, id) = SendPayload(clean, MakePayload(q, doc, id))
  BY DEF SendSnapshot
<1> HIDE DEF clean
<1> QED
  BY <1>1, <1>2, <1>3, <1>4 DEF Quieter

LEMMA FlushQuieter ==
    ASSUME NEW q \in Queue, NEW doc, NEW id, NEW reason
    PROVE  Quieter(q, Flush(q, doc, id, reason))
<1> DEFINE idle == [q EXCEPT !.syncTimer = FALSE]
<1>1. /\ idle \in Queue /\ Quieter(q, idle)
      /\ idle.conflict = q.conflict /\ idle.expired = q.expired
      /\ idle.inFlight = q.inFlight /\ idle.pendingRetry = q.pendingRetry
      /\ idle.dirty = q.dirty
  BY ZenonT(60) DEF Quieter, Unsettled, Queue
<1> HIDE DEF idle
<1>2. Quieter(idle, [idle EXCEPT !.followUp = q.followUp \/ q.dirty])
  BY <1>1 DEF Quieter, Unsettled, Queue
<1>3. q.pendingRetry # None => Quieter(idle, Resend(idle))
  BY <1>1, ResendQuieter
<1>4. q.dirty /\ q.conflict = None /\ ~q.expired /\ q.inFlight = None /\ q.pendingRetry = None
          => Quieter(idle, SendSnapshot(idle, doc, id))
  BY <1>1, SendSnapshotQuieter
<1>5. /\ Quieter(q, [idle EXCEPT !.followUp = q.followUp \/ q.dirty])
      /\ q.pendingRetry # None => Quieter(q, Resend(idle))
      /\ q.dirty /\ q.conflict = None /\ ~q.expired /\ q.inFlight = None /\ q.pendingRetry = None
             => Quieter(q, SendSnapshot(idle, doc, id))
  BY <1>1, <1>2, <1>3, <1>4, QuieterTransitive
<1> QED
  BY <1>1, <1>5 DEF Flush, idle

LEMMA RetryNowQuieter ==
    ASSUME NEW q \in Queue, NEW doc, NEW id
    PROVE  Quieter(q, RetryNow(q, doc, id))
<1> DEFINE ready == [q EXCEPT !.retryTimer = FALSE]
           again == [ready EXCEPT !.expired = FALSE, !.dirty = q.dirty \/ q.expired]
<1>1. Quieter(q, ready)
  BY DEF Quieter, Unsettled, Queue
<1>2. again \in Queue /\ Quieter(q, again) /\ again.pendingRetry = q.pendingRetry
  <2>1. (q.dirty \/ q.expired) \in BOOLEAN
    OBVIOUS
  <2>2. \A flag \in BOOLEAN :
            (flag => q.dirty \/ q.expired)
                => LET r == [ready EXCEPT !.expired = FALSE, !.dirty = flag]
                   IN  r \in Queue /\ Quieter(q, r) /\ r.pendingRetry = q.pendingRetry
    BY ZenonT(60) DEF Quieter, Unsettled, Queue
  <2> QED
    BY <2>1, <2>2
<1> HIDE DEF again
<1>3. q.pendingRetry # None => Quieter(q, Resend(again))
  BY <1>2, ResendQuieter, QuieterTransitive
<1>4. Quieter(q, Flush(again, doc, id, "retry"))
  BY <1>2, FlushQuieter, QuieterTransitive
<1> QED
  BY <1>1, <1>3, <1>4 DEF RetryNow, again

LEMMA HideCovers ==
    ASSUME NEW q \in Queue, NEW doc \in Doc, NEW id, Covered(q, doc)
    PROVE  /\ Covered(Hide(q, doc, id), doc)
           /\ ~Unsettled(q) => /\ ~Unsettled(Hide(q, doc, id))
                              /\ Hide(q, doc, id).draft = q.draft
<1> DEFINE written == IF q.dirty \/ q.pendingRetry # None \/ q.conflict # None
                      THEN WriteDraftNow(q, doc) ELSE q
<1>1. /\ written \in Queue /\ Covered(written, doc)
      /\ ~Unsettled(q) => ~Unsettled(written) /\ written.draft = q.draft
  BY WriteDraftNowCovers, WriteDraftNowKeeps DEF Keeps
<1> HIDE DEF written
<1>2. Quieter(written, Flush(written, doc, id, "hide"))
  BY <1>1, FlushQuieter
<1>3. Covered(Flush(written, doc, id, "hide"), doc)
  BY <1>1, <1>2, QuieterStaysCovered
<1> QED
  BY <1>1, <1>2, <1>3 DEF Hide, Quieter, written

\* Typing makes the throttled write due, whatever is being typed.
LEMMA ChangeHolds ==
    ASSUME NEW q \in Queue, NEW doc
    PROVE  Held(Change(q), doc)
<1>1. Change(q).draftTimer = TRUE
  BY DEF Change, ScheduleSync, Queue
<1> QED
  BY <1>1 DEF Held

\* Once the request on its way is over, settling covers any text.
LEMMA SettleCleanCovers ==
    ASSUME NEW q \in Queue, NEW doc \in Doc, NEW id \in Nat, Free(q)
    PROVE  Covered(SettleClean(q, doc, id), doc)
<1> DEFINE written == WriteDraftNow(q, doc)
           pending == [written EXCEPT !.status = "pending"]
           again == [pending EXCEPT !.followUp = FALSE]
<1>1. ~q.dirty => ~Unsettled(Settle(q))
  BY DEF Settle, Unsettled, Free, Queue
<1>2. written \in Queue /\ Covered(written, doc)
  BY WriteDraftNowCovers, WriteDraftNowKeeps DEF Keeps
<1> HIDE DEF written
<1>3. pending \in Queue /\ Covered(pending, doc)
  BY <1>2 DEF Queue, Status, Covered, Held, Unsettled
<1> HIDE DEF pending
<1>4. again \in Queue /\ Covered(again, doc)
  BY <1>3, ZenonT(60) DEF Queue, Covered, Held, Unsettled
<1> HIDE DEF again
<1>5. Covered(Flush(again, doc, id, "follow-up"), doc)
  BY <1>4, FlushQuieter, QuieterStaysCovered
<1>6. Covered(ScheduleSync(pending), doc)
  BY <1>3, ScheduleSyncQuieter, QuieterStaysCovered
<1>7. CASE ~q.dirty
  BY <1>1, <1>7 DEF SettleClean, Covered
<1>8. CASE q.dirty
  BY <1>5, <1>6, <1>8 DEF SettleClean, written, pending, again
<1> QED
  BY <1>7, <1>8

\* Moving to another version of the server's text leaves the draft alone.
LEMMA RebaseQuieter ==
    ASSUME NEW q \in Queue, NEW seq \in Nat, NEW serverDoc \in Doc \cup {None}
    PROVE  /\ Quieter(q, Rebase(q, seq, serverDoc))
           /\ Rebase(q, seq, serverDoc).draft = q.draft
           /\ Rebase(q, seq, serverDoc).draftTimer = q.draftTimer
BY DEF Quieter, Rebase, Unsettled, Queue

LEMMA KeepMineCovers ==
    ASSUME NEW q \in Queue, NEW seq \in Nat, NEW serverDoc \in Doc \cup {None},
           NEW doc \in Doc, NEW id \in Nat, Held(q, doc)
    PROVE  Covered(KeepMine(q, seq, serverDoc, doc, id), doc)
<1> DEFINE rebased == Rebase(q, seq, serverDoc)
           mine == [rebased EXCEPT !.conflict = None, !.dirty = TRUE]
<1>1. rebased \in Queue /\ rebased.draft = q.draft /\ rebased.draftTimer = q.draftTimer
  BY RebaseType, RebaseQuieter
<1> HIDE DEF rebased
<1>2. mine \in Queue /\ Covered(mine, doc)
  BY <1>1, ZenonT(60) DEF Queue, Covered, Held
<1> HIDE DEF mine
<1>3. Covered(Flush(mine, doc, id, "keep-mine"), doc)
  BY <1>2, FlushQuieter, QuieterStaysCovered
<1> QED
  BY <1>3 DEF KeepMine, rebased, mine

\* A request that ends badly writes the text down first.
LEMMA RefusalsCover ==
    ASSUME NEW q \in Queue, NEW doc \in Doc
    PROVE  /\ Covered(Unreachable(q, doc), doc)
           /\ Covered(Unauthorized(q, doc), doc)
           /\ Covered(Rejected(q, doc), doc)
<1>1. ASSUME NEW r \in Queue, NEW status \in Status
      PROVE  Covered([WriteDraftNow(r, doc) EXCEPT !.status = status], doc)
  <2> DEFINE written == WriteDraftNow(r, doc)
  <2>1. written \in Queue /\ Covered(written, doc)
    BY WriteDraftNowCovers, WriteDraftNowKeeps DEF Keeps
  <2> HIDE DEF written
  <2>2. Covered([written EXCEPT !.status = status], doc)
    BY <2>1 DEF Queue, Covered, Held, Unsettled
  <2> QED
    BY <2>2 DEF written
<1> DEFINE lost == [q EXCEPT !.inFlight = None, !.followUp = FALSE,
                             !.pendingRetry = q.inFlight, !.retryTimer = TRUE]
           expired == [q EXCEPT !.inFlight = None, !.followUp = FALSE, !.dirty = TRUE,
                                !.expired = TRUE, !.pendingRetry = None,
                                !.syncTimer = FALSE, !.retryTimer = FALSE]
           refused == [q EXCEPT !.inFlight = None, !.followUp = FALSE, !.dirty = TRUE]
<1>2. lost \in Queue /\ expired \in Queue /\ refused \in Queue
  BY ZenonT(60) DEF Queue
<1> HIDE DEF lost, expired, refused
<1>3. "error" \in Status /\ "expired" \in Status /\ "rejected" \in Status
  BY DEF Status
<1>4. /\ Covered([WriteDraftNow(lost, doc) EXCEPT !.status = "error"], doc)
      /\ Covered([WriteDraftNow(expired, doc) EXCEPT !.status = "expired"], doc)
      /\ Covered([WriteDraftNow(refused, doc) EXCEPT !.status = "rejected"], doc)
  BY <1>1, <1>2, <1>3
<1> QED
  BY <1>4 DEF Unreachable, Unauthorized, Rejected, lost, expired, refused

LEMMA ConflictedCovers ==
    ASSUME NEW q \in Queue, NEW doc \in Doc, NEW answer,
           answer.kind \in {"conflict", "block_conflict"}, answer.seq \in Nat, answer.doc \in Doc
    PROVE  Covered(Conflicted(q, answer, doc), doc)
<1> DEFINE conflict == [kind |-> answer.kind, seq |-> answer.seq,
                        doc |-> answer.doc, fresh |-> TRUE]
           stopped == [q EXCEPT !.inFlight = None, !.followUp = FALSE, !.dirty = TRUE,
                                !.conflict = conflict, !.syncTimer = FALSE]
           written == WriteDraftNow(stopped, doc)
<1>1. conflict \in Conflict
  BY DEF Conflict
<1> HIDE DEF conflict
<1>2. stopped \in Queue
  BY <1>1 DEF Queue
<1> HIDE DEF stopped
<1>3. written \in Queue /\ Covered(written, doc)
  BY <1>2, WriteDraftNowCovers, WriteDraftNowKeeps DEF Keeps
<1> HIDE DEF written
<1>4. Covered([written EXCEPT !.status = "conflict"], doc)
  BY <1>3 DEF Queue, Covered, Held, Unsettled
<1> QED
  BY <1>4 DEF Conflicted, written, stopped, conflict

-----------------------------------------------------------------------------
(***************************************************************************)
(* The steps.                                                              *)
(***************************************************************************)
\* No question about a draft stands while anything is unsettled.
LEMMA NothingAsked ==
    ASSUME DInv, Unsettled(queue)
    PROVE  unsynced = None
BY DEF DInv, Asked

LEMMA CallbackDInv ==
    ASSUME IInv, DInv,
           \/ FlushNow \/ SyncTimer \/ DraftTimer \/ RetryTimer \/ RetryByHand \/ HidePage
    PROVE  DInv'
<1>1. /\ queue \in Queue /\ editor \in Doc /\ NewId \in Nat
      /\ Covered(queue, editor) /\ Asked
  BY PartsTyped DEF IInv, DInv
<1>2. ASSUME NEW STATE next, QueueStep(next), Covered(next, editor),
             ~Unsettled(queue) => ~Unsettled(next) /\ next.draft = queue.draft
      PROVE  DInv'
  <2>1. queue' = next /\ editor' = editor /\ unsynced' = unsynced
    BY <1>2 DEF QueueStep
  <2>2. Covered(queue, editor)'
    BY <1>2, <2>1 DEF Covered, Held, Unsettled
  <2>3. Asked'
    BY <1>1, <1>2, <2>1 DEF Asked, Unsettled
  <2> QED
    BY <2>2, <2>3 DEF DInv
<1>3. ASSUME NEW STATE next, QueueStep(next), Quieter(queue, next)
      PROVE  DInv'
  BY <1>1, <1>2, <1>3, QuieterStaysCovered DEF Quieter
<1>4. CASE FlushNow
  BY <1>1, <1>3, <1>4, FlushQuieter DEF FlushNow
<1>5. CASE SyncTimer
  BY <1>1, <1>3, <1>5, FlushQuieter DEF SyncTimer
<1>6. CASE DraftTimer
  BY <1>1, <1>2, <1>6, WriteDraftNowCovers DEF DraftTimer
<1>7. CASE RetryTimer
  BY <1>1, <1>3, <1>7, RetryNowQuieter DEF RetryTimer
<1>8. CASE RetryByHand
  BY <1>1, <1>3, <1>8, RetryNowQuieter DEF RetryByHand
<1>9. CASE HidePage
  BY <1>1, <1>2, <1>9, HideCovers DEF HidePage
<1> QED
  BY <1>4, <1>5, <1>6, <1>7, <1>8, <1>9

LEMMA EditDInv ==
    ASSUME IInv, DInv, Edit
    PROVE  DInv'
<1>1. queue \in Queue /\ queue' = Change(queue) /\ unsynced' = None
  BY PartsTyped DEF IInv, Edit
<1>2. Held(queue', editor')
  BY <1>1, ChangeHolds
<1> QED
  BY <1>1, <1>2 DEF DInv, Covered, Held, Asked

\* The draft follows the text that a newer version leaves in the editor.
LEMMA UpdatedHolds ==
    ASSUME queue \in Queue, unsynced = None, Held(queue, editor)
    PROVE  Held(Updated(queue), editor')
<1>1. CASE editor' # editor
  BY <1>1, ChangeHolds DEF Updated
<1>2. CASE editor' = editor
  BY <1>2 DEF Updated
<1> QED
  BY <1>1, <1>2

\* "Keep mine" against a conflict, by hand or by the editor itself.
LEMMA KeepMineDInv ==
    ASSUME IInv, DInv, queue.conflict # None, editor' \in Doc, unsynced' = unsynced,
           queue' = KeepMine(Updated(queue), queue.conflict.seq, queue.conflict.doc, editor', NewId)
    PROVE  DInv'
<1>1. queue \in Queue /\ NewId \in Nat /\ Unsettled(queue)
  BY PartsTyped DEF IInv, Unsettled
<1>2. queue.conflict.seq \in Nat /\ queue.conflict.doc \in Doc \cup {None}
  BY ConflictSourced
<1>3. unsynced = None /\ Held(queue, editor)
  BY <1>1, NothingAsked DEF DInv, Covered
<1> DEFINE updated == Updated(queue)
<1>4. updated \in Queue /\ Held(updated, editor')
  BY <1>1, <1>3, UpdatedHolds, UpdatedKeeps DEF Keeps
<1> HIDE DEF updated
<1>5. Covered(KeepMine(updated, queue.conflict.seq, queue.conflict.doc, editor', NewId), editor')
  BY <1>1, <1>2, <1>4, KeepMineCovers
<1>6. Covered(queue', editor')
  BY <1>5 DEF updated
<1> QED
  BY <1>3, <1>6 DEF DInv, Covered, Held, Unsettled, Asked

LEMMA KeepMineOnConflictDInv ==
    ASSUME IInv, DInv, KeepMineOnConflict
    PROVE  DInv'
<1>1. PICK dropped \in SUBSET Feedback :
          editor' = MergedText(queue.base, queue.conflict.doc, dropped)
  BY DEF KeepMineOnConflict
<1>2. queue.conflict # None
  BY DEF KeepMineOnConflict
<1>3. editor' \in Doc
  BY <1>1, <1>2, ConflictSourced, MergedTextType DEF IInv
<1> QED
  BY <1>2, <1>3, KeepMineDInv DEF KeepMineOnConflict

LEMMA LoadLatestDInv ==
    ASSUME IInv, DInv, LoadLatest
    PROVE  DInv'
<1>1. /\ queue.conflict # None /\ queue \in Queue /\ queue.inFlight = None
      /\ queue.conflict.seq \in Nat /\ queue.conflict.doc \in Doc \cup {None}
      /\ queue' = AcceptServer(queue, queue.conflict.seq, queue.conflict.doc)
      /\ unsynced' = unsynced
  BY PartsTyped, ConflictSourced DEF LoadLatest, IInv
<1>2. unsynced = None
  BY <1>1, NothingAsked DEF Unsettled
<1> DEFINE rebased == Rebase(queue, queue.conflict.seq, queue.conflict.doc)
<1>3. rebased \in Queue /\ rebased.inFlight = None
  BY <1>1, RebaseType
<1> HIDE DEF rebased
<1>4. queue' = [rebased EXCEPT
                  !.conflict = None, !.expired = FALSE, !.dirty = FALSE, !.followUp = FALSE,
                  !.pendingRetry = None, !.syncTimer = FALSE, !.retryTimer = FALSE,
                  !.draftTimer = FALSE, !.draft = None, !.status = "saved"]
  BY <1>1 DEF AcceptServer, rebased
<1>5. ~Unsettled(queue)'
  BY <1>3, <1>4 DEF Unsettled, Queue
<1> QED
  BY <1>1, <1>2, <1>5 DEF DInv, Covered, Asked

LEMMA ConflictEffectDInv ==
    ASSUME IInv, DInv, ConflictEffect
    PROVE  DInv'
<1>1. /\ queue.conflict # None /\ queue \in Queue /\ editor \in Doc
      /\ Unsettled(queue) /\ unsynced' = unsynced
  BY PartsTyped DEF ConflictEffect, IInv, Unsettled
<1>2. CASE queue' = [queue EXCEPT !.conflict.fresh = FALSE] /\ UNCHANGED editor
  <2>1. queue'.draft = queue.draft /\ queue'.draftTimer = queue.draftTimer
    BY <1>1, <1>2 DEF Queue
  <2>2. unsynced = None /\ Held(queue, editor)
    BY <1>1, NothingAsked DEF DInv, Covered
  <2> QED
    BY <1>1, <1>2, <2>1, <2>2 DEF DInv, Covered, Held, Asked
<1>3. CASE /\ \E dropped \in SUBSET Feedback :
                  editor' = MergeBlocks(queue.base, editor, queue.conflict.doc, dropped)
           /\ queue' = KeepMine(Updated(queue), queue.conflict.seq, queue.conflict.doc, editor', NewId)
  <2>1. editor' \in Doc
    BY <1>1, <1>3, ConflictSourced, MergeBlocksType
  <2> QED
    BY <1>1, <1>3, <2>1, KeepMineDInv
<1> QED
  BY <1>2, <1>3 DEF ConflictEffect

LEMMA AbsorbRemoteDInv ==
    ASSUME IInv, DInv, AbsorbRemote
    PROVE  DInv'
<1>1. queue \in Queue /\ unsynced' = unsynced /\ Covered(queue, editor) /\ Asked
  BY PartsTyped DEF AbsorbRemote, IInv, DInv
<1>2. CASE ~Absorbable
  BY <1>1, <1>2 DEF AbsorbRemote, DInv, Covered, Held, Unsettled, Asked
<1>3. CASE Absorbable
  <2> DEFINE updated == Updated(queue)
             seq == poll.seq
             doc == poll.doc
             rebased == Rebase(updated, seq, doc)
  <2>1. seq \in Nat /\ doc \in Doc /\ doc \in Doc \cup {None} /\ queue.inFlight = None
    BY <1>3 DEF AbsorbRemote, Absorbable, IInv, TypeOK, Poll
  <2>2. updated \in Queue /\ updated.inFlight = None
    BY <1>1, <2>1, UpdatedKeeps DEF Keeps
  <2>3. queue' = Adopt(updated, seq, doc)
    BY <1>3 DEF AbsorbRemote
  <2> HIDE DEF updated, seq, doc
  <2>4. queue' = rebased /\ Quieter(updated, rebased)
    BY <2>1, <2>2, <2>3, AdoptType, RebaseQuieter
  <2> HIDE DEF rebased
  <2>5. CASE unsynced # None
    <3>1. updated = queue /\ ~Unsettled(queue) /\ queue.draft = unsynced
      BY <1>1, <2>5 DEF Updated, Asked, updated
    <3>2. ~Unsettled(queue)' /\ queue'.draft = unsynced'
      BY <1>1, <2>4, <3>1 DEF Quieter, Unsettled
    <3> QED
      BY <3>2 DEF DInv, Covered, Asked
  <2>6. CASE unsynced = None
    <3>1. Covered(updated, editor')
      <4>1. CASE editor' = editor
        BY <1>1, <4>1 DEF Updated, updated
      <4>2. CASE editor' # editor
        BY <1>1, <2>6, <4>2, ChangeHolds DEF Updated, Covered, updated
      <4> QED
        BY <4>1, <4>2
    <3>2. Covered(queue', editor')
      BY <2>4, <3>1, QuieterStaysCovered
    <3> QED
      BY <1>1, <2>6, <3>2 DEF DInv, Covered, Held, Unsettled, Asked
  <2> QED
    BY <2>5, <2>6
<1> QED
  BY <1>2, <1>3

\* Answers, and requests that end without one.
LEMMA AnsweredDInv ==
    ASSUME IInv, DInv, ReceiveReply \/ LoseRequest \/ RefuseRequest
    PROVE  DInv'
<1>1. /\ queue \in Queue /\ queue.inFlight # None
      /\ editor \in Doc /\ NewId \in Nat
      /\ Covered(queue, editor) /\ unsynced' = unsynced
  BY PartsTyped DEF IInv, DInv, Wire, ReceiveReply, LoseRequest, RefuseRequest
<1>2. unsynced = None /\ Held(queue, editor)
  BY <1>1, NothingAsked DEF Covered, Unsettled
<1>3. Covered(queue', editor')
  <2>1. CASE ReceiveReply /\ TakeSaved
    <3> DEFINE base == AckedBase(queue.inFlight, reply)
               landed == Landed(queue, reply.seq, base)
               updated == Updated(landed)
    <3>1. queue' = SettleClean(updated, editor', NewId)
      BY <2>1 DEF TakeSaved
    <3>2. updated \in Queue /\ Free(updated)
      <4>1. base \in Doc \cup {None}
        BY <2>1, AckedBaseSourced DEF ReceiveReply, TakeSaved
      <4> HIDE DEF base
      <4>2. /\ queue \in Queue /\ reply.seq \in Nat
            /\ queue.pendingRetry = None /\ queue.conflict = None /\ ~queue.expired
        BY <2>1, AnswerAwaited DEF ReceiveReply
      <4>3. landed \in Queue /\ Free(landed)
        BY <4>1, <4>2, LandedType DEF Free
      <4> HIDE DEF landed
      <4> QED
        BY <4>3, UpdatedKeeps DEF Keeps
    <3>3. editor' \in Doc
      BY <2>1, ReceiveReplyIInv DEF IInv, TypeOK
    <3> HIDE DEF updated
    <3> QED
      BY <1>1, <3>1, <3>2, <3>3, SettleCleanCovers
  <2>2. CASE ReceiveReply /\ TakeRefused /\ reply.kind = "resync"
    <3>1. queue' = Resync(queue) /\ editor' = editor
      BY <2>2 DEF TakeRefused
    <3>2. queue'.draft = queue.draft /\ queue'.draftTimer = queue.draftTimer
      BY <1>1, <3>1 DEF Resync, SendPayload, Queue
    <3> QED
      BY <1>2, <3>1, <3>2 DEF Covered, Held
  <2>3. CASE ReceiveReply /\ TakeRefused /\ reply.kind # "resync"
    <3>1. /\ queue' = Conflicted(queue, reply, editor) /\ editor' = editor
          /\ reply.kind \in {"conflict", "block_conflict"}
      BY <2>3 DEF TakeRefused
    <3>2. reply.seq \in Nat /\ reply.doc \in Doc
      BY <2>3, <3>1, AnswerAwaited DEF ReceiveReply, IInv, Wire
    <3> QED
      BY <1>1, <3>1, <3>2, ConflictedCovers
  <2>4. CASE LoseRequest
    BY <1>1, <2>4, RefusalsCover DEF LoseRequest
  <2>5. CASE RefuseRequest
    BY <1>1, <2>5, RefusalsCover DEF RefuseRequest
  <2> QED
    BY <2>1, <2>2, <2>3, <2>4, <2>5 DEF ReceiveReply
<1> QED
  BY <1>1, <1>2, <1>3 DEF DInv, Covered, Held, Unsettled, Asked

-----------------------------------------------------------------------------
\* The student decides about a draft; the page dies, and opens again.
LEMMA KeepLocalDraftDInv ==
    ASSUME IInv, DInv, KeepLocalDraft
    PROVE  DInv'
<1>1. /\ queue \in Queue /\ queue.seq \in Nat /\ NewId \in Nat
      /\ editor' = unsynced.doc /\ editor' \in Doc
      /\ unsynced # None /\ unsynced' = None /\ queue.draft = unsynced
      /\ queue' = KeepMine(queue, queue.seq, None, editor', NewId)
  BY PartsTyped DEF IInv, DInv, Asked, KeepLocalDraft, Draft
<1>2. Held(queue, editor')
  BY <1>1 DEF Held
<1>3. Covered(queue', editor')
  BY <1>1, <1>2, KeepMineCovers
<1> QED
  BY <1>1, <1>3 DEF DInv, Covered, Held, Unsettled, Asked

LEMMA DiscardLocalDraftDInv ==
    ASSUME IInv, DInv, DiscardLocalDraft
    PROVE  DInv'
<1>1. /\ queue \in Queue /\ ~Unsettled(queue) /\ unsynced' = None
      /\ queue' = [queue EXCEPT !.draft = None]
  BY PartsTyped DEF IInv, DInv, Asked, DiscardLocalDraft
<1>2. ~Unsettled(queue)'
  BY <1>1 DEF Unsettled, Queue
<1> QED
  BY <1>1, <1>2 DEF DInv, Covered, Asked

LEMMA CrashDInv ==
    ASSUME Crash
    PROVE  DInv'
<1>1. unsynced' = None /\ queue' = NewQueue(0, None, queue.draft)
  BY DEF Crash
<1>2. ~Unsettled(queue)'
  BY <1>1 DEF NewQueue, Unsettled
<1> QED
  BY <1>1, <1>2 DEF DInv, Covered, Asked

LEMMA OpenDInv ==
    ASSUME IInv, Open
    PROVE  DInv'
<1> DEFINE draft == queue.draft
           decision == Reconcile(draft)
           kept == IF decision = "discard" THEN None ELSE draft
           opened == NewQueue(tab.save_seq, tab.doc, kept)
<1>1. /\ editor' = IF decision = "push" THEN draft.doc ELSE tab.doc
      /\ unsynced' = IF decision = "ask" THEN draft ELSE None
      /\ queue' = IF decision = "push"
                  THEN Flush(Change(opened), draft.doc, NewId, "load") ELSE opened
  BY DEF Open
<1>2. ~Unsettled(opened) /\ opened.draft = kept
  BY DEF NewQueue, Unsettled
<1>3. opened \in Queue
  <2>1. tab.save_seq \in Nat /\ tab.doc \in Doc \cup {None} /\ kept \in Draft \cup {None}
    BY PartsTyped DEF IInv
  <2> HIDE DEF kept
  <2> QED
    BY <2>1, NewQueueType
<1> HIDE DEF opened
<1>4. CASE decision = "push"
  <2> DEFINE changed == Change(opened)
  <2>1. changed \in Queue /\ Covered(changed, draft.doc)
    BY <1>3, ChangeKeeps, ChangeHolds DEF Keeps, Covered
  <2> HIDE DEF changed, decision, draft
  <2>2. queue' = Flush(changed, draft.doc, NewId, "load") /\ editor' = draft.doc /\ unsynced' = None
    BY <1>1, <1>4 DEF changed
  <2>3. Covered(queue', editor')
    BY <2>1, <2>2, FlushQuieter, QuieterStaysCovered
  <2> QED
    BY <2>2, <2>3 DEF DInv, Covered, Held, Unsettled, Asked
<1>5. CASE decision # "push"
  <2>1. queue' = opened /\ (unsynced' # None => kept = unsynced')
    BY <1>1, <1>5
  <2>2. ~Unsettled(queue)' /\ (unsynced' # None => queue'.draft = unsynced')
    BY <1>2, <2>1 DEF Unsettled
  <2> QED
    BY <2>2 DEF DInv, Covered, Asked
<1> QED
  BY <1>4, <1>5

-----------------------------------------------------------------------------
LEMMA InitDInv == Init => DInv
BY DEF Init, DInv, Covered, Asked, NewQueue, Unsettled

LEMMA StepDInv == IInv /\ DInv /\ [Next]_vars => DInv'
<1> SUFFICES ASSUME IInv, DInv, [Next]_vars PROVE DInv'
  OBVIOUS
<1>1. CASE UNCHANGED <<queue, editor, unsynced>>
  BY <1>1 DEF DInv, Covered, Held, Unsettled, Asked
<1>2. CASE ServerStep
  BY <1>1, <1>2 DEF ServerStep, AutosaveSent, AutosaveLate, CounselorMarks, OtherDeviceSaves,
                    OtherDeviceRestores
<1>3. CASE PollChanges
  BY <1>1, <1>3 DEF PollChanges
<1>4. CASE ClientStep
  BY <1>3, <1>4, CallbackDInv, EditDInv, AnsweredDInv, ConflictEffectDInv, KeepMineOnConflictDInv,
     LoadLatestDInv, AbsorbRemoteDInv, CrashDInv, OpenDInv, KeepLocalDraftDInv,
     DiscardLocalDraftDInv DEF ClientStep
<1>5. CASE UNCHANGED vars
  BY <1>1, <1>5 DEF vars
<1> QED
  BY <1>2, <1>4, <1>5 DEF Next

\* Text that is not on the server is in the draft on this device, unless the
\* throttled write is due, in every state of any number of steps (writeDraftNow
\* in settleClean and failed, scheduleDraft in change, reconcileDraft).
THEOREM DraftIsCurrent == Spec => []DraftCoversText
<1>1. DInv => DraftCoversText
  BY DEF DInv, Covered, Held, DraftCoversText
<1>2. Spec => []DInv
  BY Invariance, InitDInv, StepDInv, PTL DEF Spec
<1> QED
  BY <1>1, <1>2, PTL

-----------------------------------------------------------------------------
(***************************************************************************)
(* The "Saved" badge.                                                      *)
(*                                                                         *)
(* The documents the server has stored, and those whose typing it has      *)
(* stored block by block, perhaps in different versions.                   *)
(***************************************************************************)
StoredDocs == {doc \in Doc : \E n \in DOMAIN versions : versions[n] = doc}

TypedDocs ==
    {doc \in Doc : \A b \in Blocks : \E n \in DOMAIN versions : doc[b] \cap Typed \subseteq versions[n][b]}

\* What "Saved" may stand over, before and after a replay hid another version.
Backed == IF skipped THEN TypedDocs ELSE StoredDocs

\* Requests that start from a stored text, and that the server calls a replay
\* only when the typing they carry is stored.
Honest ==
    {p \in Payload : /\ p.id # 0
                     /\ p.kind = "ops" => p.from \in TypedDocs
                     /\ p.id = tab.last_client_save_id => p.to \in TypedDocs}

\* Requests that carry the same text as an abandoned one of the same id.
Twins == {p \in Payload : late # None /\ late.id = p.id => late.to = p.to}

BInv ==
    /\ page = "open" => Tells(queue, editor, Backed)
    /\ unsynced # None => queue.base = editor
    /\ queue.base # None => queue.base \in TypedDocs
    /\ Requests(queue) \subseteq Honest \cap Twins
    /\ late # None => late \in Honest
    /\ reply # None /\ reply.kind = "saved" => queue.inFlight.to \in StoredDocs
    /\ reply # None /\ reply.kind \in {"merged", "replay"} => queue.inFlight.to \in TypedDocs

LEMMA StoredIsTyped == StoredDocs \subseteq Backed /\ Backed \subseteq TypedDocs
<1>1. StoredDocs \subseteq TypedDocs
  BY DEF StoredDocs, TypedDocs
<1> QED
  BY <1>1 DEF Backed

LEMMA VersionIsStored ==
    ASSUME TypeOK, NEW n, NEW doc, Version(n, doc)
    PROVE  doc \in StoredDocs /\ doc \in Backed /\ doc \in TypedDocs
<1>1. doc \in StoredDocs
  BY DEF Version, StoredDocs, TypeOK
<1> QED
  BY <1>1, StoredIsTyped

\* The document the queue builds on may stand under the badge.
LEMMA BaseIsBacked ==
    ASSUME IInv, BInv, queue.base # None
    PROVE  queue.base \in Backed
<1>1. CASE skipped
  BY <1>1 DEF BInv, Backed
<1>2. CASE ~skipped
  BY <1>2, VersionIsStored DEF IInv, Sourced
<1> QED
  BY <1>1, <1>2

\* Nothing stored is ever lost, and what was stored stays so.
LEMMA GrownKeepsStored ==
    ASSUME Grown
    PROVE  /\ StoredDocs \subseteq StoredDocs' /\ TypedDocs \subseteq TypedDocs'
           /\ skipped' = skipped => Backed \subseteq Backed'
<1>1. StoredDocs \subseteq StoredDocs'
  BY DEF Grown, StoredDocs
<1>2. TypedDocs \subseteq TypedDocs'
  BY DEF Grown, TypedDocs
<1> QED
  BY <1>1, <1>2 DEF Backed

LEMMA SameServerSameStored ==
    ASSUME UNCHANGED <<tab, versions>>
    PROVE  /\ StoredDocs' = StoredDocs /\ TypedDocs' = TypedDocs /\ Honest' = Honest
           /\ skipped' = skipped => Backed' = Backed
           /\ late' = late => Twins' = Twins
<1>1. StoredDocs' = StoredDocs
  BY DEF StoredDocs
<1>2. TypedDocs' = TypedDocs
  BY DEF TypedDocs
<1>3. Honest' = Honest
  BY <1>2 DEF Honest
<1> QED
  BY <1>1, <1>2, <1>3 DEF Backed, Twins

LEMMA NewIdIsFresh ==
    ASSUME TypeOK
    PROVE  /\ NewId \in Nat /\ NewId # 0 /\ NewId # tab.last_client_save_id
           /\ late # None => late.id # NewId
<1> DEFINE Fresh(id) == id # tab.last_client_save_id /\ (late # None => id # late.id)
<1>1. \E id \in 1..3 : Fresh(id)
  <2>1. 1 \in 1..3 /\ 2 \in 1..3 /\ 3 \in 1..3
    OBVIOUS
  <2>2. Fresh(1) \/ Fresh(2) \/ Fresh(3)
    OBVIOUS
  <2> QED
    BY <2>1, <2>2
<1>2. NewId \in 1..3 /\ Fresh(NewId)
  BY <1>1 DEF NewId
<1> QED
  BY <1>2

\* The request a snapshot becomes.
LEMMA NewRequestIsHonest ==
    ASSUME TypeOK, NEW q \in Queue, NEW doc \in Doc, q.base # None => q.base \in TypedDocs
    PROVE  MakePayload(q, doc, NewId) \in Honest \cap Twins
<1> DEFINE p == MakePayload(q, doc, NewId)
<1>1. p \in Payload /\ p.id = NewId /\ (p.kind = "ops" => p.from \in TypedDocs)
  BY NewIdIsFresh, MakePayloadType DEF MakePayload
<1> HIDE DEF p
<1>2. p \in Honest /\ p \in Twins
  BY <1>1, NewIdIsFresh DEF Honest, Twins
<1> QED
  BY <1>2 DEF p

-----------------------------------------------------------------------------
\* The server.  A save whose outcome is stored leaves the typing of the request
\* stored: the blocks it names in the new version, the others in an older one.
LEMMA OutcomeIsTyped ==
    ASSUME NEW payload \in Honest, TypedDocs \subseteq TypedDocs', Outcome(payload) \in StoredDocs'
    PROVE  payload.to \in TypedDocs'
<1>1. payload.to \in Doc
  BY DEF Honest, Payload
<1>2. PICK n \in DOMAIN versions' : versions'[n] = Outcome(payload)
  BY DEF StoredDocs
<1>3. ASSUME NEW b \in Blocks
      PROVE  \E m \in DOMAIN versions' : payload.to[b] \cap Typed \subseteq versions'[m][b]
  <2>1. CASE payload.kind # "ops" \/ payload.from[b] # payload.to[b]
    <3>1. Outcome(payload)[b] = payload.to[b]
      BY <2>1 DEF Outcome, ApplyOps, Changed
    <3> QED
      BY <1>2, <3>1
  <2>2. CASE payload.kind = "ops" /\ payload.from[b] = payload.to[b]
    BY <2>2 DEF Honest, TypedDocs
  <2> QED
    BY <2>1, <2>2
<1> QED
  BY <1>1, <1>3 DEF TypedDocs

LEMMA AcceptedIsTyped ==
    ASSUME TypeOK, Sourced, NEW payload \in Honest, Accepted(payload), Autosave(payload)
    PROVE  /\ payload.to \in TypedDocs' /\ tab'.last_client_save_id = payload.id
           /\ Outcome(payload) \in StoredDocs' /\ versions'[tab.save_seq + 1] = Outcome(payload)
<1>1. payload \in Payload /\ payload.id \in Nat
  BY DEF Honest, Payload
<1>2. Store(Outcome(payload), payload.id) /\ Outcome(payload) \in Doc
  BY <1>1, OutcomeType DEF Autosave
<1>3. Grown /\ tab'.save_seq = tab.save_seq + 1 /\ tab'.doc = Outcome(payload)
  BY <1>1, <1>2, StoreGrows
<1>4. versions'[tab.save_seq + 1] = Outcome(payload) /\ Outcome(payload) \in StoredDocs'
  BY <1>2, <1>3 DEF Grown, Version, StoredDocs
<1>5. tab'.last_client_save_id = payload.id
  BY <1>2 DEF Store
<1>6. payload.to \in TypedDocs'
  BY <1>3, <1>4, OutcomeIsTyped, GrownKeepsStored
<1> QED
  BY <1>4, <1>5, <1>6

\* What a good answer tells the client is so.
LEMMA AnswerIsHonest ==
    ASSUME TypeOK, Sourced, NEW payload \in Honest, NEW rewritten \in BOOLEAN, Autosave(payload)
    PROVE  LET answer == AutosaveAnswer(payload, rewritten)
           IN  /\ answer.kind = "saved" => /\ payload.to \in StoredDocs'
                                          /\ versions'[answer.seq] = payload.to
               /\ answer.kind \in {"merged", "replay"} => payload.to \in TypedDocs'
<1> DEFINE answer == AutosaveAnswer(payload, rewritten)
<1>1. payload \in Payload
  BY DEF Honest
<1>2. Grown
  BY <1>1, AutosaveGrows
<1>3. /\ StoredDocs \subseteq StoredDocs' /\ TypedDocs \subseteq TypedDocs'
      /\ Version(tab.save_seq, tab.doc) /\ tab.doc \in StoredDocs
  BY <1>2, GrownKeepsStored, VersionIsStored DEF Sourced
<1>4. answer.kind = "replay" => Replayed(payload)
  BY DEF AutosaveAnswer
<1>5. answer.kind \in {"saved", "merged"} =>
          /\ Unchanged(payload) \/ Accepted(payload)
          /\ answer.seq = IF Unchanged(payload) THEN tab.save_seq ELSE tab.save_seq + 1
  BY DEF AutosaveAnswer, Accepted
<1>6. answer.kind = "saved" => Outcome(payload) = payload.to
  BY DEF AutosaveAnswer, Mismatched
<1>7. Replayed(payload) => payload.to \in TypedDocs'
  BY <1>3 DEF Replayed, Honest
<1>8. Unchanged(payload) => Outcome(payload) = tab.doc /\ Outcome(payload) \in StoredDocs'
                            /\ versions'[tab.save_seq] = Outcome(payload)
  BY <1>2, <1>3 DEF Unchanged, Grown, Version
<1>9. Accepted(payload) => /\ Outcome(payload) \in StoredDocs'
                           /\ versions'[tab.save_seq + 1] = Outcome(payload)
                           /\ ~Unchanged(payload)
  BY AcceptedIsTyped DEF Accepted
<1>10. Outcome(payload) \in StoredDocs' => payload.to \in TypedDocs'
  BY <1>3, OutcomeIsTyped
<1> HIDE DEF answer
<1>11. /\ answer.kind = "saved" => /\ payload.to \in StoredDocs'
                                   /\ versions'[answer.seq] = payload.to
       /\ answer.kind \in {"merged", "replay"} => payload.to \in TypedDocs'
  BY <1>4, <1>5, <1>6, <1>7, <1>8, <1>9, <1>10
<1> QED
  BY <1>11 DEF answer

\* A save stores its own typing, and with it that of any request of its id.
LEMMA AutosaveKeepsHonest ==
    ASSUME TypeOK, Sourced, NEW payload \in Honest, Autosave(payload),
           NEW p \in Honest, p.id = payload.id => p.to = payload.to
    PROVE  p \in Honest'
<1>1. payload \in Payload /\ p \in Payload
  BY DEF Honest
<1>2. Grown /\ TypedDocs \subseteq TypedDocs'
  BY <1>1, AutosaveGrows, GrownKeepsStored
<1>3. p.id # 0 /\ (p.kind = "ops" => p.from \in TypedDocs')
  BY <1>2 DEF Honest
<1>4. p.id = tab'.last_client_save_id => p.to \in TypedDocs'
  <2>1. CASE Accepted(payload)
    BY <2>1, AcceptedIsTyped
  <2>2. CASE ~Accepted(payload)
    BY <1>2, <2>2 DEF Autosave, serverVars, Honest
  <2> QED
    BY <2>1, <2>2
<1> QED
  BY <1>1, <1>3, <1>4 DEF Honest

\* The other writers leave the last id of this client, or none.
LEMMA StoreKeepsHonest ==
    ASSUME TypeOK, Sourced, NEW doc \in Doc, NEW saveId \in {0, tab.last_client_save_id},
           Store(doc, saveId)
    PROVE  Honest \subseteq Honest' /\ Grown
<1>1. saveId \in Nat
  BY DEF TypeOK, TabRow
<1>2. Grown
  BY <1>1, StoreGrows
<1>3. TypedDocs \subseteq TypedDocs' /\ tab'.last_client_save_id = saveId
  BY <1>2, GrownKeepsStored DEF Store
<1> QED
  BY <1>2, <1>3 DEF Honest

\* A step of the server leaves the client's side of the matter alone.
LEMMA ServerKeepsBInv ==
    ASSUME IInv, BInv, Grown, late' \in {late, None},
           UNCHANGED <<queue, editor, unsynced, page, skipped>>,
           Requests(queue) \subseteq Honest',
           late' # None => late' \in Honest',
           reply' # None /\ reply'.kind = "saved" => queue.inFlight.to \in StoredDocs',
           reply' # None /\ reply'.kind \in {"merged", "replay"} => queue.inFlight.to \in TypedDocs'
    PROVE  BInv'
<1>1. /\ StoredDocs \subseteq StoredDocs' /\ TypedDocs \subseteq TypedDocs'
      /\ Backed \subseteq Backed'
  BY GrownKeepsStored
<1>2. page' = "open" => Tells(queue, editor, Backed)'
  BY <1>1 DEF BInv, Tells, Unsettled
<1>3. Requests(queue)' = Requests(queue)
  BY DEF Requests
<1>4. Requests(queue) \subseteq Twins'
  BY DEF BInv, Twins
<1> QED
  BY <1>1, <1>2, <1>3, <1>4 DEF BInv

LEMMA AutosaveSentBInv ==
    ASSUME IInv, BInv, AutosaveSent
    PROVE  BInv'
<1>1. /\ sent # None /\ Autosave(sent) /\ sent = queue.inFlight
      /\ late' = late /\ UNCHANGED <<queue, editor, unsynced, page, skipped>>
      /\ TypeOK /\ Sourced
  BY DEF AutosaveSent, IInv, Wire
<1>2. queue.pendingRetry = None
  BY <1>1 DEF IInv, Alive
<1>3. Requests(queue) = {sent} /\ sent \in Honest /\ sent \in Twins
  BY <1>1, <1>2 DEF Requests, BInv
<1>4. Grown
  BY <1>1, <1>3, AutosaveGrows DEF Honest
<1>5. PICK rewritten \in Rewrites : reply' = AutosaveAnswer(sent, rewritten)
  BY DEF AutosaveSent
<1>6. rewritten \in BOOLEAN
  BY BoundsAreNaturals
<1>7. /\ reply'.kind = "saved" => sent.to \in StoredDocs'
      /\ reply'.kind \in {"merged", "replay"} => sent.to \in TypedDocs'
  BY <1>1, <1>3, <1>5, <1>6, AnswerIsHonest
<1>8. sent \in Honest'
  BY <1>1, <1>3, AutosaveKeepsHonest
<1>9. late # None => late \in Honest'
  <2>1. late # None => late \in Honest /\ (late.id = sent.id => late.to = sent.to)
    BY <1>3 DEF BInv, Twins
  <2> QED
    BY <1>1, <1>3, <2>1, AutosaveKeepsHonest
<1> QED
  BY <1>1, <1>3, <1>4, <1>7, <1>8, <1>9, ServerKeepsBInv

LEMMA AutosaveLateBInv ==
    ASSUME IInv, BInv, AutosaveLate
    PROVE  BInv'
<1>1. /\ late # None /\ Autosave(late) /\ late' = None /\ reply' = reply
      /\ UNCHANGED <<queue, editor, unsynced, page, skipped>>
      /\ TypeOK /\ Sourced
  BY DEF AutosaveLate, IInv
<1>2. late \in Honest
  BY <1>1 DEF BInv
<1>3. Grown
  BY <1>1, <1>2, AutosaveGrows DEF Honest
<1>4. Requests(queue) \subseteq Honest'
  <2>1. ASSUME NEW p \in Requests(queue) PROVE p \in Honest'
    <3>1. p \in Honest /\ (late.id = p.id => late.to = p.to)
      BY <1>1, <2>1 DEF BInv, Twins
    <3> QED
      BY <1>1, <1>2, <3>1, AutosaveKeepsHonest
  <2> QED
    BY <2>1
<1>5. StoredDocs \subseteq StoredDocs' /\ TypedDocs \subseteq TypedDocs'
  BY <1>3, GrownKeepsStored
<1>6. /\ reply' # None /\ reply'.kind = "saved" => queue.inFlight.to \in StoredDocs'
      /\ reply' # None /\ reply'.kind \in {"merged", "replay"} => queue.inFlight.to \in TypedDocs'
  BY <1>1, <1>5 DEF BInv
<1> QED
  BY <1>1, <1>3, <1>4, <1>6, ServerKeepsBInv

\* Other people's writes.
LEMMA OtherWriteBInv ==
    ASSUME IInv, BInv, NEW doc \in Doc, NEW saveId \in {0, tab.last_client_save_id},
           Store(doc, saveId),
           UNCHANGED <<queue, editor, unsynced, page, late, reply, skipped>>
    PROVE  BInv'
<1>1. Honest \subseteq Honest' /\ Grown
  BY StoreKeepsHonest DEF IInv
<1>2. StoredDocs \subseteq StoredDocs' /\ TypedDocs \subseteq TypedDocs'
  BY <1>1, GrownKeepsStored
<1>3. Requests(queue) \subseteq Honest' /\ (late' # None => late' \in Honest')
  BY <1>1 DEF BInv
<1>4. /\ reply' # None /\ reply'.kind = "saved" => queue.inFlight.to \in StoredDocs'
      /\ reply' # None /\ reply'.kind \in {"merged", "replay"} => queue.inFlight.to \in TypedDocs'
  BY <1>2 DEF BInv
<1> QED
  BY <1>1, <1>3, <1>4, ServerKeepsBInv

LEMMA ServerStepBInv ==
    ASSUME IInv, BInv, ServerStep
    PROVE  BInv'
<1>1. tab.doc \in Doc /\ versions \in Seq(Doc)
  BY PartsTyped DEF IInv, TypeOK
<1>2. CASE CounselorMarks
  <2>1. PICK b \in Blocks, mark \in Feedback \ UsedPieces :
            Store([tab.doc EXCEPT ![b] = @ \cup {mark}], tab.last_client_save_id)
    BY <1>2 DEF CounselorMarks
  <2>2. [tab.doc EXCEPT ![b] = @ \cup {mark}] \in Doc
    BY <1>1, <2>1 DEF Doc, Piece, Foreign
  <2> QED
    BY <1>2, <2>1, <2>2, OtherWriteBInv DEF CounselorMarks, networkVars
<1>3. CASE OtherDeviceSaves
  <2>1. PICK b \in Blocks, text \in Elsewhere \ UsedPieces :
            Store([tab.doc EXCEPT ![b] = @ \cup {text}], 0)
    BY <1>3 DEF OtherDeviceSaves
  <2>2. [tab.doc EXCEPT ![b] = @ \cup {text}] \in Doc
    BY <1>1, <2>1 DEF Doc, Piece, Foreign
  <2> QED
    BY <1>3, <2>1, <2>2, OtherWriteBInv DEF OtherDeviceSaves, networkVars
<1>4. CASE OtherDeviceRestores
  <2>1. PICK n \in DOMAIN versions : Store(versions[n], tab.last_client_save_id)
    BY <1>4 DEF OtherDeviceRestores
  <2>2. versions[n] \in Doc
    BY <1>1, <2>1
  <2> QED
    BY <1>4, <2>1, <2>2, OtherWriteBInv DEF OtherDeviceRestores, networkVars
<1> QED
  BY <1>2, <1>3, <1>4, AutosaveSentBInv, AutosaveLateBInv DEF ServerStep

-----------------------------------------------------------------------------
\* The client.  A step that hears of no new version, and gives up no request.
LEMMA ClientKeepsBInv ==
    ASSUME IInv, BInv, UNCHANGED <<tab, versions, late>>,
           page' = "open" => Tells(queue', editor', Backed'),
           unsynced' # None => queue'.base = editor',
           queue'.base # None => queue'.base \in TypedDocs,
           Requests(queue') \subseteq Honest \cap Twins,
           reply' # None => reply' = reply /\ queue'.inFlight = queue.inFlight
    PROVE  BInv'
<1>1. /\ StoredDocs' = StoredDocs /\ TypedDocs' = TypedDocs /\ Honest' = Honest /\ Twins' = Twins
  BY SameServerSameStored
<1>2. page' = "open" => Tells(queue, editor, Backed)'
  BY DEF Tells, Unsettled
<1>3. Requests(queue)' \subseteq Honest' \cap Twins'
  BY <1>1 DEF Requests
<1>4. late' # None => late' \in Honest'
  BY <1>1 DEF BInv
<1>5. /\ reply' # None /\ reply'.kind = "saved" => queue'.inFlight.to \in StoredDocs'
      /\ reply' # None /\ reply'.kind \in {"merged", "replay"} => queue'.inFlight.to \in TypedDocs'
  BY <1>1 DEF BInv
<1>6. queue'.base # None => queue'.base \in TypedDocs'
  BY <1>1
<1> QED
  BY <1>2, <1>3, <1>4, <1>5, <1>6 DEF BInv

\* What a function of the queue sends, when it was handed the queue's base.
LEMMA SendsHonest ==
    ASSUME TypeOK, NEW q \in Queue, NEW r, NEW doc \in Doc,
           Sends(q, r, doc, NewId), Requests(q) \subseteq Honest \cap Twins,
           q.base # None => q.base \in TypedDocs
    PROVE  Requests(r) \subseteq Honest \cap Twins
<1>1. MakePayload(q, doc, NewId) \in Honest \cap Twins
  BY NewRequestIsHonest
<1> QED
  BY <1>1 DEF Sends

LEMMA CallbackBInv ==
    ASSUME IInv, BInv,
           \/ FlushNow \/ SyncTimer \/ DraftTimer \/ RetryTimer \/ RetryByHand \/ HidePage
    PROVE  BInv'
<1>1. /\ queue \in Queue /\ editor \in Doc /\ NewId \in Nat /\ TypeOK
      /\ Requests(queue) \subseteq Honest \cap Twins
      /\ queue.base # None => queue.base \in Backed /\ queue.base \in TypedDocs
  BY PartsTyped, BaseIsBacked DEF IInv, BInv
<1>2. page = "open"
  BY DEF FlushNow, SyncTimer, DraftTimer, RetryTimer, RetryByHand, HidePage, QueueStep
<1>3. Tells(queue, editor, Backed)
  BY <1>2 DEF BInv
<1>4. ASSUME NEW STATE next, QueueStep(next), Keeps(queue, next),
             Tells(next, editor, Backed), Sends(queue, next, editor, NewId)
      PROVE  BInv'
  <2>1. /\ queue' = next /\ UNCHANGED <<tab, versions, late, editor, unsynced, reply, skipped>>
        /\ queue'.base = queue.base
        /\ queue.inFlight # None => queue'.inFlight = queue.inFlight
    BY <1>4 DEF QueueStep, Keeps
  <2>2. Backed' = Backed
    BY <2>1, SameServerSameStored
  <2>3. Requests(queue') \subseteq Honest \cap Twins
    BY <1>1, <1>4, <2>1, SendsHonest
  <2>4. Tells(queue', editor', Backed')
    BY <1>4, <2>1, <2>2
  <2>5. unsynced' # None => queue'.base = editor'
    BY <2>1 DEF BInv
  <2>6. reply' # None => reply' = reply /\ queue'.inFlight = queue.inFlight
    BY <2>1 DEF IInv, Wire
  <2> QED
    BY <1>1, <2>1, <2>3, <2>4, <2>5, <2>6, ClientKeepsBInv
<1>5. CASE FlushNow
  BY <1>1, <1>3, <1>4, <1>5, FlushKeeps, FlushTells DEF FlushNow
<1>6. CASE SyncTimer
  BY <1>1, <1>3, <1>4, <1>6, FlushKeeps, FlushTells DEF SyncTimer
<1>7. CASE DraftTimer
  <2>1. Keeps(queue, WriteDraftNow(queue, editor)) /\ Like(queue, WriteDraftNow(queue, editor))
    BY <1>1, WriteDraftNowKeeps, WriteDraftNowLike
  <2>2. /\ Tells(WriteDraftNow(queue, editor), editor, Backed)
        /\ Sends(queue, WriteDraftNow(queue, editor), editor, NewId)
    BY <1>3, <2>1, LikeTells DEF Sends
  <2> QED
    BY <1>4, <1>7, <2>1, <2>2 DEF DraftTimer
<1>8. CASE RetryTimer
  BY <1>1, <1>3, <1>4, <1>8, RetryNowKeeps, RetryNowTells DEF RetryTimer
<1>9. CASE RetryByHand
  BY <1>1, <1>3, <1>4, <1>9, RetryNowKeeps, RetryNowTells DEF RetryByHand
<1>10. CASE HidePage
  BY <1>1, <1>3, <1>4, <1>10, HideKeeps, HideTells DEF HidePage
<1> QED
  BY <1>5, <1>6, <1>7, <1>8, <1>9, <1>10

LEMMA EditBInv ==
    ASSUME IInv, BInv, Edit
    PROVE  BInv'
<1>1. /\ queue \in Queue /\ queue' = Change(queue) /\ unsynced' = None
      /\ UNCHANGED <<tab, versions, late, reply>>
  BY PartsTyped DEF IInv, Edit
<1>2. Tells(queue', editor', Backed') /\ Requests(queue') = Requests(queue)
  BY <1>1, ChangeTells
<1>3. queue'.base = queue.base /\ queue'.inFlight = queue.inFlight
  BY <1>1, ChangeKeeps, ChangeAlive DEF Keeps
<1>4. Requests(queue') \subseteq Honest \cap Twins /\ (queue'.base # None => queue'.base \in TypedDocs)
  BY <1>2, <1>3 DEF BInv
<1> QED
  BY <1>1, <1>2, <1>3, <1>4, ClientKeepsBInv

-----------------------------------------------------------------------------
\* The update event owes the server the text that it finds.
LEMMA UpdatedTells ==
    ASSUME NEW q \in Queue, NEW stored, unsynced = None, Tells(q, editor, stored)
    PROVE  Tells(Updated(q), editor', stored)
<1>1. CASE editor' # editor
  BY <1>1, ChangeTells DEF Updated
<1>2. CASE editor' = editor
  BY <1>2 DEF Updated
<1> QED
  BY <1>1, <1>2

LEMMA UpdatedOwes ==
    ASSUME NEW q \in Queue
    PROVE  /\ Requests(Updated(q)) = Requests(q)
           /\ Updated(q).pendingRetry = q.pendingRetry /\ Updated(q).expired = q.expired
           /\ ~Updated(q).dirty => ~q.dirty /\ (unsynced = None => editor' = editor)
BY ChangeTells DEF Updated

\* With the client's document as the base, the merge is the server's document.
LEMMA MergeOfUnchanged ==
    ASSUME NEW local \in Doc, NEW server \in Doc, NEW dropped
    PROVE  MergeBlocks(local, local, server, dropped) = server
BY DEF MergeBlocks, Changed, Doc

\* "Keep mine" against a conflict, by hand or by the editor itself.
LEMMA KeepMineBInv ==
    ASSUME IInv, DInv, BInv, queue.conflict # None, editor' \in Doc,
           queue' = KeepMine(Updated(queue), queue.conflict.seq, queue.conflict.doc, editor', NewId),
           UNCHANGED <<tab, versions, late, unsynced, skipped, reply>>
    PROVE  BInv'
<1>1. /\ queue \in Queue /\ NewId \in Nat /\ TypeOK /\ Alive(queue)
      /\ unsynced = None
  BY PartsTyped, NothingAsked DEF IInv, Unsettled
<1>2. /\ queue.inFlight = None /\ queue.conflict.seq \in Nat /\ queue.conflict.doc \in Doc
      /\ Version(queue.conflict.seq, queue.conflict.doc)
  BY ConflictSourced
<1>3. queue.pendingRetry = None /\ ~queue.expired
  BY <1>1 DEF Alive
<1> DEFINE updated == Updated(queue)
           seq == queue.conflict.seq
           doc == queue.conflict.doc
           rebased == Rebase(updated, seq, doc)
<1>4. /\ updated \in Queue /\ updated.inFlight = None
      /\ updated.pendingRetry = None /\ ~updated.expired
  BY <1>1, <1>2, <1>3, UpdatedKeeps, UpdatedOwes DEF Keeps
<1>5. /\ seq \in Nat /\ doc \in Doc \cup {None} /\ doc # None
      /\ doc \in Backed /\ doc \in TypedDocs
      /\ queue' = KeepMine(updated, seq, doc, editor', NewId)
  BY <1>1, <1>2, DocIsNotNone, VersionIsStored
<1> HIDE DEF updated, seq, doc
<1>6. rebased \in Queue /\ rebased.base = doc
  BY <1>4, <1>5, RebaseType
<1> HIDE DEF rebased
<1>7. /\ Tells(queue', editor', Backed)
      /\ Requests(queue') \subseteq {MakePayload(rebased, editor', NewId)}
  BY <1>1, <1>4, <1>5, <1>6, KeepMineTells DEF rebased
<1>8. MakePayload(rebased, editor', NewId) \in Honest \cap Twins
  BY <1>1, <1>5, <1>6, NewRequestIsHonest
<1>9. queue'.base = doc
  BY <1>1, KeepMineAgainstConflict DEF doc
<1>10. Backed' = Backed
  BY SameServerSameStored
<1>11. reply' = None
  BY <1>2 DEF IInv, Wire
<1>12. Requests(queue') \subseteq Honest \cap Twins /\ unsynced' = None /\ queue'.base \in TypedDocs
  BY <1>1, <1>5, <1>7, <1>8, <1>9
<1>13. Tells(queue', editor', Backed')
  BY <1>7, <1>10
<1> QED
  BY <1>11, <1>12, <1>13, ClientKeepsBInv

LEMMA KeepMineOnConflictBInv ==
    ASSUME IInv, DInv, BInv, KeepMineOnConflict
    PROVE  BInv'
<1>1. PICK dropped \in SUBSET Feedback :
          editor' = MergedText(queue.base, queue.conflict.doc, dropped)
  BY DEF KeepMineOnConflict
<1>2. queue.conflict # None
  BY DEF KeepMineOnConflict
<1>3. editor' \in Doc
  BY <1>1, <1>2, ConflictSourced, MergedTextType DEF IInv
<1> QED
  BY <1>2, <1>3, KeepMineBInv DEF KeepMineOnConflict

LEMMA ConflictEffectBInv ==
    ASSUME IInv, DInv, BInv, ConflictEffect
    PROVE  BInv'
<1>1. /\ queue.conflict # None /\ queue \in Queue /\ editor \in Doc /\ page = "open"
      /\ UNCHANGED <<tab, versions, late, unsynced, skipped, reply>>
  BY PartsTyped DEF ConflictEffect, IInv
<1>2. CASE queue' = [queue EXCEPT !.conflict.fresh = FALSE] /\ UNCHANGED editor
  <2>1. queue.conflict \in Conflict
    BY <1>1, ConflictSourced
  <2>2. /\ queue'.conflict # None /\ queue'.base = queue.base
        /\ queue'.dirty = queue.dirty /\ queue'.status = queue.status
        /\ queue'.inFlight = queue.inFlight /\ queue'.pendingRetry = queue.pendingRetry
    <3>1. [queue.conflict EXCEPT !.fresh = FALSE] \in Conflict
      BY <2>1 DEF Conflict
    <3> QED
      BY <1>1, <1>2, <3>1, NoneIsNothing DEF Queue
  <2>3. Unsettled(queue') /\ Unsettled(queue)
    BY <1>1, <2>2 DEF Unsettled
  <2>4. Requests(queue') = Requests(queue) /\ Backed' = Backed
    BY <1>1, <2>2, SameServerSameStored DEF Requests
  <2>5. Tells(queue, editor, Backed)
    BY <1>1 DEF BInv
  <2>6. Tells(queue', editor', Backed')
    BY <1>2, <2>2, <2>3, <2>4, <2>5 DEF Tells
  <2>7. /\ unsynced' # None => queue'.base = editor'
        /\ queue'.base # None => queue'.base \in TypedDocs
        /\ Requests(queue') \subseteq Honest \cap Twins
    BY <1>1, <1>2, <2>2, <2>4 DEF BInv
  <2> QED
    BY <1>1, <2>2, <2>6, <2>7, ClientKeepsBInv
<1>3. CASE /\ \E dropped \in SUBSET Feedback :
                  editor' = MergeBlocks(queue.base, editor, queue.conflict.doc, dropped)
           /\ queue' = KeepMine(Updated(queue), queue.conflict.seq, queue.conflict.doc, editor', NewId)
  <2>1. editor' \in Doc
    BY <1>1, <1>3, ConflictSourced, MergeBlocksType
  <2> QED
    BY <1>1, <1>3, <2>1, KeepMineBInv
<1> QED
  BY <1>2, <1>3 DEF ConflictEffect

LEMMA LoadLatestBInv ==
    ASSUME IInv, DInv, BInv, LoadLatest
    PROVE  BInv'
<1>1. /\ queue.conflict # None /\ queue \in Queue /\ TypeOK
      /\ editor' = queue.conflict.doc
      /\ queue' = AcceptServer(queue, queue.conflict.seq, queue.conflict.doc)
      /\ UNCHANGED <<tab, versions, late, unsynced, skipped, reply>>
  BY PartsTyped DEF LoadLatest, IInv
<1>2. unsynced = None
  BY <1>1, NothingAsked DEF Unsettled
<1> DEFINE seq == queue.conflict.seq
           doc == queue.conflict.doc
           rebased == Rebase(queue, seq, doc)
<1>3. /\ queue.inFlight = None /\ seq \in Nat /\ doc \in Doc \cup {None} /\ doc # None
      /\ doc \in Backed /\ doc \in TypedDocs
  BY <1>1, ConflictSourced, DocIsNotNone, VersionIsStored
<1> HIDE DEF seq, doc
<1>4. rebased.base = doc
  BY <1>1, <1>3, RebaseType
<1>5. queue'.base = doc
  BY <1>1, <1>3, <1>4, AcceptServerType DEF Keeps, seq, doc
<1>6. Tells(queue', editor', Backed) /\ Requests(queue') = {}
  BY <1>1, <1>3, AcceptServerTells DEF seq, doc
<1>7. Tells(queue', editor', Backed')
  BY <1>1, <1>6, SameServerSameStored
<1>8. reply' = None
  BY <1>1, <1>3 DEF IInv, Wire
<1> QED
  BY <1>1, <1>2, <1>3, <1>5, <1>6, <1>7, <1>8, ClientKeepsBInv

\* A poll's answer: an editor with nothing unsaved shows the polled version, and
\* one with unsaved text is dirty.
LEMMA AbsorbRemoteBInv ==
    ASSUME IInv, DInv, BInv, AbsorbRemote
    PROVE  BInv'
<1>1. /\ queue \in Queue /\ editor \in Doc /\ TypeOK /\ page = "open"
      /\ UNCHANGED <<tab, versions, late, unsynced, skipped, reply>>
      /\ Tells(queue, editor, Backed)
      /\ Requests(queue) \subseteq Honest \cap Twins
  BY PartsTyped DEF AbsorbRemote, IInv, BInv
<1>2. Backed' = Backed
  BY <1>1, SameServerSameStored
<1>3. CASE ~Absorbable
  <2>1. queue' = queue /\ editor' = editor
    BY <1>3 DEF AbsorbRemote
  <2>2. /\ unsynced' # None => queue'.base = editor'
        /\ queue'.base # None => queue'.base \in TypedDocs
    BY <1>1, <2>1 DEF BInv
  <2>3. Tells(queue', editor', Backed') /\ Requests(queue') \subseteq Honest \cap Twins
    BY <1>1, <1>2, <2>1
  <2>4. reply' # None => reply' = reply /\ queue'.inFlight = queue.inFlight
    BY <1>1, <2>1
  <2> QED
    BY <1>1, <2>2, <2>3, <2>4, ClientKeepsBInv
<1>4. CASE Absorbable
  <2> DEFINE updated == Updated(queue)
             seq == poll.seq
             doc == poll.doc
             rebased == Rebase(updated, seq, doc)
  <2>1. /\ seq \in Nat /\ doc \in Doc /\ doc \in Doc \cup {None} /\ doc # None
        /\ doc \in Backed /\ doc \in TypedDocs
        /\ queue.inFlight = None /\ reply' = None
    <3>1. poll # None /\ poll \in Poll /\ Version(seq, doc) /\ queue.inFlight = None
      BY <1>4 DEF AbsorbRemote, Absorbable, IInv, TypeOK, Sourced
    <3>2. reply' = None
      BY <1>1, <3>1 DEF IInv, Wire
    <3> QED
      BY <1>1, <3>1, <3>2, DocIsNotNone, VersionIsStored DEF Poll
  <2>2. /\ updated \in Queue /\ updated.inFlight = None /\ Requests(updated) = Requests(queue)
        /\ unsynced # None => updated = queue
    BY <1>1, <2>1, UpdatedKeeps, UpdatedOwes DEF Keeps, Updated
  <2>3. queue' = Adopt(updated, seq, doc)
    BY <1>4 DEF AbsorbRemote
  <2>4. PICK dropped \in SUBSET Feedback : editor' = MergedText(queue.base, doc, dropped)
    BY <1>4 DEF AbsorbRemote
  <2>5. unsynced = None => Tells(updated, editor', Backed)
    BY <1>1, UpdatedTells
  <2> HIDE DEF updated, seq, doc
  <2>6. queue' = rebased /\ rebased.base = doc
    BY <2>1, <2>2, <2>3, AdoptType, RebaseType
  <2>7. /\ rebased.dirty = updated.dirty /\ rebased.inFlight = updated.inFlight
        /\ rebased.pendingRetry = updated.pendingRetry /\ rebased.conflict = updated.conflict
        /\ rebased.expired = updated.expired /\ rebased.status = updated.status
    BY <2>2 DEF Rebase, Queue
  <2> HIDE DEF rebased
  <2>8. Requests(queue') = Requests(queue)
    BY <2>2, <2>6, <2>7 DEF Requests
  <2>9. CASE unsynced # None
    <3>1. updated = queue /\ ~Unsettled(queue) /\ queue.base = editor
      BY <2>2, <2>9 DEF DInv, Asked, BInv
    <3>2. editor' = doc
      BY <1>1, <2>1, <2>4, <3>1, DocIsNotNone, MergeOfUnchanged DEF MergedText
    <3>3. ~Unsettled(queue')
      BY <2>6, <2>7, <3>1 DEF Unsettled
    <3>4. Tells(queue', editor', Backed')
      BY <1>2, <2>1, <3>2, <3>3 DEF Tells, Unsettled
    <3> QED
      BY <1>1, <2>1, <2>6, <2>8, <3>2, <3>4, ClientKeepsBInv
  <2>10. CASE unsynced = None
    <3>1. Tells(queue', editor', Backed')
      BY <1>2, <2>5, <2>6, <2>7, <2>10 DEF Tells, Unsettled
    <3> QED
      BY <1>1, <2>1, <2>6, <2>8, <2>10, <3>1, ClientKeepsBInv
  <2> QED
    BY <2>9, <2>10
<1> QED
  BY <1>3, <1>4

-----------------------------------------------------------------------------
\* An answer that the text is on the server is the truth about the text sent,
\* and about the editor's when nothing was typed since.
LEMMA TakeSavedBInv ==
    ASSUME IInv, DInv, BInv, ReceiveReply, TakeSaved
    PROVE  BInv'
<1> DEFINE payload == queue.inFlight
           base == AckedBase(payload, reply)
           landed == Landed(queue, reply.seq, base)
           updated == Updated(landed)
<1>1. /\ reply # None /\ reply.kind \in {"saved", "merged", "replay"} /\ page = "open"
      /\ queue' = SettleClean(updated, editor', NewId)
      /\ skipped' = (skipped \/ (reply.kind = "replay" /\ versions[reply.seq] # payload.to))
      /\ UNCHANGED <<tab, versions, late, unsynced>> /\ reply' = None
      /\ NewId \in Nat /\ editor \in Doc /\ TypeOK
  BY PartsTyped DEF ReceiveReply, TakeSaved, IInv
<1>2. PICK dropped \in SUBSET Feedback :
          editor' = IF reply.kind = "merged"
                    THEN MergedText(payload.to, reply.doc, dropped) ELSE editor
  BY DEF TakeSaved
<1>3. /\ queue \in Queue /\ reply.seq \in Nat /\ reply.doc \in Doc \cup {None}
      /\ payload # None /\ payload.to \in Doc /\ payload.to # None
      /\ queue.pendingRetry = None /\ queue.conflict = None /\ ~queue.expired
  BY <1>1, AnswerAwaited, DocIsNotNone
<1>4. unsynced = None /\ Tells(queue, editor, Backed)
  BY <1>1, <1>3, NothingAsked DEF Unsettled, BInv
<1>5. editor' \in Doc
  BY ReceiveReplyIInv DEF IInv, TypeOK
<1>6. /\ StoredDocs' = StoredDocs /\ TypedDocs' = TypedDocs
      /\ StoredDocs' \subseteq Backed' /\ Backed' \subseteq TypedDocs'
  <2>1. StoredDocs' = StoredDocs /\ TypedDocs' = TypedDocs
    BY <1>1, SameServerSameStored
  <2>2. StoredDocs \subseteq TypedDocs
    BY StoredIsTyped
  <2> QED
    BY <2>1, <2>2 DEF Backed
<1>7. reply.doc # None => reply.doc \in StoredDocs
  BY <1>1, VersionIsStored DEF IInv, Sourced
<1>8. reply.kind = "merged" => reply.doc # None
  BY <1>1 DEF IInv, Wire
<1>9. reply.kind = "saved" => payload.to \in StoredDocs
  BY <1>1 DEF BInv
<1>10. reply.kind = "replay" => payload.to \in Backed'
  <2>1. reply.kind = "replay" => payload.to \in TypedDocs
    BY <1>1 DEF BInv
  <2>2. reply.kind = "replay" /\ ~skipped' => Version(reply.seq, payload.to)
    BY <1>1 DEF IInv, Sourced, Version
  <2> QED
    BY <1>1, <1>6, <2>1, <2>2, VersionIsStored DEF Backed
<1>11. base \in Doc \cup {None} /\ (base # None => base \in Backed')
  <2>1. base \in Doc \cup {None}
    BY <1>1, AckedBaseSourced
  <2>2. reply.kind = "merged" => base = reply.doc
    BY DEF AckedBase
  <2>3. reply.kind # "merged" => base \in {payload.to, None}
    BY DEF AckedBase
  <2> QED
    BY <1>1, <1>6, <1>7, <1>8, <1>9, <1>10, <2>1, <2>2, <2>3
<1> HIDE DEF base
<1>12. /\ landed \in Queue /\ Free(landed) /\ landed.base = base /\ Requests(landed) = {}
       /\ landed.dirty = queue.dirty
  <2>1. landed.dirty = queue.dirty
    BY <1>3 DEF Landed, Queue
  <2>2. /\ landed \in Queue /\ landed.inFlight = None /\ landed.conflict = None
        /\ landed.pendingRetry = None /\ ~landed.expired /\ landed.base = base
    BY <1>3, <1>11, LandedType
  <2> QED
    BY <2>1, <2>2 DEF Free, Requests
<1> HIDE DEF landed
<1>13. /\ updated \in Queue /\ Free(updated) /\ updated.base = base /\ Requests(updated) = {}
       /\ ~updated.dirty => ~queue.dirty /\ editor' = editor
  BY <1>4, <1>12, UpdatedKeeps, UpdatedOwes DEF Keeps
<1>14. ~updated.dirty => editor' \in Backed'
  <2>1. SUFFICES ASSUME ~updated.dirty PROVE editor' \in Backed'
    OBVIOUS
  <2>2. editor' = editor /\ editor = payload.to
    BY <1>3, <1>4, <1>13, <2>1 DEF Tells
  <2>3. CASE reply.kind = "merged"
    <3>1. editor' = MergeBlocks(editor, editor, reply.doc, dropped)
      BY <1>2, <1>3, <2>2, <2>3 DEF MergedText
    <3>2. editor' = reply.doc
      BY <1>1, <1>3, <1>8, <2>3, <3>1, MergeOfUnchanged
    <3> QED
      BY <1>6, <1>7, <1>8, <2>3, <3>2
  <2>4. CASE reply.kind # "merged"
    BY <1>1, <1>6, <1>9, <1>10, <2>2, <2>4
  <2> QED
    BY <2>3, <2>4
<1> HIDE DEF updated
<1>15. /\ Tells(queue', editor', Backed')
       /\ Sends(updated, queue', editor', NewId)
  BY <1>1, <1>5, <1>11, <1>13, <1>14, SettleCleanTells
<1>16. updated.base # None => updated.base \in TypedDocs
  BY <1>6, <1>11, <1>13
<1>17. Requests(queue') \subseteq Honest \cap Twins
  BY <1>1, <1>5, <1>13, <1>15, <1>16, SendsHonest
<1>18. queue'.base = updated.base
  BY <1>1, <1>5, <1>13, SettleCleanKeeps DEF Keeps
<1> QED
  BY <1>1, <1>4, <1>15, <1>16, <1>17, <1>18, ClientKeepsBInv

LEMMA TakeRefusedBInv ==
    ASSUME IInv, DInv, BInv, ReceiveReply, TakeRefused
    PROVE  BInv'
<1>1. /\ reply # None /\ reply.kind \in {"resync", "conflict", "block_conflict"} /\ page = "open"
      /\ queue' = IF reply.kind = "resync" THEN Resync(queue) ELSE Conflicted(queue, reply, editor)
      /\ UNCHANGED <<tab, versions, late, unsynced, editor, skipped>> /\ reply' = None
      /\ editor \in Doc
  BY PartsTyped DEF ReceiveReply, TakeRefused, IInv
<1>2. /\ queue \in Queue /\ queue.inFlight \in Payload
      /\ queue.inFlight # None /\ queue.pendingRetry = None
      /\ reply.seq \in Nat /\ reply.doc \in Doc \cup {None} /\ reply.doc # None
  BY <1>1, AnswerAwaited DEF IInv, Wire
<1>3. unsynced = None /\ Tells(queue, editor, Backed) /\ Backed' = Backed
  BY <1>1, <1>2, NothingAsked, SameServerSameStored DEF Unsettled, BInv
<1>4. /\ queue.inFlight \in Honest /\ queue.inFlight \in Twins
      /\ Requests(queue) \subseteq Honest \cap Twins
      /\ queue.base # None => queue.base \in TypedDocs
  BY <1>2 DEF BInv, Requests
<1>5. CASE reply.kind = "resync"
  <2> DEFINE whole == [queue.inFlight EXCEPT !.kind = "full", !.from = None]
  <2>1. /\ Tells(queue', editor, Backed) /\ Requests(queue') = {whole}
        /\ whole.to = queue.inFlight.to /\ whole.id = queue.inFlight.id /\ whole.kind = "full"
    BY <1>1, <1>2, <1>3, <1>5, ResyncTells
  <2>2. whole \in Payload
    BY <1>2 DEF Payload
  <2>3. queue'.base = None
    BY <1>1, <1>2, <1>5, ResyncType
  <2> HIDE DEF whole
  <2>4. whole \in Honest /\ whole \in Twins
    BY <1>4, <2>1, <2>2 DEF Honest, Twins
  <2>5. Tells(queue', editor', Backed') /\ Requests(queue') \subseteq Honest \cap Twins
    BY <1>1, <1>3, <2>1, <2>4
  <2> QED
    BY <1>1, <1>3, <2>3, <2>5, ClientKeepsBInv
<1>6. CASE reply.kind # "resync"
  <2>1. /\ queue' = Conflicted(queue, reply, editor) /\ reply.doc \in Doc
        /\ reply.kind \in {"conflict", "block_conflict"}
    BY <1>1, <1>2, <1>6
  <2>2. Tells(queue', editor', Backed') /\ Requests(queue') \subseteq Requests(queue)
    BY <1>1, <1>2, <2>1, RefusalsTell
  <2>3. queue'.base = queue.base
    BY <1>1, <1>2, <2>1, ConflictedType
  <2>4. Requests(queue') \subseteq Honest \cap Twins
    BY <1>4, <2>2
  <2> QED
    BY <1>1, <1>3, <1>4, <2>2, <2>3, <2>4, ClientKeepsBInv
<1> QED
  BY <1>5, <1>6

-----------------------------------------------------------------------------
\* A request whose client gives up on it is honest, and the twin of its retry.
LEMMA AbandonedIsHonest ==
    ASSUME IInv, BInv, Abandon, UNCHANGED <<tab, versions>>
    PROVE  /\ late' # None => late' \in Honest'
           /\ Requests(queue) \subseteq Twins'
<1>1. Honest' = Honest
  BY SameServerSameStored
<1>2. CASE late' = late
  BY <1>1, <1>2 DEF BInv, Twins
<1>3. CASE late' # late
  <2>1. sent # None /\ late' = sent /\ sent = queue.inFlight
    BY <1>3 DEF Abandon, IInv, Wire
  <2>2. queue.pendingRetry = None
    BY <2>1 DEF IInv, Alive
  <2>3. Requests(queue) = {sent} /\ sent \in Honest
    BY <2>1, <2>2 DEF Requests, BInv
  <2> QED
    BY <1>1, <2>1, <2>3 DEF Twins, Honest
<1> QED
  BY <1>2, <1>3

LEMMA RequestEndsBInv ==
    ASSUME IInv, DInv, BInv, LoseRequest \/ RefuseRequest
    PROVE  BInv'
<1>1. /\ queue \in Queue /\ editor \in Doc /\ queue.inFlight # None /\ page = "open"
      /\ UNCHANGED <<tab, versions, unsynced, editor, skipped>>
  BY PartsTyped DEF IInv, Wire, LoseRequest, RefuseRequest
<1>2. /\ unsynced = None /\ Tells(queue, editor, Backed)
      /\ Backed' = Backed /\ Honest' = Honest /\ TypedDocs' = TypedDocs
      /\ Requests(queue) \subseteq Honest \cap Twins
      /\ queue.base # None => queue.base \in TypedDocs
  BY <1>1, NothingAsked, SameServerSameStored DEF Unsettled, BInv
<1>3. CASE LoseRequest
  <2>1. queue' = Unreachable(queue, editor) /\ reply' = None /\ Abandon
    BY <1>3 DEF LoseRequest
  <2>2. Tells(queue', editor, Backed) /\ Requests(queue') \subseteq Requests(queue)
    BY <1>1, <1>2, <2>1, UnreachableTells
  <2>3. queue'.base = queue.base
    BY <1>1, <2>1, UnreachableType
  <2>4. (late' # None => late' \in Honest') /\ Requests(queue) \subseteq Twins'
    BY <1>1, <2>1, AbandonedIsHonest
  <2>5. page' = "open" => Tells(queue, editor, Backed)'
    BY <1>1, <1>2, <2>2 DEF Tells, Unsettled
  <2>6. Requests(queue)' \subseteq Honest' \cap Twins'
    BY <1>2, <2>2, <2>4 DEF Requests
  <2> QED
    BY <1>1, <1>2, <2>1, <2>3, <2>4, <2>5, <2>6 DEF BInv
<1>4. CASE RefuseRequest
  <2>1. /\ queue' \in {Unauthorized(queue, editor), Rejected(queue, editor)}
        /\ late' = late /\ reply' = None
    BY <1>4 DEF RefuseRequest, IInv, Wire
  <2>2. Tells(queue', editor, Backed) /\ Requests(queue') \subseteq Requests(queue)
    BY <1>1, <2>1, RefusalsTell
  <2>3. queue'.base = queue.base
    BY <1>1, <2>1, UnauthorizedType, RejectedType
  <2>4. Tells(queue', editor', Backed') /\ Requests(queue') \subseteq Honest \cap Twins
    BY <1>1, <1>2, <2>2
  <2> QED
    BY <1>1, <1>2, <2>1, <2>3, <2>4, ClientKeepsBInv
<1> QED
  BY <1>3, <1>4

\* The page dies, and the essay is opened again.
LEMMA CrashBInv ==
    ASSUME IInv, BInv, Crash
    PROVE  BInv'
<1>1. /\ page' = "gone" /\ unsynced' = None /\ reply' = None /\ Abandon
      /\ queue' = NewQueue(0, None, queue.draft) /\ UNCHANGED <<tab, versions>>
  BY DEF Crash, historyVars
<1>2. queue'.base = None /\ Requests(queue)' = {}
  BY <1>1 DEF NewQueue, Requests
<1>3. late' # None => late' \in Honest'
  BY <1>1, AbandonedIsHonest
<1> QED
  BY <1>1, <1>2, <1>3 DEF BInv

LEMMA OpenBInv ==
    ASSUME IInv, BInv, Open
    PROVE  BInv'
<1> DEFINE draft == queue.draft
           decision == Reconcile(draft)
           kept == IF decision = "discard" THEN None ELSE draft
           opened == NewQueue(tab.save_seq, tab.doc, kept)
<1>1. /\ editor' = IF decision = "push" THEN draft.doc ELSE tab.doc
      /\ unsynced' = IF decision = "ask" THEN draft ELSE None
      /\ queue' = IF decision = "push"
                  THEN Flush(Change(opened), draft.doc, NewId, "load") ELSE opened
      /\ UNCHANGED <<tab, versions, late, skipped, reply>> /\ page = "gone"
  BY DEF Open
<1>2. /\ TypeOK /\ tab.save_seq \in Nat /\ tab.doc \in Doc \cup {None} /\ tab.doc # None
      /\ draft \in Draft \cup {None} /\ kept \in Draft \cup {None} /\ NewId \in Nat
  BY PartsTyped, DocIsNotNone DEF IInv
<1>3. /\ tab.doc \in Backed /\ tab.doc \in TypedDocs
      /\ Backed' = Backed
  BY <1>1, <1>2, VersionIsStored, SameServerSameStored DEF IInv, Sourced
<1>4. reply' = None
  BY <1>1 DEF IInv, Wire
<1> HIDE DEF kept
<1>5. /\ opened \in Queue /\ opened.base = tab.doc /\ Requests(opened) = {}
      /\ Tells(opened, tab.doc, Backed)
  <2>1. opened \in Queue
    BY <1>2, NewQueueType
  <2>2. opened.base = tab.doc /\ Requests(opened) = {}
    BY DEF NewQueue, Requests
  <2>3. Tells(opened, tab.doc, Backed)
    BY <1>3 DEF NewQueue, Tells, Unsettled
  <2> QED
    BY <2>1, <2>2, <2>3
<1> HIDE DEF opened
<1>6. CASE decision = "push"
  <2> DEFINE changed == Change(opened)
  <2>1. draft.doc \in Doc
    BY <1>2, <1>6 DEF Reconcile, Draft
  <2>2. /\ changed \in Queue /\ changed.base = tab.doc /\ Requests(changed) = {}
        /\ Tells(changed, draft.doc, Backed)
    BY <1>5, ChangeKeeps, ChangeTells DEF Keeps
  <2> HIDE DEF changed
  <2>3. /\ queue' = Flush(changed, draft.doc, NewId, "load")
        /\ editor' = draft.doc /\ unsynced' = None
    BY <1>1, <1>6 DEF changed
  <2> HIDE DEF draft
  <2>4. /\ Tells(queue', editor', Backed) /\ Sends(changed, queue', editor', NewId)
        /\ queue'.base = tab.doc
    BY <1>2, <1>3, <2>1, <2>2, <2>3, FlushTells, FlushKeeps DEF Keeps
  <2>5. Requests(queue') \subseteq Honest \cap Twins
    BY <1>2, <1>3, <2>1, <2>2, <2>3, <2>4, SendsHonest
  <2> QED
    BY <1>1, <1>3, <1>4, <2>3, <2>4, <2>5, ClientKeepsBInv
<1>7. CASE decision # "push"
  <2>1. queue' = opened /\ editor' = tab.doc
    BY <1>1, <1>7
  <2>2. Tells(queue', editor', Backed') /\ Requests(queue') = {} /\ queue'.base = editor'
    BY <1>3, <1>5, <2>1
  <2> QED
    BY <1>1, <1>3, <1>4, <1>5, <2>1, <2>2, ClientKeepsBInv
<1> QED
  BY <1>6, <1>7

\* The student decides about a draft.
LEMMA KeepLocalDraftBInv ==
    ASSUME IInv, DInv, BInv, KeepLocalDraft
    PROVE  BInv'
<1>1. /\ queue \in Queue /\ queue.seq \in Nat /\ NewId \in Nat /\ TypeOK
      /\ editor' \in Doc /\ ~Unsettled(queue) /\ unsynced' = None
      /\ queue' = KeepMine(queue, queue.seq, None, editor', NewId)
      /\ UNCHANGED <<tab, versions, late, skipped, reply>>
  BY PartsTyped DEF IInv, DInv, Asked, KeepLocalDraft, Draft
<1>2. queue.inFlight = None /\ queue.pendingRetry = None /\ ~queue.expired
  BY <1>1 DEF Unsettled
<1> DEFINE rebased == Rebase(queue, queue.seq, None)
<1>3. rebased \in Queue /\ rebased.base = queue.base
  BY <1>1, RebaseType
<1>4. queue.base # None => queue.base \in Backed /\ queue.base \in TypedDocs
  BY BaseIsBacked DEF BInv
<1> HIDE DEF rebased
<1>5. /\ Tells(queue', editor', Backed)
      /\ Requests(queue') \subseteq {MakePayload(rebased, editor', NewId)}
  BY <1>1, <1>2, <1>3, <1>4, KeepMineTells DEF rebased
<1>6. MakePayload(rebased, editor', NewId) \in Honest \cap Twins
  BY <1>1, <1>3, <1>4, NewRequestIsHonest
<1>7. queue'.base = queue.base
  BY <1>1, <1>3, KeepMineType DEF Keeps, rebased
<1>8. Backed' = Backed /\ reply' = None
  BY <1>1, <1>2, SameServerSameStored DEF IInv, Wire
<1>9. /\ Tells(queue', editor', Backed') /\ Requests(queue') \subseteq Honest \cap Twins
      /\ queue'.base # None => queue'.base \in TypedDocs
  BY <1>4, <1>5, <1>6, <1>7, <1>8
<1> QED
  BY <1>1, <1>8, <1>9, ClientKeepsBInv

LEMMA DiscardLocalDraftBInv ==
    ASSUME IInv, BInv, DiscardLocalDraft
    PROVE  BInv'
<1>1. /\ queue \in Queue /\ queue' = [queue EXCEPT !.draft = None] /\ unsynced' = None
      /\ page = "open" /\ UNCHANGED <<tab, versions, late, skipped, reply, editor>>
  BY PartsTyped DEF IInv, DiscardLocalDraft
<1>2. Like(queue, queue')
  BY <1>1 DEF Queue, Like
<1>3. Tells(queue', editor, Backed) /\ Requests(queue') = Requests(queue) /\ Backed' = Backed
  BY <1>1, <1>2, LikeTells, SameServerSameStored DEF BInv
<1>4. /\ Tells(queue', editor', Backed') /\ Requests(queue') \subseteq Honest \cap Twins
      /\ queue'.base # None => queue'.base \in TypedDocs
      /\ queue'.inFlight = queue.inFlight
  BY <1>1, <1>2, <1>3 DEF BInv, Like
<1> QED
  BY <1>1, <1>4, ClientKeepsBInv

-----------------------------------------------------------------------------
LEMMA InitBInv == Init => BInv
<1> SUFFICES ASSUME Init PROVE BInv
  OBVIOUS
<1>1. /\ queue = NewQueue(1, EmptyDoc, None) /\ editor = EmptyDoc /\ ~skipped
      /\ versions = <<EmptyDoc>> /\ unsynced = None /\ late = None /\ reply = None
  BY DEF Init
<1>2. EmptyDoc \in StoredDocs
  BY <1>1, EmptyDocType DEF StoredDocs
<1>3. EmptyDoc \in Backed /\ EmptyDoc \in TypedDocs
  BY <1>2, StoredIsTyped
<1>4. queue.base = EmptyDoc /\ Requests(queue) = {}
  BY <1>1 DEF NewQueue, Requests
<1>5. Tells(queue, editor, Backed)
  BY <1>1, <1>3 DEF NewQueue, Tells, Unsettled
<1> QED
  BY <1>1, <1>3, <1>4, <1>5 DEF BInv

LEMMA StepBInv == IInv /\ DInv /\ BInv /\ [Next]_vars => BInv'
<1> SUFFICES ASSUME IInv, DInv, BInv, [Next]_vars PROVE BInv'
  OBVIOUS
<1>1. CASE UNCHANGED <<tab, versions, late, queue, editor, unsynced, page, reply, skipped>>
  <2>1. Backed' = Backed
    BY <1>1, SameServerSameStored
  <2> QED
    BY <1>1, <2>1, ClientKeepsBInv DEF BInv
<1>2. CASE PollChanges
  BY <1>1, <1>2 DEF PollChanges
<1>3. CASE ReceiveReply
  BY <1>3, TakeSavedBInv, TakeRefusedBInv DEF ReceiveReply
<1>4. CASE ClientStep
  BY <1>2, <1>3, <1>4, CallbackBInv, EditBInv, RequestEndsBInv, ConflictEffectBInv,
     KeepMineOnConflictBInv, LoadLatestBInv, AbsorbRemoteBInv, CrashBInv, OpenBInv,
     KeepLocalDraftBInv, DiscardLocalDraftBInv DEF ClientStep
<1>5. CASE UNCHANGED vars
  BY <1>1, <1>5 DEF vars
<1> QED
  BY <1>4, <1>5, ServerStepBInv DEF Next

LEMMA BadgeInvariance == Spec => [](DInv /\ BInv)
<1>1. Init => DInv /\ BInv
  BY InitDInv, InitBInv
<1>2. IInv /\ (DInv /\ BInv) /\ [Next]_vars => (DInv /\ BInv)'
  BY StepDInv, StepBInv
<1> QED
  BY Invariance, <1>1, <1>2, PTL DEF Spec

\* The badge says "Saved" only over a text the server has stored, whatever was
\* lost, retried, merged, restored or typed meanwhile; after a replay answer that
\* hid another version, over a text whose typing is stored block by block
\* (saveQueue.js setStatus, flush with an unchanged document, settleClean).
THEOREM SavedIsSaved == Spec => []SavedBadgeIsTrue
<1>1. BInv => SavedBadgeIsTrue
  <2>1. SUFFICES ASSUME BInv, page = "open", queue.status = "saved" PROVE editor \in Backed
    BY DEF SavedBadgeIsTrue, Backed, StoredDocs, TypedDocs
  <2>2. Tells(queue, editor, Backed)
    BY <2>1 DEF BInv
  <2> QED
    BY <2>1, <2>2 DEF Tells, Unsettled
<1> QED
  BY BadgeInvariance, <1>1, PTL

-----------------------------------------------------------------------------
\* A merge takes out of the editor only what the base of the merge holds, and
\* the typing of that base is stored.
LEMMA MergeDropsStored ==
    ASSUME NEW base \in TypedDocs, NEW server, NEW dropped,
           editor' = MergeBlocks(base, editor, server, dropped)
    PROVE  TypingDropped = {}
<1> SUFFICES ASSUME NEW typing \in Blocks \X Typed,
                    typing[2] \in editor[typing[1]] \ editor'[typing[1]]
             PROVE  \E n \in DOMAIN versions : typing[2] \in versions[n][typing[1]]
  BY DEF TypingDropped
<1> DEFINE b == typing[1]
           t == typing[2]
<1>1. b \in Blocks /\ t \in Typed /\ t \in editor[b] /\ t \notin editor'[b]
  OBVIOUS
<1> HIDE DEF b, t
<1>2. editor'[b] = IF b \notin Changed(base, editor) THEN server[b]
                   ELSE IF /\ b \in Changed(base, server)
                           /\ editor[b] # server[b]
                           /\ OnlyMarksDiffer(base[b], server[b])
                        THEN editor[b] \cup ((server[b] \ base[b]) \ dropped)
                        ELSE editor[b]
  BY <1>1 DEF MergeBlocks
<1>3. base[b] = editor[b]
  BY <1>1, <1>2 DEF Changed
<1>4. \E n \in DOMAIN versions : t \in versions[n][b]
  BY <1>1, <1>3 DEF TypedDocs
<1> QED
  BY <1>4 DEF b, t

LEMMA SameTextDropsNothing ==
    ASSUME editor' = editor
    PROVE  TypingDropped = {}
BY DEF TypingDropped

\* With a base to merge from, no step that takes a newer version into the editor
\* drops typing that no stored version of the block holds (mergeIntoEditor: "the
\* student's unsaved paragraphs stay").
THEOREM MergeSparesTyping == Spec => MergeWithBaseKeepsTyping
<1>1. ASSUME IInv, BInv, queue.base # None,
             ReceiveReply \/ ConflictEffect \/ KeepMineOnConflict \/ AbsorbRemote
      PROVE  TypingDropped = {}
  <2>1. queue.base \in TypedDocs
    BY <1>1 DEF BInv
  <2>2. CASE ReceiveReply
    <3>1. queue.inFlight.to # None
      BY <2>2, <1>1, AnswerAwaited, DocIsNotNone DEF ReceiveReply
    <3>2. CASE TakeSaved /\ reply.kind = "merged"
      <4>1. queue.inFlight.to \in TypedDocs
        BY <1>1, <2>2, <3>2 DEF BInv, ReceiveReply
      <4>2. PICK dropped \in SUBSET Feedback :
                editor' = MergedText(queue.inFlight.to, reply.doc, dropped)
        BY <3>2 DEF TakeSaved
      <4>3. editor' = MergeBlocks(queue.inFlight.to, editor, reply.doc, dropped)
        BY <3>1, <4>2 DEF MergedText
      <4> QED
        BY <4>1, <4>3, MergeDropsStored
    <3>3. CASE ~(TakeSaved /\ reply.kind = "merged")
      <4>1. editor' = editor
        BY <2>2, <3>3 DEF ReceiveReply, TakeSaved, TakeRefused
      <4> QED
        BY <4>1, SameTextDropsNothing
    <3> QED
      BY <3>2, <3>3
  <2>3. CASE ConflictEffect
    <3>1. \/ editor' = editor
          \/ \E dropped \in SUBSET Feedback :
                editor' = MergeBlocks(queue.base, editor, queue.conflict.doc, dropped)
      BY <2>3 DEF ConflictEffect
    <3> QED
      BY <2>1, <3>1, MergeDropsStored, SameTextDropsNothing
  <2>4. CASE KeepMineOnConflict
    <3>1. \E dropped \in SUBSET Feedback :
              editor' = MergeBlocks(queue.base, editor, queue.conflict.doc, dropped)
      BY <1>1, <2>4 DEF KeepMineOnConflict, MergedText
    <3> QED
      BY <2>1, <3>1, MergeDropsStored
  <2>5. CASE AbsorbRemote
    <3>1. \/ editor' = editor
          \/ \E dropped \in SUBSET Feedback :
                editor' = MergeBlocks(queue.base, editor, poll.doc, dropped)
      BY <1>1, <2>5 DEF AbsorbRemote, MergedText
    <3> QED
      BY <2>1, <3>1, MergeDropsStored, SameTextDropsNothing
  <2> QED
    BY <1>1, <2>2, <2>3, <2>4, <2>5
<1>2. IInv /\ BInv =>
        (queue.base # None /\ (ReceiveReply \/ ConflictEffect \/ KeepMineOnConflict \/ AbsorbRemote)
            => TypingDropped = {})
  BY <1>1
<1>3. Spec => [](IInv /\ BInv)
  BY Invariance, BadgeInvariance, PTL
<1> QED
  BY <1>2, <1>3, PTL DEF Spec, MergeWithBaseKeepsTyping

-----------------------------------------------------------------------------
(***************************************************************************)
(* No blind overwrite.  Everything this client sends was made from a       *)
(* version whose foreign pieces it has shown, asked about or merged.       *)
(***************************************************************************)
Seen(doc) == Foreign \cap PiecesOf(doc) \subseteq seen

ShownVersion(seq) == seq \in DOMAIN versions /\ Seen(versions[seq])

SeenRequest(p) == ShownVersion(p.base_seq) /\ Seen(p.to) /\ (p.kind = "ops" => Seen(p.from))

NInv ==
    ~skipped =>
        /\ page = "open" => Seen(editor) /\ ShownVersion(queue.seq)
        /\ queue.draft # None => ShownVersion(queue.draft.base_seq)
        /\ \A p \in Requests(queue) : SeenRequest(p)
        /\ late # None => SeenRequest(late)
        /\ reply # None /\ reply.kind = "saved" => versions[reply.seq] = queue.inFlight.to

\* "p" carries no more than the request "r" does.
Echoes(p, r) ==
    p.base_seq = r.base_seq /\ p.to = r.to /\ (p.kind = "ops" => r.kind = "ops" /\ p.from = r.from)

\* "p" is the request that the queue "q" makes of the text "doc".
Snapshot(p, q, doc) ==
    p.base_seq = q.seq /\ p.to = doc /\ (p.kind = "ops" => q.base # None /\ p.from = q.base)

LEMMA SendsSnapshots ==
    ASSUME NEW q, NEW r, NEW doc, NEW id, Sends(q, r, doc, id), r.seq = q.seq, r.base = q.base,
           NEW p \in Requests(r)
    PROVE  p \in Requests(q) \/ Snapshot(p, r, doc)
BY DEF Sends, Snapshot, MakePayload

\* A step of the open client that hears of no new version except through the
\* queue, and sends echoes and snapshots.
Careful ==
    /\ page = "open" /\ UNCHANGED <<tab, versions>> /\ Record
    /\ skipped => skipped'
    /\ \A p \in Requests(queue') : \/ \E r \in Requests(queue) : Echoes(p, r)
                                   \/ Snapshot(p, queue', editor')
    /\ queue'.draft # None => queue'.draft = queue.draft \/ queue'.draft.base_seq = queue'.seq
    /\ queue'.base # None \/ queue'.seq = queue.seq \/ (~skipped' => ShownVersion(queue'.seq))
    /\ late' # None => late' = late \/ late' \in Requests(queue)
    /\ reply' # None => reply' = reply /\ queue'.inFlight = queue.inFlight

LEMMA SeenStays ==
    ASSUME seen \subseteq seen', NEW doc, Seen(doc)
    PROVE  Foreign \cap PiecesOf(doc) \subseteq seen'
BY DEF Seen

\* What a step records, it has seen.
LEMMA RecordedIsSeen ==
    ASSUME Record
    PROVE  /\ seen \subseteq seen'
           /\ Foreign \cap PiecesOf(editor') \subseteq seen'
           /\ queue'.base \notin {queue.base, None} => Foreign \cap PiecesOf(queue'.base) \subseteq seen'
<1> DEFINE merged == {queue'.base} \ {queue.base, None}
           asked == {conflict.doc : conflict \in {queue'.conflict} \ {None}}
           docs == {editor'} \cup merged \cup asked
<1>1. seen' = seen \cup (Foreign \cap UNION {PiecesOf(doc) : doc \in docs})
  BY DEF Record
<1>2. editor' \in docs /\ (queue'.base \notin {queue.base, None} => queue'.base \in docs)
  OBVIOUS
<1> HIDE DEF docs
<1> QED
  BY <1>1, <1>2

LEMMA CarefulKeepsNInv ==
    ASSUME IInv, IInv', NInv, Careful
    PROVE  NInv'
<1> SUFFICES ASSUME ~skipped' PROVE NInv'
  BY DEF NInv
<1>1. /\ ~skipped /\ page = "open" /\ versions' = versions /\ Record
      /\ seen \subseteq seen' /\ Foreign \cap PiecesOf(editor') \subseteq seen'
      /\ Seen(editor) /\ ShownVersion(queue.seq)
  BY RecordedIsSeen DEF Careful, NInv
<1>2. \A doc : Seen(doc) => Foreign \cap PiecesOf(doc) \subseteq seen'
  BY <1>1 DEF Seen
<1>3. \A seq : ShownVersion(seq) =>
          seq \in DOMAIN versions' /\ Foreign \cap PiecesOf(versions'[seq]) \subseteq seen'
  BY <1>1, <1>2 DEF ShownVersion
<1>4. queue'.base # None => /\ Foreign \cap PiecesOf(queue'.base) \subseteq seen'
                            /\ queue'.seq \in DOMAIN versions' /\ versions'[queue'.seq] = queue'.base
  <2>1. SUFFICES ASSUME queue'.base # None
                 PROVE  /\ Foreign \cap PiecesOf(queue'.base) \subseteq seen'
                        /\ queue'.seq \in DOMAIN versions' /\ versions'[queue'.seq] = queue'.base
    OBVIOUS
  <2>2. queue'.seq \in DOMAIN versions' /\ versions'[queue'.seq] = queue'.base
    BY <2>1 DEF IInv, Sourced, Version
  <2>3. CASE queue'.base # queue.base
    BY <1>1, <2>1, <2>2, <2>3, RecordedIsSeen
  <2>4. CASE queue'.base = queue.base
    <3>1. versions[queue.seq] = queue.base
      BY <1>1, <2>1, <2>4 DEF IInv, Sourced, Version
    <3>2. Seen(queue.base)
      BY <1>1, <3>1 DEF ShownVersion
    <3> QED
      BY <1>2, <2>2, <2>4, <3>2
  <2> QED
    BY <2>3, <2>4
<1>5. queue'.seq \in DOMAIN versions' /\ Foreign \cap PiecesOf(versions'[queue'.seq]) \subseteq seen'
  <2>1. CASE queue'.base # None
    BY <1>4, <2>1
  <2>2. CASE queue'.base = None
    BY <1>1, <1>3, <2>2 DEF Careful
  <2> QED
    BY <2>1, <2>2
<1>6. \A p \in Requests(queue) : /\ ShownVersion(p.base_seq) /\ Seen(p.to)
                                 /\ p.kind = "ops" => Seen(p.from)
  BY <1>1 DEF NInv, SeenRequest
<1>7. ASSUME NEW p \in Requests(queue')
      PROVE  /\ p.base_seq \in DOMAIN versions'
             /\ Foreign \cap PiecesOf(versions'[p.base_seq]) \subseteq seen'
             /\ Foreign \cap PiecesOf(p.to) \subseteq seen'
             /\ p.kind = "ops" => Foreign \cap PiecesOf(p.from) \subseteq seen'
  <2>1. CASE \E r \in Requests(queue) : Echoes(p, r)
    <3>1. PICK r \in Requests(queue) : Echoes(p, r)
      BY <2>1
    <3>2. /\ ShownVersion(r.base_seq) /\ Seen(r.to)
          /\ r.kind = "ops" => Seen(r.from)
      BY <1>6
    <3> QED
      BY <1>2, <1>3, <3>1, <3>2 DEF Echoes
  <2>2. CASE Snapshot(p, queue', editor')
    BY <1>1, <1>4, <1>5, <2>2 DEF Snapshot
  <2> QED
    BY <1>7, <2>1, <2>2 DEF Careful
<1>8. late' # None =>
          /\ late'.base_seq \in DOMAIN versions'
          /\ Foreign \cap PiecesOf(versions'[late'.base_seq]) \subseteq seen'
          /\ Foreign \cap PiecesOf(late'.to) \subseteq seen'
          /\ late'.kind = "ops" => Foreign \cap PiecesOf(late'.from) \subseteq seen'
  <2>1. late' # None => /\ ShownVersion(late'.base_seq) /\ Seen(late'.to)
                        /\ late'.kind = "ops" => Seen(late'.from)
    BY <1>1, <1>6 DEF Careful, NInv, SeenRequest
  <2> QED
    BY <1>2, <1>3, <2>1
<1>9. queue'.draft # None =>
          /\ queue'.draft.base_seq \in DOMAIN versions'
          /\ Foreign \cap PiecesOf(versions'[queue'.draft.base_seq]) \subseteq seen'
  BY <1>1, <1>3, <1>5 DEF Careful, NInv
<1>10. reply' # None /\ reply'.kind = "saved" => versions'[reply'.seq] = queue'.inFlight.to
  BY <1>1 DEF Careful, NInv
<1>11. (\A p \in Requests(queue) : SeenRequest(p))'
  BY <1>7 DEF SeenRequest, ShownVersion, Seen, Requests
<1> QED
  BY <1>1, <1>5, <1>8, <1>9, <1>10, <1>11 DEF NInv, SeenRequest, ShownVersion, Seen

-----------------------------------------------------------------------------
\* The server adds versions, and takes none away.
LEMMA ServerKeepsNInv ==
    ASSUME NInv, Grown, late' \in {late, None},
           UNCHANGED <<queue, editor, page, seen, skipped>>,
           \/ reply' = reply /\ (reply # None => reply.seq \in DOMAIN versions)
           \/ reply' # None /\ reply'.kind = "saved" => versions'[reply'.seq] = queue.inFlight.to
    PROVE  NInv'
<1> SUFFICES ASSUME ~skipped PROVE NInv'
  BY DEF NInv
<1>1. \A seq : ShownVersion(seq) => ShownVersion(seq)'
  BY DEF Grown, ShownVersion, Seen
<1>2. \A p : SeenRequest(p) => SeenRequest(p)'
  BY <1>1 DEF SeenRequest, Seen
<1>3. reply' # None /\ reply'.kind = "saved" => versions'[reply'.seq] = queue'.inFlight.to
  BY DEF NInv, Grown
<1>4. page' = "open" => Seen(editor)' /\ ShownVersion(queue.seq)'
  BY <1>1 DEF NInv, Seen
<1>5. queue'.draft # None => ShownVersion(queue.draft.base_seq)'
  BY <1>1 DEF NInv
<1>6. (\A p \in Requests(queue) : SeenRequest(p))'
  BY <1>2 DEF NInv, Requests
<1>7. late' # None => SeenRequest(late)'
  BY <1>2 DEF NInv
<1> QED
  BY <1>3, <1>4, <1>5, <1>6, <1>7 DEF NInv

LEMMA ServerStepNInv ==
    ASSUME IInv, BInv, NInv, ServerStep
    PROVE  NInv'
<1>1. /\ tab.doc \in Doc /\ versions \in Seq(Doc) /\ tab.last_client_save_id \in Nat
      /\ TypeOK /\ Sourced
      /\ reply # None => reply.seq \in DOMAIN versions
  BY PartsTyped DEF IInv, TypeOK, TabRow, Sourced
<1>2. CASE AutosaveSent
  <2>1. /\ sent # None /\ Autosave(sent) /\ sent = queue.inFlight
        /\ late' = late /\ UNCHANGED <<queue, editor, page, seen, skipped>>
    BY <1>2 DEF AutosaveSent, IInv, Wire
  <2>2. sent \in Honest
    BY <2>1 DEF Requests, BInv
  <2>3. Grown
    BY <1>1, <2>1, <2>2, AutosaveGrows DEF Honest
  <2>4. PICK rewritten \in Rewrites : reply' = AutosaveAnswer(sent, rewritten)
    BY <1>2 DEF AutosaveSent
  <2>5. rewritten \in BOOLEAN
    BY BoundsAreNaturals
  <2>6. reply'.kind = "saved" => versions'[reply'.seq] = sent.to
    BY <1>1, <2>1, <2>2, <2>4, <2>5, AnswerIsHonest
  <2> QED
    BY <2>1, <2>3, <2>6, ServerKeepsNInv
<1>3. CASE AutosaveLate
  <2>1. late \in Honest /\ Autosave(late)
    BY <1>3 DEF AutosaveLate, BInv
  <2>2. Grown
    BY <1>1, <2>1, AutosaveGrows DEF Honest
  <2> QED
    BY <1>1, <1>3, <2>2, ServerKeepsNInv DEF AutosaveLate
<1>4. CASE CounselorMarks
  <2>1. PICK b \in Blocks, mark \in Feedback \ UsedPieces :
            Store([tab.doc EXCEPT ![b] = @ \cup {mark}], tab.last_client_save_id)
    BY <1>4 DEF CounselorMarks
  <2>2. [tab.doc EXCEPT ![b] = @ \cup {mark}] \in Doc
    BY <1>1, <2>1 DEF Doc, Piece, Foreign
  <2>3. Grown
    BY <1>1, <2>1, <2>2, StoreGrows
  <2> QED
    BY <1>1, <1>4, <2>3, ServerKeepsNInv DEF CounselorMarks, networkVars
<1>5. CASE OtherDeviceSaves
  <2>1. PICK b \in Blocks, text \in Elsewhere \ UsedPieces :
            Store([tab.doc EXCEPT ![b] = @ \cup {text}], 0)
    BY <1>5 DEF OtherDeviceSaves
  <2>2. [tab.doc EXCEPT ![b] = @ \cup {text}] \in Doc
    BY <1>1, <2>1 DEF Doc, Piece, Foreign
  <2>3. Grown
    BY <1>1, <2>1, <2>2, StoreGrows
  <2> QED
    BY <1>1, <1>5, <2>3, ServerKeepsNInv DEF OtherDeviceSaves, networkVars
<1>6. CASE OtherDeviceRestores
  <2>1. PICK n \in DOMAIN versions : Store(versions[n], tab.last_client_save_id)
    BY <1>6 DEF OtherDeviceRestores
  <2>2. versions[n] \in Doc
    BY <1>1, <2>1
  <2>3. Grown
    BY <1>1, <2>1, <2>2, StoreGrows
  <2> QED
    BY <1>1, <1>6, <2>3, ServerKeepsNInv DEF OtherDeviceRestores, networkVars
<1> QED
  BY <1>2, <1>3, <1>4, <1>5, <1>6 DEF ServerStep

-----------------------------------------------------------------------------
\* The client's steps are careful.
LEMMA SelfEchoes == \A p : Echoes(p, p)
BY DEF Echoes

LEMMA CallbackCareful ==
    ASSUME IInv, BInv,
           \/ FlushNow \/ SyncTimer \/ DraftTimer \/ RetryTimer \/ RetryByHand \/ HidePage
    PROVE  Careful
<1>1. /\ queue \in Queue /\ editor \in Doc /\ NewId \in Nat
      /\ queue.base # None => queue.base \in Backed
  BY PartsTyped, BaseIsBacked DEF IInv
<1>2. page = "open"
  BY DEF FlushNow, SyncTimer, DraftTimer, RetryTimer, RetryByHand, HidePage, QueueStep
<1>3. Tells(queue, editor, Backed)
  BY <1>2 DEF BInv
<1>4. ASSUME NEW STATE next, QueueStep(next), Keeps(queue, next),
             Sends(queue, next, editor, NewId), DraftsAt(queue, next)
      PROVE  Careful
  <2>1. /\ queue' = next /\ UNCHANGED <<tab, versions, late, editor, reply, skipped>>
        /\ queue'.base = queue.base /\ queue'.seq = queue.seq
        /\ queue.inFlight # None => queue'.inFlight = queue.inFlight
        /\ Record
    BY <1>4 DEF QueueStep, Keeps
  <2>2. \A p \in Requests(queue') : p \in Requests(queue) \/ Snapshot(p, queue', editor')
    BY <1>4, <2>1, SendsSnapshots
  <2>3. queue'.draft # None => queue'.draft = queue.draft \/ queue'.draft.base_seq = queue'.seq
    BY <1>4, <2>1 DEF DraftsAt
  <2>4. reply' # None => reply' = reply /\ queue'.inFlight = queue.inFlight
    BY <2>1 DEF IInv, Wire
  <2> QED
    BY <1>2, <2>1, <2>2, <2>3, <2>4, SelfEchoes DEF Careful
<1>5. ASSUME NEW STATE next, KeepsDraft(queue, next)
      PROVE  DraftsAt(queue, next)
  BY <1>5 DEF KeepsDraft, DraftsAt
<1>6. CASE FlushNow
  BY <1>1, <1>3, <1>4, <1>5, <1>6, FlushKeeps, FlushTells, FlushKeepsDraft DEF FlushNow
<1>7. CASE SyncTimer
  BY <1>1, <1>3, <1>4, <1>5, <1>7, FlushKeeps, FlushTells, FlushKeepsDraft DEF SyncTimer
<1>8. CASE DraftTimer
  <2>1. /\ Keeps(queue, WriteDraftNow(queue, editor)) /\ Like(queue, WriteDraftNow(queue, editor))
        /\ DraftsAt(queue, WriteDraftNow(queue, editor))
    BY <1>1, WriteDraftNowKeeps, WriteDraftNowLike, WriteDraftNowDrafts
  <2>2. Sends(queue, WriteDraftNow(queue, editor), editor, NewId)
    BY <2>1, LikeTells DEF Sends
  <2> QED
    BY <1>4, <1>8, <2>1, <2>2 DEF DraftTimer
<1>9. CASE RetryTimer
  BY <1>1, <1>3, <1>4, <1>5, <1>9, RetryNowKeeps, RetryNowTells, RetryNowKeepsDraft DEF RetryTimer
<1>10. CASE RetryByHand
  BY <1>1, <1>3, <1>4, <1>5, <1>10, RetryNowKeeps, RetryNowTells, RetryNowKeepsDraft DEF RetryByHand
<1>11. CASE HidePage
  BY <1>1, <1>3, <1>4, <1>11, HideKeeps, HideTells, HideDrafts DEF HidePage
<1> QED
  BY <1>6, <1>7, <1>8, <1>9, <1>10, <1>11

LEMMA EditCareful ==
    ASSUME IInv, Edit
    PROVE  Careful
<1>1. /\ queue \in Queue /\ queue' = Change(queue) /\ page = "open" /\ Record
      /\ UNCHANGED <<tab, versions, late, reply, skipped>>
  BY PartsTyped DEF IInv, Edit
<1>2. /\ Requests(queue') = Requests(queue) /\ queue'.draft = queue.draft
      /\ queue'.seq = queue.seq /\ queue'.inFlight = queue.inFlight
  BY <1>1, ChangeTells, ChangeKeepsDraft, ChangeKeeps, ChangeAlive DEF Keeps
<1> QED
  BY <1>1, <1>2, SelfEchoes DEF Careful

LEMMA KeepMineCareful ==
    ASSUME IInv, DInv, BInv, queue.conflict # None, editor' \in Doc,
           queue' = KeepMine(Updated(queue), queue.conflict.seq, queue.conflict.doc, editor', NewId),
           page = "open", UNCHANGED <<tab, versions, late, reply, skipped>>, Record
    PROVE  Careful
<1>1. queue \in Queue /\ NewId \in Nat /\ TypeOK /\ Alive(queue)
  BY PartsTyped DEF IInv
<1>2. /\ queue.inFlight = None /\ queue.conflict.seq \in Nat /\ queue.conflict.doc \in Doc
      /\ Version(queue.conflict.seq, queue.conflict.doc)
  BY ConflictSourced
<1>3. queue.pendingRetry = None /\ ~queue.expired
  BY <1>1 DEF Alive
<1> DEFINE updated == Updated(queue)
           seq == queue.conflict.seq
           doc == queue.conflict.doc
           rebased == Rebase(updated, seq, doc)
<1>4. /\ updated \in Queue /\ updated.inFlight = None /\ updated.draft = queue.draft
      /\ updated.pendingRetry = None /\ ~updated.expired
  BY <1>1, <1>2, <1>3, UpdatedKeeps, UpdatedOwes, ChangeKeepsDraft DEF Keeps, Updated
<1>5. /\ seq \in Nat /\ doc \in Doc \cup {None} /\ doc # None /\ doc \in Backed
      /\ queue' = KeepMine(updated, seq, doc, editor', NewId)
  BY <1>1, <1>2, DocIsNotNone, VersionIsStored
<1> HIDE DEF updated, seq, doc
<1>6. rebased \in Queue /\ rebased.base = doc /\ rebased.seq = seq
  BY <1>4, <1>5, RebaseType
<1> HIDE DEF rebased
<1>7. Requests(queue') \subseteq {MakePayload(rebased, editor', NewId)}
  BY <1>1, <1>4, <1>5, <1>6, KeepMineTells DEF rebased
<1>8. KeepsDraft(updated, queue')
  BY <1>4, <1>5, KeepMineKeepsDraft
<1>9. queue'.base = doc /\ queue'.seq = seq
  BY <1>1, KeepMineAgainstConflict DEF doc, seq
<1>10. reply' = None
  BY <1>2 DEF IInv, Wire
<1>11. \A p \in Requests(queue') : Snapshot(p, queue', editor')
  BY <1>6, <1>7, <1>9 DEF Snapshot, MakePayload
<1> QED
  BY <1>4, <1>5, <1>8, <1>9, <1>10, <1>11 DEF Careful, KeepsDraft

LEMMA KeepMineOnConflictCareful ==
    ASSUME IInv, DInv, BInv, KeepMineOnConflict
    PROVE  Careful
<1>1. PICK dropped \in SUBSET Feedback :
          editor' = MergedText(queue.base, queue.conflict.doc, dropped)
  BY DEF KeepMineOnConflict
<1>2. queue.conflict # None
  BY DEF KeepMineOnConflict
<1>3. editor' \in Doc
  BY <1>1, <1>2, ConflictSourced, MergedTextType DEF IInv
<1> QED
  BY <1>2, <1>3, KeepMineCareful DEF KeepMineOnConflict

LEMMA ConflictEffectCareful ==
    ASSUME IInv, DInv, BInv, ConflictEffect
    PROVE  Careful
<1>1. /\ queue.conflict # None /\ queue \in Queue /\ editor \in Doc /\ page = "open" /\ Record
      /\ UNCHANGED <<tab, versions, late, skipped, reply>>
  BY PartsTyped DEF ConflictEffect, IInv
<1>2. CASE queue' = [queue EXCEPT !.conflict.fresh = FALSE] /\ UNCHANGED editor
  <2>1. /\ queue'.inFlight = queue.inFlight /\ queue'.pendingRetry = queue.pendingRetry
        /\ queue'.draft = queue.draft /\ queue'.seq = queue.seq
    BY <1>1, <1>2 DEF Queue
  <2> QED
    BY <1>1, <2>1, SelfEchoes DEF Careful, Requests
<1>3. CASE /\ \E dropped \in SUBSET Feedback :
                  editor' = MergeBlocks(queue.base, editor, queue.conflict.doc, dropped)
           /\ queue' = KeepMine(Updated(queue), queue.conflict.seq, queue.conflict.doc, editor', NewId)
  <2>1. editor' \in Doc
    BY <1>1, <1>3, ConflictSourced, MergeBlocksType
  <2> QED
    BY <1>1, <1>3, <2>1, KeepMineCareful
<1> QED
  BY <1>2, <1>3 DEF ConflictEffect

LEMMA LoadLatestCareful ==
    ASSUME IInv, LoadLatest
    PROVE  Careful
<1>1. /\ queue.conflict # None /\ queue \in Queue /\ page = "open" /\ Record
      /\ queue' = AcceptServer(queue, queue.conflict.seq, queue.conflict.doc)
      /\ UNCHANGED <<tab, versions, late, skipped, reply>>
  BY PartsTyped DEF LoadLatest, IInv
<1> DEFINE seq == queue.conflict.seq
           doc == queue.conflict.doc
           rebased == Rebase(queue, seq, doc)
<1>2. queue.inFlight = None /\ seq \in Nat /\ doc \in Doc \cup {None} /\ doc # None
  BY <1>1, ConflictSourced, DocIsNotNone
<1>3. queue' = AcceptServer(queue, seq, doc)
  BY <1>1
<1> HIDE DEF seq, doc
<1>4. rebased.base = doc
  BY <1>1, <1>2, RebaseType
<1>5. queue'.base = doc
  BY <1>1, <1>2, <1>3, <1>4, AcceptServerType DEF Keeps
<1>6. Requests(queue') = {}
  BY <1>1, <1>2, <1>3, AcceptServerTells
<1>7. KeepsDraft(queue, queue') /\ reply' = None
  BY <1>1, <1>2, <1>3, AcceptServerKeepsDraft DEF IInv, Wire
<1> QED
  BY <1>1, <1>2, <1>5, <1>6, <1>7 DEF Careful, KeepsDraft

LEMMA AbsorbRemoteCareful ==
    ASSUME IInv, AbsorbRemote
    PROVE  Careful
<1>1. /\ queue \in Queue /\ page = "open" /\ Record
      /\ UNCHANGED <<tab, versions, late, skipped, reply>>
  BY PartsTyped DEF AbsorbRemote, IInv
<1>2. CASE ~Absorbable
  BY <1>1, <1>2, SelfEchoes DEF AbsorbRemote, Careful
<1>3. CASE Absorbable
  <2> DEFINE updated == Updated(queue)
             seq == poll.seq
             doc == poll.doc
  <2>1. /\ seq \in Nat /\ doc \in Doc /\ doc \in Doc \cup {None} /\ doc # None
        /\ queue.inFlight = None /\ reply' = None
    BY <1>1, <1>3, DocIsNotNone DEF AbsorbRemote, Absorbable, IInv, TypeOK, Poll, Wire
  <2>2. /\ updated \in Queue /\ updated.inFlight = None /\ Requests(updated) = Requests(queue)
        /\ updated.draft = queue.draft
    BY <1>1, <2>1, UpdatedKeeps, UpdatedOwes, ChangeKeepsDraft DEF Keeps, Updated
  <2>3. queue' = Adopt(updated, seq, doc)
    BY <1>3 DEF AbsorbRemote
  <2> HIDE DEF updated, seq, doc
  <2>4. queue' = Rebase(updated, seq, doc) /\ queue'.base = doc
    BY <2>1, <2>2, <2>3, AdoptType, RebaseType
  <2>5. /\ queue'.inFlight = updated.inFlight /\ queue'.pendingRetry = updated.pendingRetry
        /\ queue'.draft = updated.draft
    BY <2>2, <2>4 DEF Rebase, Queue
  <2>6. Requests(queue') = Requests(queue)
    BY <2>2, <2>5 DEF Requests
  <2> QED
    BY <1>1, <2>1, <2>2, <2>4, <2>5, <2>6, SelfEchoes DEF Careful
<1> QED
  BY <1>2, <1>3

LEMMA RequestEndsCareful ==
    ASSUME IInv, BInv, LoseRequest \/ RefuseRequest
    PROVE  Careful
<1>1. /\ queue \in Queue /\ editor \in Doc /\ queue.inFlight # None /\ page = "open" /\ Record
      /\ UNCHANGED <<tab, versions, editor, skipped>>
  BY PartsTyped DEF IInv, Wire, LoseRequest, RefuseRequest
<1>2. Tells(queue, editor, Backed)
  BY <1>1 DEF BInv
<1>3. CASE LoseRequest
  <2>1. queue' = Unreachable(queue, editor) /\ reply' = None /\ Abandon
    BY <1>3 DEF LoseRequest
  <2>2. /\ Requests(queue') \subseteq Requests(queue) /\ DraftsAt(queue, queue')
        /\ queue'.seq = queue.seq
    BY <1>1, <1>2, <2>1, UnreachableTells, RefusalsDraft, UnreachableType
  <2>3. late' # None => late' = late \/ late' \in Requests(queue)
    BY <2>1 DEF Abandon, IInv, Wire, Requests
  <2>4. \A p \in Requests(queue') : \E r \in Requests(queue) : Echoes(p, r)
    BY <2>2, SelfEchoes
  <2>5. queue'.draft # None => queue'.draft = queue.draft \/ queue'.draft.base_seq = queue'.seq
    BY <2>2 DEF DraftsAt
  <2> QED
    BY <1>1, <2>1, <2>2, <2>3, <2>4, <2>5 DEF Careful
<1>4. CASE RefuseRequest
  <2>1. /\ queue' \in {Unauthorized(queue, editor), Rejected(queue, editor)}
        /\ late' = late /\ reply' = None
    BY <1>4 DEF RefuseRequest, IInv, Wire
  <2>2. /\ Requests(queue') \subseteq Requests(queue) /\ DraftsAt(queue, queue')
        /\ queue'.seq = queue.seq
    <3>1. CASE queue' = Unauthorized(queue, editor)
      <4>1. Requests(Unauthorized(queue, editor)) \subseteq Requests(queue)
        BY <1>1, RefusalsTell
      <4>2. DraftsAt(queue, Unauthorized(queue, editor))
        BY <1>1, RefusalsDraft
      <4>3. Unauthorized(queue, editor).seq = queue.seq
        BY <1>1, UnauthorizedType
      <4> QED
        BY <3>1, <4>1, <4>2, <4>3
    <3>2. CASE queue' = Rejected(queue, editor)
      <4>1. Requests(Rejected(queue, editor)) \subseteq Requests(queue)
        BY <1>1, RefusalsTell
      <4>2. DraftsAt(queue, Rejected(queue, editor))
        BY <1>1, RefusalsDraft
      <4>3. Rejected(queue, editor).seq = queue.seq
        BY <1>1, RejectedType
      <4> QED
        BY <3>2, <4>1, <4>2, <4>3
    <3> QED
      BY <2>1, <3>1, <3>2
  <2>3. \A p \in Requests(queue') : \E r \in Requests(queue) : Echoes(p, r)
    BY <2>2, SelfEchoes
  <2>4. queue'.draft # None => queue'.draft = queue.draft \/ queue'.draft.base_seq = queue'.seq
    BY <2>2 DEF DraftsAt
  <2> QED
    BY <1>1, <2>1, <2>2, <2>3, <2>4 DEF Careful
<1> QED
  BY <1>3, <1>4

LEMMA TakeRefusedCareful ==
    ASSUME IInv, ReceiveReply, TakeRefused
    PROVE  Careful
<1>1. /\ reply # None /\ reply.kind \in {"resync", "conflict", "block_conflict"} /\ page = "open"
      /\ queue' = IF reply.kind = "resync" THEN Resync(queue) ELSE Conflicted(queue, reply, editor)
      /\ UNCHANGED <<tab, versions, late, editor, skipped>> /\ reply' = None /\ Record
      /\ editor \in Doc
  BY PartsTyped DEF ReceiveReply, TakeRefused, IInv
<1>2. /\ queue \in Queue /\ queue.inFlight \in Payload
      /\ queue.inFlight # None /\ queue.pendingRetry = None
      /\ reply.seq \in Nat /\ reply.doc \in Doc \cup {None} /\ reply.doc # None
  BY <1>1, AnswerAwaited DEF IInv, Wire
<1>3. CASE reply.kind = "resync"
  <2> DEFINE whole == [queue.inFlight EXCEPT !.kind = "full", !.from = None]
             half == [queue EXCEPT !.base = None]
  <2>1. whole \in Payload /\ half \in Queue /\ half.pendingRetry = None
    <3>1. whole \in Payload
      BY <1>2 DEF Payload
    <3>2. half \in Queue
      BY <1>2, ZenonT(60) DEF Queue
    <3>3. half.pendingRetry = None
      BY <1>2 DEF Queue
    <3> QED
      BY <3>1, <3>2, <3>3
  <2>2. Echoes(whole, queue.inFlight)
    BY <1>2 DEF Payload, Echoes
  <2>3. queue' = SendPayload(half, whole) /\ queue'.draft = queue.draft /\ queue'.seq = queue.seq
    BY <1>1, <1>2, <1>3, ResyncKeepsDraft, ResyncType DEF Resync
  <2> HIDE DEF whole, half
  <2>4. Requests(queue') = {whole}
    <3>1. queue'.inFlight = whole /\ queue'.pendingRetry = None
      BY <2>1, <2>3 DEF SendPayload, Queue
    <3>2. whole # None
      BY <2>1, NoneIsNothing
    <3> QED
      BY <3>1, <3>2 DEF Requests
  <2>5. queue.inFlight \in Requests(queue)
    BY <1>2 DEF Requests
  <2> QED
    BY <1>1, <2>2, <2>3, <2>4, <2>5 DEF Careful
<1>4. CASE reply.kind # "resync"
  <2>1. /\ queue' = Conflicted(queue, reply, editor) /\ reply.doc \in Doc
        /\ reply.kind \in {"conflict", "block_conflict"}
    BY <1>1, <1>2, <1>4
  <2>2. /\ Requests(queue') \subseteq Requests(queue) /\ DraftsAt(queue, queue')
        /\ queue'.seq = queue.seq
    <3>1. Requests(Conflicted(queue, reply, editor)) \subseteq Requests(queue)
      BY <1>1, <1>2, RefusalsTell
    <3>2. DraftsAt(queue, Conflicted(queue, reply, editor))
      BY <1>2, RefusalsDraft
    <3>3. Conflicted(queue, reply, editor).seq = queue.seq
      BY <1>1, <1>2, <2>1, ConflictedType
    <3> QED
      BY <2>1, <3>1, <3>2, <3>3
  <2>3. \A p \in Requests(queue') : \E r \in Requests(queue) : Echoes(p, r)
    BY <2>2, SelfEchoes
  <2>4. queue'.draft # None => queue'.draft = queue.draft \/ queue'.draft.base_seq = queue'.seq
    BY <2>2 DEF DraftsAt
  <2> QED
    BY <1>1, <2>1, <2>2, <2>3, <2>4 DEF Careful
<1> QED
  BY <1>3, <1>4

\* A saved text leaves no base only when the server rewrote it; what it stored
\* as that version is the text that was sent.
LEMMA TakeSavedCareful ==
    ASSUME IInv, DInv, BInv, NInv, ReceiveReply, TakeSaved
    PROVE  Careful
<1> DEFINE payload == queue.inFlight
           base == AckedBase(payload, reply)
           landed == Landed(queue, reply.seq, base)
           updated == Updated(landed)
<1>1. /\ reply # None /\ reply.kind \in {"saved", "merged", "replay"} /\ page = "open"
      /\ queue' = SettleClean(updated, editor', NewId)
      /\ skipped' = (skipped \/ (reply.kind = "replay" /\ versions[reply.seq] # payload.to))
      /\ UNCHANGED <<tab, versions, late>> /\ reply' = None /\ Record
      /\ NewId \in Nat /\ editor \in Doc
  BY PartsTyped DEF ReceiveReply, TakeSaved, IInv
<1>2. /\ queue \in Queue /\ reply.seq \in Nat /\ payload # None /\ payload.to # None
      /\ queue.pendingRetry = None /\ queue.conflict = None /\ ~queue.expired
  BY <1>1, AnswerAwaited, DocIsNotNone
<1>3. editor' \in Doc
  BY ReceiveReplyIInv DEF IInv, TypeOK
<1>4. base \in Doc \cup {None}
  BY <1>1, AckedBaseSourced
<1>5. base = None /\ ~skipped' => ShownVersion(reply.seq)
  <2>1. SUFFICES ASSUME base = None, ~skipped' PROVE ShownVersion(reply.seq)
    OBVIOUS
  <2>2. reply.kind = "saved"
    BY <1>1, <1>2, <2>1 DEF AckedBase, IInv, Wire
  <2>3. payload \in Requests(queue)
    BY <1>2 DEF Requests
  <2>4. versions[reply.seq] = payload.to /\ Seen(payload.to)
    BY <1>1, <2>1, <2>2, <2>3 DEF NInv, SeenRequest
  <2>5. reply.seq \in DOMAIN versions
    BY <1>1 DEF IInv, Sourced
  <2> QED
    BY <2>4, <2>5 DEF ShownVersion
<1> HIDE DEF base
<1>6. /\ landed \in Queue /\ Free(landed) /\ landed.base = base /\ Requests(landed) = {}
      /\ landed.seq = reply.seq /\ landed.draft = queue.draft
  <2>1. landed.draft = queue.draft
    BY <1>2 DEF Landed, Queue
  <2>2. /\ landed \in Queue /\ landed.inFlight = None /\ landed.conflict = None
        /\ landed.pendingRetry = None /\ ~landed.expired /\ landed.base = base
        /\ landed.seq = reply.seq
    BY <1>2, <1>4, LandedType
  <2> QED
    BY <2>1, <2>2 DEF Free, Requests
<1> HIDE DEF landed
<1>7. /\ updated \in Queue /\ Free(updated) /\ updated.base = base /\ Requests(updated) = {}
      /\ updated.seq = reply.seq /\ updated.draft = queue.draft
  BY <1>6, UpdatedKeeps, UpdatedOwes, ChangeKeepsDraft DEF Keeps, Updated
<1> HIDE DEF updated
<1>8. queue'.base = base /\ queue'.seq = reply.seq
  BY <1>1, <1>3, <1>7, SettleCleanKeeps DEF Keeps
<1>9. DraftsAt(updated, queue')
  BY <1>1, <1>3, <1>7, SettleCleanDrafts
<1>10. Sends(updated, queue', editor', NewId)
  <2>1. /\ updated.base # None => updated.base \in Doc
        /\ ~updated.dirty => editor' \in Doc
    BY <1>3, <1>4, <1>7
  <2> QED
    BY <1>1, <1>3, <1>7, <2>1, SettleCleanTells
<1>11. \A p \in Requests(queue') : Snapshot(p, queue', editor')
  BY <1>7, <1>8, <1>10, SendsSnapshots
<1>12. queue'.draft # None => queue'.draft = queue.draft \/ queue'.draft.base_seq = queue'.seq
  BY <1>7, <1>8, <1>9 DEF DraftsAt
<1> QED
  BY <1>1, <1>5, <1>8, <1>11, <1>12 DEF Careful

LEMMA KeepLocalDraftCareful ==
    ASSUME IInv, DInv, BInv, KeepLocalDraft
    PROVE  Careful
<1>1. /\ queue \in Queue /\ queue.seq \in Nat /\ NewId \in Nat /\ page = "open" /\ Record
      /\ editor' \in Doc /\ ~Unsettled(queue)
      /\ queue' = KeepMine(queue, queue.seq, None, editor', NewId)
      /\ UNCHANGED <<tab, versions, late, skipped, reply>>
  BY PartsTyped DEF IInv, DInv, Asked, KeepLocalDraft, Draft
<1>2. queue.inFlight = None /\ queue.pendingRetry = None /\ ~queue.expired
  BY <1>1 DEF Unsettled
<1> DEFINE rebased == Rebase(queue, queue.seq, None)
<1>3. rebased \in Queue /\ rebased.base = queue.base /\ rebased.seq = queue.seq
  BY <1>1, RebaseType
<1>4. queue.base # None => queue.base \in Backed
  BY BaseIsBacked
<1> HIDE DEF rebased
<1>5. Requests(queue') \subseteq {MakePayload(rebased, editor', NewId)}
  BY <1>1, <1>2, <1>3, <1>4, KeepMineTells, ZenonT(60) DEF rebased
<1>6. queue'.base = queue.base /\ queue'.seq = queue.seq
  BY <1>1, <1>3, KeepMineType DEF Keeps, rebased
<1>7. \A p \in Requests(queue') : Snapshot(p, queue', editor')
  BY <1>3, <1>5, <1>6 DEF Snapshot, MakePayload
<1>8. KeepsDraft(queue, queue') /\ reply' = None
  BY <1>1, <1>2, KeepMineKeepsDraft DEF IInv, Wire
<1> QED
  BY <1>1, <1>6, <1>7, <1>8 DEF Careful, KeepsDraft

LEMMA DiscardLocalDraftCareful ==
    ASSUME IInv, DiscardLocalDraft
    PROVE  Careful
<1>1. /\ queue \in Queue /\ queue' = [queue EXCEPT !.draft = None] /\ Record
      /\ page = "open" /\ UNCHANGED <<tab, versions, late, skipped, reply>>
  BY PartsTyped DEF IInv, DiscardLocalDraft
<1>2. /\ queue'.inFlight = queue.inFlight /\ queue'.pendingRetry = queue.pendingRetry
      /\ queue'.draft = None /\ queue'.seq = queue.seq
  BY <1>1 DEF Queue
<1> QED
  BY <1>1, <1>2, SelfEchoes DEF Careful, Requests

\* The page dies; what it leaves behind was seen.
LEMMA CrashNInv ==
    ASSUME IInv, NInv, Crash
    PROVE  NInv'
<1>1. /\ page' = "gone" /\ reply' = None /\ Abandon
      /\ queue' = NewQueue(0, None, queue.draft)
      /\ UNCHANGED <<tab, versions, seen, skipped>>
  BY DEF Crash, historyVars
<1>2. queue'.draft = queue.draft /\ Requests(queue)' = {}
  BY <1>1 DEF NewQueue, Requests
<1>3. late' # None => late' = late \/ late' \in Requests(queue)
  BY <1>1 DEF Abandon, IInv, Wire, Requests
<1>4. ~skipped /\ late' # None => SeenRequest(late)'
  BY <1>1, <1>3 DEF NInv, SeenRequest, ShownVersion, Seen
<1> QED
  BY <1>1, <1>2, <1>4 DEF NInv, ShownVersion, Seen

\* A draft is pushed over the version that it was made from, or the stored text
\* is shown.
LEMMA OpenNInv ==
    ASSUME IInv, BInv, NInv, Open
    PROVE  NInv'
<1> SUFFICES ASSUME ~skipped' PROVE NInv'
  BY DEF NInv
<1> DEFINE draft == queue.draft
           decision == Reconcile(draft)
           kept == IF decision = "discard" THEN None ELSE draft
           opened == NewQueue(tab.save_seq, tab.doc, kept)
<1>1. /\ editor' = IF decision = "push" THEN draft.doc ELSE tab.doc
      /\ queue' = IF decision = "push"
                  THEN Flush(Change(opened), draft.doc, NewId, "load") ELSE opened
      /\ seen' = seen \cup (Foreign \cap PiecesOf(editor'))
      /\ UNCHANGED <<tab, versions, late, skipped, reply>> /\ page = "gone" /\ ~skipped
  BY DEF Open
<1>2. /\ tab.save_seq \in Nat /\ tab.doc \in Doc \cup {None} /\ tab.doc # None
      /\ draft \in Draft \cup {None} /\ kept \in Draft \cup {None} /\ NewId \in Nat
      /\ tab.doc \in Backed /\ Version(tab.save_seq, tab.doc) /\ reply' = None
  BY <1>1, PartsTyped, DocIsNotNone, VersionIsStored DEF IInv, Sourced, Wire
<1>3. kept # None => kept = draft
  OBVIOUS
<1>4. draft # None => ShownVersion(draft.base_seq)
  BY <1>1 DEF NInv
<1> HIDE DEF kept
<1>5. /\ opened \in Queue /\ opened.base = tab.doc /\ opened.seq = tab.save_seq
      /\ opened.draft = kept /\ Requests(opened) = {}
  <2>1. opened \in Queue
    BY <1>2, NewQueueType
  <2> QED
    BY <2>1 DEF NewQueue, Requests
<1> HIDE DEF opened
<1>6. /\ queue'.seq = tab.save_seq /\ queue'.base = tab.doc /\ KeepsDraft(opened, queue')
      /\ \A p \in Requests(queue') : Snapshot(p, queue', editor')
  <2>1. CASE decision = "push"
    <3> DEFINE changed == Change(opened)
    <3>1. draft.doc \in Doc
      BY <1>2, <2>1 DEF Reconcile, Draft
    <3>2. /\ changed \in Queue /\ changed.base = tab.doc /\ changed.seq = tab.save_seq
          /\ Requests(changed) = {} /\ changed.draft = kept
          /\ Tells(changed, draft.doc, Backed)
      BY <1>5, ChangeKeeps, ChangeTells, ChangeKeepsDraft DEF Keeps
    <3> HIDE DEF changed
    <3>3. queue' = Flush(changed, draft.doc, NewId, "load") /\ editor' = draft.doc
      BY <1>1, <2>1 DEF changed
    <3> HIDE DEF draft
    <3>4. /\ Sends(changed, queue', editor', NewId) /\ KeepsDraft(changed, queue')
          /\ queue'.base = tab.doc /\ queue'.seq = tab.save_seq
      BY <1>2, <3>1, <3>2, <3>3, FlushTells, FlushKeeps, FlushKeepsDraft, SMTT(60) DEF Keeps
    <3>5. \A p \in Requests(queue') : Snapshot(p, queue', editor')
      BY <3>2, <3>4, SendsSnapshots
    <3> QED
      BY <1>5, <3>2, <3>4, <3>5 DEF KeepsDraft
  <2>2. CASE decision # "push"
    BY <1>1, <1>5, <2>2 DEF KeepsDraft
  <2> QED
    BY <2>1, <2>2
<1>7. Foreign \cap PiecesOf(tab.doc) \subseteq seen'
  <2>1. CASE decision = "push"
    <3>1. draft # None /\ draft.base_seq = tab.save_seq
      BY <2>1 DEF Reconcile
    <3>2. Seen(tab.doc)
      BY <1>2, <1>4, <3>1 DEF ShownVersion, Version
    <3> QED
      BY <1>1, <3>2 DEF Seen
  <2>2. CASE decision # "push"
    BY <1>1, <2>2
  <2> QED
    BY <2>1, <2>2
<1>8. Foreign \cap PiecesOf(editor') \subseteq seen' /\ seen \subseteq seen'
  BY <1>1
<1>9. Seen(editor)' /\ ShownVersion(queue.seq)'
  BY <1>1, <1>2, <1>6, <1>7, <1>8 DEF Seen, ShownVersion, Version
<1>10. queue'.draft # None => ShownVersion(queue.draft.base_seq)'
  <2>1. queue'.draft # None => draft # None /\ queue'.draft = draft
    BY <1>3, <1>5, <1>6 DEF KeepsDraft
  <2> QED
    BY <1>1, <1>4, <1>8, <2>1 DEF ShownVersion, Seen
<1>11. (\A p \in Requests(queue) : SeenRequest(p))'
  <2>1. ASSUME NEW p \in Requests(queue')
        PROVE  /\ p.base_seq \in DOMAIN versions'
               /\ Foreign \cap PiecesOf(versions'[p.base_seq]) \subseteq seen'
               /\ Foreign \cap PiecesOf(p.to) \subseteq seen'
               /\ p.kind = "ops" => Foreign \cap PiecesOf(p.from) \subseteq seen'
    BY <1>1, <1>2, <1>6, <1>7, <1>8 DEF Snapshot, Version
  <2> QED
    BY <2>1 DEF SeenRequest, ShownVersion, Seen, Requests
<1>12. late' # None => SeenRequest(late)'
  BY <1>1, <1>8 DEF NInv, SeenRequest, ShownVersion, Seen
<1> QED
  BY <1>2, <1>9, <1>10, <1>11, <1>12 DEF NInv

-----------------------------------------------------------------------------
LEMMA InitNInv == Init => NInv
<1> SUFFICES ASSUME Init PROVE NInv
  OBVIOUS
<1>1. /\ queue = NewQueue(1, EmptyDoc, None) /\ editor = EmptyDoc
      /\ versions = <<EmptyDoc>> /\ late = None /\ reply = None
  BY DEF Init
<1>2. PiecesOf(EmptyDoc) = {}
  BY DEF PiecesOf, EmptyDoc
<1>3. queue.seq = 1 /\ queue.draft = None /\ Requests(queue) = {}
  BY <1>1 DEF NewQueue, Requests
<1>4. Seen(editor) /\ ShownVersion(queue.seq)
  BY <1>1, <1>2, <1>3 DEF Seen, ShownVersion
<1> QED
  BY <1>1, <1>3, <1>4 DEF NInv

LEMMA StepNInv == IInv /\ DInv /\ BInv /\ NInv /\ [Next]_vars => NInv'
<1> SUFFICES ASSUME IInv, DInv, BInv, NInv, [Next]_vars PROVE NInv'
  OBVIOUS
<1>1. IInv'
  BY StepIInv
<1>2. CASE UNCHANGED <<versions, queue, editor, page, late, reply, seen, skipped>>
  BY <1>2 DEF NInv, SeenRequest, ShownVersion, Seen, Requests
<1>3. CASE PollChanges
  BY <1>2, <1>3 DEF PollChanges
<1>4. CASE ReceiveReply
  BY <1>1, <1>4, TakeSavedCareful, TakeRefusedCareful, CarefulKeepsNInv DEF ReceiveReply
<1>5. CASE ClientStep
  BY <1>1, <1>3, <1>4, <1>5, CarefulKeepsNInv, CallbackCareful, EditCareful, RequestEndsCareful,
     ConflictEffectCareful, KeepMineOnConflictCareful, LoadLatestCareful, AbsorbRemoteCareful,
     KeepLocalDraftCareful, DiscardLocalDraftCareful, CrashNInv, OpenNInv DEF ClientStep
<1>6. CASE UNCHANGED vars
  BY <1>2, <1>6 DEF vars
<1> QED
  BY <1>5, <1>6, ServerStepNInv DEF Next

\* What a save takes out of the stored text was in the version it was made from.
LEMMA AcceptedTakesOnlySeen ==
    ASSUME IInv, NEW payload \in Payload, SeenRequest(payload), Autosave(payload)
    PROVE  Foreign \cap (PiecesOf(tab.doc) \ PiecesOf(tab'.doc)) \subseteq seen
<1>1. SUFFICES ASSUME NEW piece \in Foreign, piece \in PiecesOf(tab.doc),
                      piece \notin PiecesOf(tab'.doc)
               PROVE  piece \in seen
  OBVIOUS
<1>2. Accepted(payload) /\ tab'.doc = Outcome(payload)
  BY <1>1 DEF Autosave, serverVars, Store
<1>3. PICK b \in Blocks : piece \in tab.doc[b] /\ piece \notin Outcome(payload)[b]
  BY <1>1, <1>2 DEF PiecesOf
<1>4. CASE payload.kind = "ops"
  <2>1. b \in Changed(payload.from, payload.to)
    BY <1>3, <1>4 DEF Outcome, ApplyOps
  <2>2. tab.doc[b] = payload.from[b]
    BY <1>2, <1>4, <2>1 DEF Accepted, Conflicting, OpConflicts
  <2>3. piece \in PiecesOf(payload.from)
    BY <1>3, <2>2 DEF PiecesOf
  <2> QED
    BY <1>1, <1>4, <2>3 DEF SeenRequest, Seen
<1>5. CASE payload.kind # "ops"
  <2>1. payload.base_seq = tab.save_seq
    BY <1>2, <1>5 DEF Accepted, Stale, Merging
  <2>2. Seen(tab.doc)
    BY <2>1 DEF SeenRequest, ShownVersion, IInv, Sourced, Version
  <2> QED
    BY <1>1, <2>2 DEF Seen
<1> QED
  BY <1>4, <1>5

\* No blind overwrite: a save of this client, retried, resent whole, pushed from
\* a draft or late, takes a counselor's mark or another device's text out of the
\* stored text only when this client has shown it, asked about it or merged with
\* it (views.py autosave with its hashes and base_seq, saveQueue.js base).
THEOREM NothingIsOverwrittenBlindly == Spec => NoBlindOverwrite
<1>1. ASSUME IInv, BInv, NInv, AutosaveSent \/ AutosaveLate, ~skipped
      PROVE  Foreign \cap (PiecesOf(tab.doc) \ PiecesOf(tab'.doc)) \subseteq seen
  <2>1. CASE AutosaveSent
    <3>1. sent \in Requests(queue) /\ sent \in Payload /\ Autosave(sent)
      BY <1>1, <2>1 DEF AutosaveSent, IInv, Wire, Requests, TypeOK
    <3> QED
      BY <1>1, <3>1, AcceptedTakesOnlySeen DEF NInv
  <2>2. CASE AutosaveLate
    <3>1. late # None /\ late \in Payload /\ Autosave(late)
      BY <1>1, <2>2 DEF AutosaveLate, IInv, TypeOK
    <3> QED
      BY <1>1, <3>1, AcceptedTakesOnlySeen DEF NInv
  <2> QED
    BY <1>1, <2>1, <2>2
<1>2. IInv /\ (DInv /\ BInv) /\ NInv =>
        ((AutosaveSent \/ AutosaveLate) /\ ~skipped
            => Foreign \cap (PiecesOf(tab.doc) \ PiecesOf(tab'.doc)) \subseteq seen)
  BY <1>1
<1>3. IInv /\ (DInv /\ BInv) /\ NInv /\ [Next]_vars => NInv'
  BY StepNInv
<1>4. Spec => [](IInv /\ (DInv /\ BInv) /\ NInv)
  BY Invariance, BadgeInvariance, InitNInv, <1>3, PTL DEF Spec
<1> QED
  BY <1>2, <1>4, PTL DEF Spec, NoBlindOverwrite
=============================================================================
