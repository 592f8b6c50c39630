----------------------- MODULE EssayAutosaveTheorems -----------------------
(***************************************************************************)
(* Theorems about the autosave protocol, for any blocks, pieces of text,   *)
(* number of edits, crashes, late requests and restores.                   *)
(*                                                                         *)
(* IInv is the inductive invariant.  Its parts say how the queue, the      *)
(* network and the history of the server fit together: what is in flight   *)
(* is on the network (Wire), unsent text has a reason to move on (Alive,   *)
(* from SaveQueueTheorems), and every version number that anyone holds     *)
(* names the document the server stored under it (Sourced).                *)
(***************************************************************************)
EXTENDS EssayAutosave, SaveQueueTheorems

\* The queue waits for exactly the request, or the answer, on the network.
Wire ==
    /\ queue.inFlight # None <=> (sent # None \/ reply # None)
    /\ sent # None => reply = None /\ sent = queue.inFlight
    /\ reply # None /\ reply.kind \notin {"saved", "replay"} => reply.doc # None
    /\ page = "gone" => queue.inFlight = None

\* The server stored "doc" as version "seq".
Version(seq, doc) == seq \in DOMAIN versions /\ versions[seq] = doc

\* Version numbers and documents that travel together belong together, and
\* none of them is older than the version the queue builds on.
Sourced ==
    /\ DOMAIN versions = 1..tab.save_seq
    /\ Version(tab.save_seq, tab.doc)
    /\ queue.seq <= tab.save_seq
    /\ reply # None =>
          /\ reply.seq \in DOMAIN versions
          /\ queue.seq <= reply.seq
          /\ reply.doc # None => Version(reply.seq, reply.doc)
    /\ poll # None => Version(poll.seq, poll.doc)
    /\ queue.conflict # None =>
          /\ Version(queue.conflict.seq, queue.conflict.doc)
          /\ queue.seq <= queue.conflict.seq
    /\ ~skipped /\ queue.base # None => Version(queue.seq, queue.base)

IInv == TypeOK /\ Wire /\ Alive(queue) /\ Sourced
-----------------------------------------------------------------------------
LEMMA DocIsNotNone == \A doc \in Doc : doc # None
BY NoneIsNothing

\* makeId() always has an id left to give.
LEMMA NewIdType ==
    ASSUME TypeOK
    PROVE  NewId \in Nat
<1> DEFINE Fresh(id) == id # tab.last_client_save_id /\ (late # None => id # late.id)
<1>1. \E id \in 1..3 : Fresh(id)
  <2>1. 1 \in 1..3 /\ 2 \in 1..3 /\ 3 \in 1..3
    OBVIOUS
  <2>2. Fresh(1) \/ Fresh(2) \/ Fresh(3)
    OBVIOUS
  <2> QED
    BY <2>1, <2>2
<1> QED
  BY <1>1 DEF NewId

LEMMA MergedTextType ==
    ASSUME TypeOK, NEW base, NEW server \in Doc, NEW dropped
    PROVE  MergedText(base, server, dropped) \in Doc
BY MergeBlocksType DEF MergedText, TypeOK

\* The update event of the editor, muted or not.
LEMMA UpdatedKeeps ==
    ASSUME NEW q \in Queue
    PROVE  /\ Keeps(q, Updated(q))
           /\ Updated(q).inFlight = q.inFlight
           /\ Updated(q).conflict = q.conflict
           /\ Alive(q) => Alive(Updated(q))
           /\ Free(q) => Free(Updated(q))
<1>1. Keeps(q, q)
  BY DEF Keeps
<1> QED
  BY <1>1, ChangeKeeps, ChangeAlive DEF Updated

LEMMA OutcomeType ==
    ASSUME TypeOK, NEW payload \in Payload
    PROVE  Outcome(payload) \in Doc
BY ApplyOpsType DEF Outcome, TypeOK, TabRow, Payload

-----------------------------------------------------------------------------
\* What any write of the tab, and no write, does to the server's history.
Grown ==
    /\ tab' \in TabRow
    /\ versions' \in Seq(Doc)
    /\ tab.save_seq <= tab'.save_seq
    /\ DOMAIN versions' = 1..tab'.save_seq
    /\ Version(tab.save_seq, tab.doc)'
    /\ \A seq : seq \in DOMAIN versions => seq \in DOMAIN versions' /\ versions'[seq] = versions[seq]

LEMMA StoreGrows ==
    ASSUME TypeOK, Sourced, NEW doc \in Doc, NEW saveId \in Nat, Store(doc, saveId)
    PROVE  Grown /\ tab'.save_seq = tab.save_seq + 1 /\ tab'.doc = doc
<1>1. tab.save_seq \in Nat /\ versions \in Seq(Doc) /\ Len(versions) = tab.save_seq
  BY DEF TypeOK, TabRow, Sourced
<1>2. /\ tab' = [doc |-> doc, save_seq |-> tab.save_seq + 1, last_client_save_id |-> saveId]
      /\ versions' = Append(versions, doc)
  BY DEF Store
<1>3. /\ versions' \in Seq(Doc)
      /\ Len(versions') = tab.save_seq + 1
      /\ versions'[tab.save_seq + 1] = doc
      /\ \A seq \in 1..tab.save_seq : versions'[seq] = versions[seq]
  BY <1>1, <1>2
<1>4. DOMAIN versions = 1..tab.save_seq /\ DOMAIN versions' = 1..(tab.save_seq + 1)
  BY <1>1, <1>3
<1>5. tab' \in TabRow /\ tab'.save_seq = tab.save_seq + 1 /\ tab'.doc = doc
  BY <1>1, <1>2 DEF TabRow
<1>6. Version(tab.save_seq, tab.doc)'
  BY <1>1, <1>3, <1>4, <1>5 DEF Version
<1>7. \A seq : seq \in DOMAIN versions => seq \in DOMAIN versions' /\ versions'[seq] = versions[seq]
  BY <1>1, <1>3, <1>4
<1> QED
  BY <1>1, <1>3, <1>4, <1>5, <1>6, <1>7 DEF Grown

\* A save that is refused, replayed or without effect writes nothing.
LEMMA AutosaveGrows ==
    ASSUME TypeOK, Sourced, NEW payload \in Payload, Autosave(payload)
    PROVE  Grown
<1>1. CASE Accepted(payload)
  BY <1>1, StoreGrows, OutcomeType DEF Autosave, Payload
<1>2. CASE ~Accepted(payload)
  BY <1>2 DEF Autosave, serverVars, Grown, TypeOK, Sourced, TabRow, Version
<1> QED
  BY <1>1, <1>2

\* The answer names a version and, if any document, that version's.
LEMMA AutosaveAnswerSourced ==
    ASSUME TypeOK, Sourced, NEW payload \in Payload, NEW rewritten \in BOOLEAN, Autosave(payload)
    PROVE  LET answer == AutosaveAnswer(payload, rewritten)
           IN  /\ answer \in Answer
               /\ tab.save_seq <= answer.seq
               /\ answer.seq \in DOMAIN versions'
               /\ answer.doc # None => versions'[answer.seq] = answer.doc
               /\ answer.kind \notin {"saved", "replay"} => answer.doc # None
<1> DEFINE answer == AutosaveAnswer(payload, rewritten)
<1>1. Outcome(payload) \in Doc /\ tab.doc \in Doc /\ tab.save_seq \in Nat
  BY OutcomeType DEF TypeOK, TabRow
<1>2. CASE Accepted(payload)
  <2>1. Grown /\ tab'.save_seq = tab.save_seq + 1 /\ tab'.doc = Outcome(payload)
    BY <1>1, <1>2, StoreGrows DEF Autosave, Payload
  <2>2. /\ answer.seq = tab.save_seq + 1
        /\ answer.kind \in {"saved", "merged"}
        /\ answer.doc \in {Outcome(payload), None}
        /\ answer.kind = "merged" => answer.doc = Outcome(payload)
        /\ answer \in [kind : {"saved", "merged"}, seq : Nat, doc : Doc \cup {None}]
    BY <1>1, <1>2 DEF AutosaveAnswer, Accepted, HashOf
  <2> QED
    BY <1>1, <2>1, <2>2, DocIsNotNone DEF Grown, Version, Answer
<1>3. CASE ~Accepted(payload)
  <2>1. tab' = tab /\ versions' = versions
    BY <1>3 DEF Autosave, serverVars
  <2>2. /\ answer.seq = tab.save_seq
        /\ answer.doc \in {tab.doc, None}
        /\ answer.kind \notin {"saved", "replay"} => answer.doc = tab.doc
        /\ answer \in Answer
    <3>1. Merging(payload) /\ Unchanged(payload) => Outcome(payload) = tab.doc
      BY DEF Unchanged
    <3> QED
      BY <1>1, <1>3, <3>1 DEF AutosaveAnswer, Accepted, Answer
  <2> QED
    BY <1>1, <2>1, <2>2, DocIsNotNone DEF Sourced, Version
<1> QED
  BY <1>2, <1>3

\* A write of the tab that this client does not hear of keeps the invariant.
LEMMA GrownKeepsIInv ==
    ASSUME IInv, Grown, late' \in Payload \cup {None},
           UNCHANGED <<queue, editor, unsynced, page, sent, reply, poll, edits, crashes, seen, skipped>>
    PROVE  IInv'
<1> USE DEF IInv
<1>1. TypeOK'
  BY DEF TypeOK, Grown
<1>2. Wire' /\ Alive(queue)'
  BY DEF Wire, Alive
<1>3. Sourced'
  <2>1. tab.save_seq \in Nat /\ tab'.save_seq \in Nat /\ queue.seq \in Nat
    BY DEF TypeOK, TabRow, Queue, Grown
  <2>2. DOMAIN versions' = 1..tab'.save_seq /\ Version(tab.save_seq, tab.doc)'
    BY DEF Grown
  <2>3. queue'.seq <= tab'.save_seq
    BY <2>1 DEF Sourced, Grown
  <2>4. \A seq, doc : Version(seq, doc) => Version(seq, doc)'
    BY DEF Grown, Version
  <2>5. reply' # None =>
            /\ reply'.seq \in DOMAIN versions'
            /\ queue'.seq <= reply'.seq
            /\ reply'.doc # None => Version(reply.seq, reply.doc)'
    BY <2>4 DEF Sourced, Grown
  <2>6. poll' # None => Version(poll.seq, poll.doc)'
    BY <2>4 DEF Sourced
  <2>7. queue'.conflict # None =>
            /\ Version(queue.conflict.seq, queue.conflict.doc)'
            /\ queue'.seq <= queue'.conflict.seq
    BY <2>4 DEF Sourced
  <2>8. ~skipped' /\ queue'.base # None => Version(queue.seq, queue.base)'
    BY <2>4 DEF Sourced
  <2> QED
    BY <2>2, <2>3, <2>5, <2>6, <2>7, <2>8 DEF Sourced
<1> QED
  BY <1>1, <1>2, <1>3

-----------------------------------------------------------------------------
\* The server's steps.
LEMMA ServerStepIInv ==
    ASSUME IInv, ServerStep
    PROVE  IInv'
<1> USE DEF IInv
<1>1. tab.doc \in Doc /\ tab.save_seq \in Nat /\ tab.last_client_save_id \in Nat
  BY DEF TypeOK, TabRow
<1>2. CASE AutosaveSent
  <2>1. sent \in Payload /\ Autosave(sent) /\ reply = None /\ sent = queue.inFlight
    BY <1>2 DEF AutosaveSent, TypeOK, Wire
  <2>2. Grown
    BY <2>1, AutosaveGrows
  <2>3. /\ reply' \in Answer
        /\ tab.save_seq <= reply'.seq
        /\ reply'.seq \in DOMAIN versions'
        /\ reply'.doc # None => versions'[reply'.seq] = reply'.doc
        /\ reply'.kind \notin {"saved", "replay"} => reply'.doc # None
    <3>1. PICK rewritten \in Rewrites : reply' = AutosaveAnswer(sent, rewritten)
      BY <1>2 DEF AutosaveSent
    <3>2. rewritten \in BOOLEAN
      BY BoundsAreNaturals
    <3> QED
      BY <2>1, <3>1, <3>2, AutosaveAnswerSourced
  <2>4. sent' = None /\ UNCHANGED <<queue, editor, unsynced, page, late, poll, edits,
                                    crashes, seen, skipped>>
    BY <1>2 DEF AutosaveSent
  <2>5. TypeOK'
    BY <2>2, <2>3, <2>4 DEF TypeOK, Grown
  <2>6. reply' # None
    BY <2>3, NoneIsNoAnswer
  <2>7. Wire' /\ Alive(queue)'
    BY <2>1, <2>3, <2>4, <2>6, NoneIsNothing DEF Wire, Alive
  <2>8. tab'.save_seq \in Nat /\ queue.seq \in Nat /\ reply'.seq \in Nat
    BY <2>2, <2>3 DEF Grown, TabRow, TypeOK, Queue, Answer
  <2>9. \A seq, doc : Version(seq, doc) => Version(seq, doc)'
    BY <2>2 DEF Grown, Version
  <2>10. Version(reply.seq, reply.doc)' \/ reply'.doc = None
    BY <2>3 DEF Version
  <2>11. Sourced'
    BY <1>1, <2>2, <2>3, <2>4, <2>8, <2>9, <2>10 DEF Sourced, Grown
  <2> QED
    BY <2>5, <2>7, <2>11
<1>3. CASE AutosaveLate
  <2>1. late \in Payload /\ Autosave(late)
    BY <1>3 DEF AutosaveLate, TypeOK
  <2> QED
    BY <1>3, <2>1, AutosaveGrows, GrownKeepsIInv DEF AutosaveLate
<1>4. CASE CounselorMarks
  <2>1. PICK b \in Blocks, mark \in Feedback \ UsedPieces :
            Store([tab.doc EXCEPT ![b] = @ \cup {mark}], tab.last_client_save_id)
    BY <1>4 DEF CounselorMarks
  <2>2. [tab.doc EXCEPT ![b] = @ \cup {mark}] \in Doc
    BY <1>1, <2>1 DEF Doc, Piece, Foreign
  <2> QED
    BY <1>1, <1>4, <2>1, <2>2, StoreGrows, GrownKeepsIInv DEF CounselorMarks, networkVars, TypeOK
<1>5. CASE OtherDeviceSaves
  <2>1. PICK b \in Blocks, text \in Elsewhere \ UsedPieces :
            Store([tab.doc EXCEPT ![b] = @ \cup {text}], 0)
    BY <1>5 DEF OtherDeviceSaves
  <2>2. [tab.doc EXCEPT ![b] = @ \cup {text}] \in Doc
    BY <1>1, <2>1 DEF Doc, Piece, Foreign
  <2> QED
    BY <1>1, <1>5, <2>1, <2>2, StoreGrows, GrownKeepsIInv DEF OtherDeviceSaves, networkVars, TypeOK
<1>6. CASE OtherDeviceRestores
  <2>1. PICK n \in DOMAIN versions : Store(versions[n], tab.last_client_save_id)
    BY <1>6 DEF OtherDeviceRestores
  <2>2. versions[n] \in Doc
    BY <2>1 DEF TypeOK
  <2> QED
    BY <1>1, <1>6, <2>1, <2>2, StoreGrows, GrownKeepsIInv DEF OtherDeviceRestores, networkVars, TypeOK
<1> QED
  BY <1>2, <1>3, <1>4, <1>5, <1>6 DEF ServerStep

-----------------------------------------------------------------------------
\* A step of the client between two answers: the queue may drop its conflict,
\* and moves to another version only when it waits for no answer.
LEMMA MoveKeepsIInv ==
    ASSUME IInv,
           page = "open",
           queue' \in Queue,
           Alive(queue)',
           queue.inFlight # None => queue'.inFlight = queue.inFlight /\ queue'.seq = queue.seq,
           queue'.seq <= tab.save_seq,
           \/ queue'.seq = queue.seq /\ queue'.base = queue.base
           \/ queue'.base # None => Version(queue'.seq, queue'.base),
           queue'.conflict # None =>
               /\ queue.conflict # None
               /\ queue'.seq = queue.seq
               /\ queue'.conflict.seq = queue.conflict.seq
               /\ queue'.conflict.doc = queue.conflict.doc,
           editor' \in Doc,
           unsynced' \in Draft \cup {None},
           edits' \in 0..MaxEdits,
           poll' \in {poll, None},
           UNCHANGED <<tab, page, late, reply, crashes, versions, skipped>>,
           Transmit,
           Record
    PROVE  IInv'
<1> USE DEF IInv
<1>1. sent' \in Payload \cup {None}
  BY DEF Transmit, TypeOK, Queue
<1>2. seen' \subseteq Foreign
  BY DEF Record, TypeOK
<1>3. TypeOK'
  BY <1>1, <1>2 DEF TypeOK
<1>4. Wire'
  <2>1. CASE queue.inFlight = None
    <3>1. sent' = queue'.inFlight /\ reply' = None
      BY <2>1 DEF Transmit, Wire
    <3> QED
      BY <3>1 DEF Wire
  <2>2. CASE queue.inFlight # None
    <3>1. sent' = sent /\ queue'.inFlight = queue.inFlight
      BY <2>2 DEF Transmit
    <3> QED
      BY <2>2, <3>1 DEF Wire
  <2> QED
    BY <2>1, <2>2
<1>5. Sourced'
  <2>1. \A seq, doc : Version(seq, doc) => Version(seq, doc)'
    BY DEF Version
  <2>2. reply' # None =>
            /\ reply'.seq \in DOMAIN versions'
            /\ queue'.seq <= reply'.seq
            /\ reply'.doc # None => Version(reply.seq, reply.doc)'
    BY <2>1 DEF Sourced, Wire
  <2>3. queue'.conflict # None =>
            /\ Version(queue.conflict.seq, queue.conflict.doc)'
            /\ queue'.seq <= queue'.conflict.seq
    BY <2>1 DEF Sourced
  <2>4. poll' # None => Version(poll.seq, poll.doc)'
    BY <2>1 DEF Sourced
  <2>5. ~skipped' /\ queue'.base # None => Version(queue.seq, queue.base)'
    BY <2>1 DEF Sourced, Version
  <2>6. DOMAIN versions' = 1..tab'.save_seq /\ Version(tab.save_seq, tab.doc)'
    BY DEF Sourced, Version
  <2> QED
    BY <2>2, <2>3, <2>4, <2>5, <2>6 DEF Sourced
<1> QED
  BY <1>3, <1>4, <1>5

\* A callback that only changes the queue, and keeps its version.
LEMMA KeptMoveKeepsIInv ==
    ASSUME IInv,
           page = "open",
           Keeps(queue, queue'),
           Alive(queue)',
           editor' \in Doc,
           unsynced' \in Draft \cup {None},
           edits' \in 0..MaxEdits,
           poll' \in {poll, None},
           UNCHANGED <<tab, page, late, reply, crashes, versions, skipped>>,
           Transmit,
           Record
    PROVE  IInv' /\ queue'.seq = queue.seq
<1>1. queue'.seq <= tab.save_seq
  BY DEF Keeps, IInv, Sourced
<1> QED
  BY <1>1, MoveKeepsIInv DEF Keeps

-----------------------------------------------------------------------------
\* The client's steps.  Forward is the step property the version guards give.
Forward == page = "open" /\ page' = "open" => queue'.seq >= queue.seq

\* What the types say of the parts that the steps below take apart.
LEMMA PartsTyped ==
    ASSUME TypeOK
    PROVE  /\ queue \in Queue /\ queue.seq \in Nat /\ queue.base \in Doc \cup {None}
           /\ queue.conflict \in Conflict \cup {None}
           /\ queue.draft \in Draft \cup {None}
           /\ editor \in Doc /\ unsynced \in Draft \cup {None}
           /\ edits \in 0..MaxEdits /\ NewId \in Nat
           /\ tab.save_seq \in Nat /\ tab.doc \in Doc
BY NewIdType DEF TypeOK, Queue, TabRow

LEMMA QueueStepIInv ==
    ASSUME IInv, NEW STATE next, Keeps(queue, next), Alive(next), QueueStep(next)
    PROVE  IInv' /\ Forward
<1>1. Keeps(queue, queue') /\ Alive(queue)'
  BY DEF QueueStep, Alive
<1>2. IInv' /\ queue'.seq = queue.seq
  BY <1>1, PartsTyped, KeptMoveKeepsIInv DEF QueueStep, IInv
<1> QED
  BY <1>2, PartsTyped DEF Forward, IInv

\* Timers, flushes, retries and hiding the page.
LEMMA CallbackIInv ==
    ASSUME IInv,
           \/ FlushNow \/ SyncTimer \/ DraftTimer \/ RetryTimer \/ RetryByHand \/ HidePage
    PROVE  IInv' /\ Forward
<1>1. /\ queue \in Queue /\ Alive(queue)
      /\ editor \in Doc /\ NewId \in Nat
  BY PartsTyped DEF IInv
<1>2. CASE FlushNow
  BY <1>1, <1>2, FlushKeeps, FlushAlive, QueueStepIInv DEF FlushNow
<1>3. CASE SyncTimer
  BY <1>1, <1>3, FlushKeeps, FlushAlive, QueueStepIInv DEF SyncTimer
<1>4. CASE DraftTimer
  <2>1. Keeps(queue, WriteDraftNow(queue, editor)) /\ Alive(WriteDraftNow(queue, editor))
    BY <1>1, WriteDraftNowKeeps, WriteDraftNowAlive
  <2> QED
    BY <1>4, <2>1, QueueStepIInv DEF DraftTimer
<1>5. CASE RetryTimer
  BY <1>1, <1>5, RetryNowKeeps, RetryNowAlive, QueueStepIInv DEF RetryTimer
<1>6. CASE RetryByHand
  BY <1>1, <1>6, RetryNowKeeps, RetryNowAlive, QueueStepIInv DEF RetryByHand
<1>7. CASE HidePage
  BY <1>1, <1>7, HideKeeps, HideAlive, QueueStepIInv DEF HidePage
<1> QED
  BY <1>2, <1>3, <1>4, <1>5, <1>6, <1>7

LEMMA EditIInv ==
    ASSUME IInv, Edit
    PROVE  IInv' /\ Forward
<1>1. queue \in Queue /\ queue.seq \in Nat /\ editor \in Doc /\ Alive(queue)
  BY PartsTyped DEF IInv
<1>2. editor' \in Doc
  BY <1>1 DEF Edit, Doc, Piece
<1>3. Keeps(queue, queue') /\ Alive(queue)'
  <2>1. queue' = Change(queue)
    BY DEF Edit
  <2>2. Alive(queue')
    BY <1>1, <2>1, ChangeAlive
  <2> QED
    BY <1>1, <2>1, <2>2, ChangeKeeps DEF Alive
<1>4. edits' \in 0..MaxEdits
  <2>1. edits \in 0..MaxEdits /\ edits < MaxEdits /\ edits' = edits + 1
    BY PartsTyped DEF Edit, IInv
  <2> QED
    BY <2>1, BoundsAreNaturals
<1>5. unsynced' \in Draft \cup {None} /\ poll' \in {poll, None}
  BY PartsTyped DEF Edit, IInv
<1>6. IInv' /\ queue'.seq = queue.seq
  BY <1>2, <1>3, <1>4, <1>5, KeptMoveKeepsIInv DEF Edit
<1> QED
  BY <1>1, <1>6 DEF Forward

LEMMA DiscardLocalDraftIInv ==
    ASSUME IInv, DiscardLocalDraft
    PROVE  IInv' /\ Forward
<1>1. queue \in Queue /\ queue.seq \in Nat /\ Alive(queue)
  BY PartsTyped DEF IInv
<1>2. queue' = [queue EXCEPT !.draft = None]
  BY DEF DiscardLocalDraft
<1>3. Keeps(queue, queue')
  BY <1>1, <1>2 DEF Queue, Keeps
<1>4. Alive(queue)'
  BY <1>1, <1>2 DEF Queue, Alive
<1>5. IInv' /\ queue'.seq = queue.seq
  BY <1>3, <1>4, PartsTyped, KeptMoveKeepsIInv DEF DiscardLocalDraft, IInv
<1> QED
  BY <1>1, <1>5 DEF Forward

LEMMA KeepLocalDraftIInv ==
    ASSUME IInv, KeepLocalDraft
    PROVE  IInv' /\ Forward
<1>1. /\ queue \in Queue /\ queue.seq \in Nat /\ Alive(queue) /\ NewId \in Nat
      /\ editor' \in Doc
      /\ queue' = KeepMine(queue, queue.seq, None, editor', NewId)
  BY PartsTyped DEF IInv, KeepLocalDraft, Draft
<1> DEFINE rebased == Rebase(queue, queue.seq, None)
<1>2. /\ Keeps(rebased, queue') /\ queue'.conflict = None /\ Alive(queue')
      /\ rebased.seq = queue.seq /\ rebased.base = queue.base
      /\ rebased.inFlight = queue.inFlight
  <2>1. None \in Doc \cup {None}
    OBVIOUS
  <2>2. /\ rebased.seq = queue.seq /\ rebased.base = queue.base
        /\ rebased.inFlight = queue.inFlight
    BY <1>1, <2>1, RebaseType
  <2>3. Alive(KeepMine(queue, queue.seq, None, editor', NewId))
    BY <1>1, <2>1, KeepMineAlive
  <2>4. /\ Keeps(rebased, KeepMine(queue, queue.seq, None, editor', NewId))
        /\ KeepMine(queue, queue.seq, None, editor', NewId).conflict = None
    BY <1>1, <2>1, KeepMineType
  <2> QED
    BY <1>1, <2>2, <2>3, <2>4
<1> HIDE DEF rebased
<1>3. /\ Keeps(queue, queue')
      /\ Alive(queue)'
  BY <1>2 DEF Keeps, Alive
<1>4. IInv' /\ queue'.seq = queue.seq
  BY <1>1, <1>3, PartsTyped, KeptMoveKeepsIInv DEF KeepLocalDraft, IInv
<1> QED
  BY <1>1, <1>4 DEF Forward

-----------------------------------------------------------------------------
\* Steps that take the queue to another version of the server's text.
LEMMA ReboundMoveKeepsIInv ==
    ASSUME IInv,
           page = "open",
           queue.inFlight = None,
           NEW seq, NEW doc, Version(seq, doc), queue.seq <= seq,
           queue' \in Queue,
           Alive(queue)',
           queue'.seq = seq,
           queue'.base = doc,
           queue'.conflict = None,
           editor' \in Doc,
           poll' \in {poll, None},
           UNCHANGED <<tab, unsynced, page, late, reply, edits, crashes, versions, skipped>>,
           Transmit,
           Record
    PROVE  IInv' /\ Forward
<1>1. seq \in Nat /\ seq <= tab.save_seq /\ queue.seq \in Nat
  BY PartsTyped DEF IInv, Sourced, Version
<1>2. unsynced' \in Draft \cup {None} /\ edits' \in 0..MaxEdits
  BY PartsTyped DEF IInv
<1>3. IInv'
  BY <1>1, <1>2, MoveKeepsIInv
<1> QED
  BY <1>1, <1>3 DEF Forward

\* Nothing is in flight while a conflict stands, and the conflict's document is
\* a version at least as new as the queue's.
LEMMA ConflictSourced ==
    ASSUME IInv, queue.conflict # None
    PROVE  /\ queue.inFlight = None
           /\ queue.conflict \in Conflict
           /\ queue.conflict.seq \in Nat /\ queue.conflict.doc \in Doc
           /\ Version(queue.conflict.seq, queue.conflict.doc)
           /\ queue.seq <= queue.conflict.seq
BY PartsTyped DEF IInv, Alive, Sourced, Conflict

\* "Keep mine" against a conflict, by hand or by the editor itself.
LEMMA KeepMineAgainstConflict ==
    ASSUME IInv, queue.conflict # None, editor' \in Doc,
           queue' = KeepMine(Updated(queue), queue.conflict.seq, queue.conflict.doc, editor', NewId)
    PROVE  /\ queue' \in Queue
           /\ Alive(queue)'
           /\ queue'.seq = queue.conflict.seq
           /\ queue'.base = queue.conflict.doc
           /\ queue'.conflict = None
<1>1. queue \in Queue /\ Alive(queue) /\ NewId \in Nat
  BY PartsTyped DEF IInv
<1> DEFINE updated == Updated(queue)
           seq == queue.conflict.seq
           doc == queue.conflict.doc
           rebased == Rebase(updated, seq, doc)
<1>2. updated \in Queue /\ Alive(updated)
  BY <1>1, UpdatedKeeps DEF Keeps
<1>3. /\ seq \in Nat /\ doc \in Doc /\ doc \in Doc \cup {None} /\ doc # None
      /\ queue' = KeepMine(updated, seq, doc, editor', NewId)
  BY ConflictSourced, DocIsNotNone
<1> HIDE DEF updated, seq, doc
<1>4. rebased.seq = seq /\ rebased.base = doc
  BY <1>2, <1>3, RebaseType
<1>5. Keeps(rebased, queue') /\ queue'.conflict = None
  BY <1>1, <1>2, <1>3, KeepMineType
<1>6. Alive(queue')
  BY <1>1, <1>2, <1>3, KeepMineAlive
<1>7. Alive(queue)'
  BY <1>6 DEF Alive
<1> HIDE DEF rebased
<1> QED
  BY <1>4, <1>5, <1>7 DEF Keeps, seq, doc

LEMMA KeepMineOnConflictIInv ==
    ASSUME IInv, KeepMineOnConflict
    PROVE  IInv' /\ Forward
<1>1. queue.conflict # None /\ page = "open"
  BY DEF KeepMineOnConflict
<1>2. PICK dropped \in SUBSET Feedback :
          editor' = MergedText(queue.base, queue.conflict.doc, dropped)
  BY DEF KeepMineOnConflict
<1>3. editor' \in Doc
  BY <1>1, <1>2, ConflictSourced, MergedTextType DEF IInv
<1>4. /\ queue' \in Queue /\ Alive(queue)'
      /\ queue'.seq = queue.conflict.seq
      /\ queue'.base = queue.conflict.doc
      /\ queue'.conflict = None
  BY <1>1, <1>3, KeepMineAgainstConflict DEF KeepMineOnConflict
<1> QED
  BY <1>1, <1>3, <1>4, ConflictSourced, ReboundMoveKeepsIInv DEF KeepMineOnConflict

LEMMA LoadLatestIInv ==
    ASSUME IInv, LoadLatest
    PROVE  IInv' /\ Forward
<1>1. /\ queue.conflict # None /\ page = "open"
      /\ editor' = queue.conflict.doc
      /\ queue' = AcceptServer(queue, queue.conflict.seq, queue.conflict.doc)
      /\ queue \in Queue
  BY PartsTyped DEF LoadLatest, IInv
<1>2. queue.conflict.seq \in Nat /\ queue.conflict.doc \in Doc /\ queue.conflict.doc \in Doc \cup {None}
  BY <1>1, ConflictSourced
<1> DEFINE rebased == Rebase(queue, queue.conflict.seq, queue.conflict.doc)
<1>3. rebased.seq = queue.conflict.seq /\ rebased.base = queue.conflict.doc
  BY <1>1, <1>2, RebaseType, DocIsNotNone, SMTT(60)
<1>4. Keeps(rebased, queue') /\ queue'.conflict = None /\ Alive(queue')
  BY <1>1, <1>2, AcceptServerType, AcceptServerAlive
<1> HIDE DEF rebased
<1>5. /\ queue' \in Queue /\ Alive(queue)'
      /\ queue'.seq = queue.conflict.seq
      /\ queue'.base = queue.conflict.doc
      /\ queue'.conflict = None
  BY <1>3, <1>4 DEF Keeps, Alive
<1> QED
  BY <1>1, <1>2, <1>5, ConflictSourced, ReboundMoveKeepsIInv DEF LoadLatest

LEMMA ConflictEffectIInv ==
    ASSUME IInv, ConflictEffect
    PROVE  IInv' /\ Forward
<1>1. /\ queue.conflict # None /\ page = "open"
      /\ queue \in Queue /\ queue.seq \in Nat /\ Alive(queue) /\ editor \in Doc
  BY PartsTyped DEF ConflictEffect, IInv
<1>2. CASE queue' = [queue EXCEPT !.conflict.fresh = FALSE] /\ UNCHANGED editor
  <2>1. LET shown == [queue.conflict EXCEPT !.fresh = FALSE]
        IN  /\ shown \in Conflict
            /\ shown.seq = queue.conflict.seq /\ shown.doc = queue.conflict.doc
    BY <1>1, ConflictSourced DEF Conflict
  <2>2. /\ queue' \in Queue
        /\ queue'.seq = queue.seq /\ queue'.base = queue.base
        /\ queue'.inFlight = queue.inFlight
        /\ queue'.conflict.seq = queue.conflict.seq
        /\ queue'.conflict.doc = queue.conflict.doc
    BY <1>1, <1>2, <2>1 DEF Queue
  <2>3. Alive(queue)'
    BY <1>1, <1>2 DEF Queue, Alive
  <2>4. queue'.seq <= tab.save_seq
    BY <2>2 DEF IInv, Sourced
  <2>5. IInv'
    BY <1>1, <1>2, <2>2, <2>3, <2>4, PartsTyped, MoveKeepsIInv DEF ConflictEffect, IInv
  <2> QED
    BY <1>1, <2>2, <2>5 DEF Forward
<1>3. CASE /\ \E dropped \in SUBSET Feedback :
                  editor' = MergeBlocks(queue.base, editor, queue.conflict.doc, dropped)
           /\ queue' = KeepMine(Updated(queue), queue.conflict.seq, queue.conflict.doc, editor', NewId)
  <2>1. editor' \in Doc
    BY <1>1, <1>3, ConflictSourced, MergeBlocksType
  <2>2. /\ queue' \in Queue /\ Alive(queue)'
        /\ queue'.seq = queue.conflict.seq
        /\ queue'.base = queue.conflict.doc
        /\ queue'.conflict = None
    BY <1>1, <1>3, <2>1, KeepMineAgainstConflict
  <2> QED
    BY <1>1, <2>1, <2>2, ConflictSourced, ReboundMoveKeepsIInv DEF ConflictEffect
<1> QED
  BY <1>2, <1>3 DEF ConflictEffect

-----------------------------------------------------------------------------
\* Polls.
LEMMA PollChangesIInv ==
    ASSUME IInv, PollChanges
    PROVE  IInv' /\ Forward
<1> USE DEF IInv
<1>1. /\ poll' = [seq |-> tab.save_seq, doc |-> tab.doc]
      /\ UNCHANGED <<tab, queue, editor, unsynced, page, sent, late, reply, edits,
                     crashes, versions, seen, skipped>>
  BY DEF PollChanges
<1>2. poll' \in Poll
  BY <1>1, PartsTyped DEF Poll
<1>3. TypeOK'
  BY <1>1, <1>2 DEF TypeOK
<1>4. Wire' /\ Alive(queue)'
  BY <1>1 DEF Wire, Alive
<1>5. Version(poll.seq, poll.doc)'
  BY <1>1 DEF Sourced, Version
<1>6. Sourced'
  BY <1>1, <1>5 DEF Sourced, Version
<1> QED
  BY <1>1, <1>3, <1>4, <1>6, PartsTyped DEF Forward

LEMMA AbsorbRemoteIInv ==
    ASSUME IInv, AbsorbRemote
    PROVE  IInv' /\ Forward
<1>1. /\ page = "open" /\ poll # None /\ poll \in Poll /\ poll' = None
      /\ queue \in Queue /\ queue.seq \in Nat /\ editor \in Doc /\ Alive(queue)
      /\ Version(poll.seq, poll.doc)
  BY PartsTyped DEF AbsorbRemote, IInv, TypeOK, Sourced
<1>2. CASE ~Absorbable
  <2>1. queue' = queue /\ editor' = editor
    BY <1>2 DEF AbsorbRemote
  <2>2. Keeps(queue, queue') /\ Alive(queue)'
    BY <1>1, <2>1 DEF Keeps, Alive
  <2>3. IInv' /\ queue'.seq = queue.seq
    BY <1>1, <2>1, <2>2, PartsTyped, KeptMoveKeepsIInv DEF AbsorbRemote, IInv
  <2> QED
    BY <1>1, <2>3 DEF Forward
<1>3. CASE Absorbable
  <2> DEFINE updated == Updated(queue)
             seq == poll.seq
             doc == poll.doc
             rebased == Rebase(updated, seq, doc)
  <2>1. /\ queue.inFlight = None /\ queue.conflict = None
        /\ seq \in Nat /\ doc \in Doc /\ doc \in Doc \cup {None} /\ doc # None
        /\ queue.seq <= seq
    BY <1>1, <1>3, DocIsNotNone DEF Absorbable, Poll
  <2>2. /\ updated \in Queue /\ Alive(updated)
        /\ updated.inFlight = None /\ updated.conflict = None
    BY <1>1, <2>1, UpdatedKeeps DEF Keeps
  <2>3. queue' = Adopt(updated, seq, doc)
    BY <1>3 DEF AbsorbRemote
  <2>4. editor' \in Doc
    <3>1. PICK dropped \in SUBSET Feedback : editor' = MergedText(queue.base, poll.doc, dropped)
      BY <1>3 DEF AbsorbRemote
    <3> QED
      BY <2>1, <3>1, MergedTextType DEF IInv
  <2> HIDE DEF updated, seq, doc
  <2>5. queue' = rebased
    BY <2>1, <2>2, <2>3, AdoptType
  <2>6. /\ rebased \in Queue /\ rebased.seq = seq /\ rebased.base = doc
        /\ rebased.conflict = None /\ Alive(rebased)
    BY <2>1, <2>2, RebaseType, RebaseAlive
  <2> HIDE DEF rebased
  <2>7. Alive(queue)'
    BY <2>5, <2>6 DEF Alive
  <2>8. Version(seq, doc)
    BY <1>1 DEF seq, doc
  <2> QED
    BY <1>1, <2>1, <2>4, <2>5, <2>6, <2>7, <2>8, ReboundMoveKeepsIInv DEF AbsorbRemote
<1> QED
  BY <1>2, <1>3

-----------------------------------------------------------------------------
\* A request ends without an answer: lost, or refused outright.
LEMMA EndedKeepsIInv ==
    ASSUME IInv,
           page = "open",
           sent # None \/ reply # None,
           queue' \in {Unreachable(queue, editor), Unauthorized(queue, editor), Rejected(queue, editor)},
           sent' = None,
           reply' = None,
           late' \in Payload \cup {None},
           UNCHANGED <<tab, editor, unsynced, page, poll, edits, crashes, versions, skipped>>,
           Record
    PROVE  IInv' /\ Forward
<1> USE DEF IInv
<1>1. /\ queue \in Queue /\ editor \in Doc /\ queue.inFlight # None
      /\ queue.pendingRetry = None /\ queue.conflict = None /\ ~queue.expired
      /\ queue.seq \in Nat
  BY PartsTyped DEF Wire, Alive
<1>2. /\ queue' \in Queue
      /\ queue'.seq = queue.seq /\ queue'.base = queue.base
      /\ queue'.inFlight = None /\ queue'.conflict = None
  BY <1>1, UnreachableType, UnauthorizedType, RejectedType, SMTT(60)
<1>3. Alive(queue')
  BY <1>1, RefusalsAlive
<1>4. Alive(queue)'
  BY <1>3 DEF Alive
<1>5. TypeOK'
  BY <1>2 DEF TypeOK, Record
<1>6. Wire'
  BY <1>2 DEF Wire
<1>7. Sourced'
  BY <1>2 DEF Sourced, Version
<1> QED
  BY <1>1, <1>2, <1>4, <1>5, <1>6, <1>7 DEF Forward

LEMMA RequestEndsIInv ==
    ASSUME IInv, LoseRequest \/ RefuseRequest
    PROVE  IInv' /\ Forward
<1>1. CASE LoseRequest
  <2>1. late' \in Payload \cup {None}
    BY <1>1 DEF LoseRequest, Abandon, IInv, TypeOK
  <2> QED
    BY <1>1, <2>1, EndedKeepsIInv DEF LoseRequest
<1>2. CASE RefuseRequest
  <2>1. reply' = None /\ late' \in Payload \cup {None}
    BY <1>2 DEF RefuseRequest, IInv, TypeOK, Wire
  <2> QED
    BY <1>2, <2>1, EndedKeepsIInv DEF RefuseRequest
<1> QED
  BY <1>1, <1>2

-----------------------------------------------------------------------------
\* The page dies, and opens again.
LEMMA CrashIInv ==
    ASSUME IInv, Crash
    PROVE  IInv' /\ Forward
<1> USE DEF IInv
<1>1. /\ queue' = NewQueue(0, None, queue.draft) /\ page' = "gone"
      /\ editor' = EmptyDoc /\ unsynced' = None
      /\ sent' = None /\ reply' = None /\ poll' = None
      /\ UNCHANGED <<tab, edits, versions, seen, skipped>>
  BY DEF Crash, historyVars
<1>2. crashes' \in 0..MaxCrashes
  BY BoundsAreNaturals DEF Crash, TypeOK
<1>3. late' \in Payload \cup {None}
  BY DEF Crash, Abandon, TypeOK
<1>4. TypeOK'
  <2>1. queue' \in Queue
    BY <1>1, PartsTyped, NewQueueType
  <2> QED
    BY <1>1, <1>2, <1>3, <2>1, EmptyDocType DEF TypeOK
<1>5. Wire' /\ Alive(queue)'
  BY <1>1 DEF Wire, Alive, NewQueue
<1>6. Sourced'
  BY <1>1, PartsTyped DEF Sourced, Version, NewQueue
<1>7. Forward
  BY <1>1 DEF Forward
<1> QED
  BY <1>4, <1>5, <1>6, <1>7

LEMMA OpenIInv ==
    ASSUME IInv, Open
    PROVE  IInv' /\ Forward
<1> USE DEF IInv
<1> DEFINE draft == queue.draft
           decision == Reconcile(draft)
           kept == IF decision = "discard" THEN None ELSE draft
           opened == NewQueue(tab.save_seq, tab.doc, kept)
<1>1. /\ page = "gone" /\ page' = "open"
      /\ editor' = IF decision = "push" THEN draft.doc ELSE tab.doc
      /\ unsynced' = IF decision = "ask" THEN draft ELSE None
      /\ queue' = IF decision = "push"
                  THEN Flush(Change(opened), draft.doc, NewId, "load") ELSE opened
      /\ seen' = seen \cup (Foreign \cap PiecesOf(editor'))
      /\ UNCHANGED <<tab, late, reply, poll, edits, crashes, versions, skipped>>
      /\ Transmit
  BY DEF Open
<1>2. /\ draft \in Draft \cup {None} /\ tab.save_seq \in Nat /\ tab.doc \in Doc
      /\ queue.inFlight = None /\ NewId \in Nat
  BY <1>1, PartsTyped DEF Wire
<1>3. /\ decision = "push" => draft.doc \in Doc
      /\ decision = "ask" => draft \in Draft
  BY <1>2 DEF Reconcile, Draft
<1>4. /\ opened \in Queue /\ Alive(opened)
      /\ opened.seq = tab.save_seq /\ opened.base = tab.doc /\ opened.conflict = None
  <2>1. kept \in Draft \cup {None} /\ tab.doc \in Doc \cup {None}
    BY <1>2
  <2> HIDE DEF kept
  <2>2. opened \in Queue
    BY <1>2, <2>1, NewQueueType
  <2> QED
    BY <2>2 DEF NewQueue, Alive
<1>5. /\ Keeps(opened, queue') /\ Alive(queue')
  <2> HIDE DEF opened, decision, draft
  <2>1. CASE decision = "push"
    <3>1. Keeps(opened, Change(opened)) /\ Change(opened) \in Queue /\ Alive(Change(opened))
      BY <1>4, ChangeKeeps, ChangeAlive DEF Keeps
    <3> DEFINE changed == Change(opened)
    <3>2. queue' = Flush(changed, draft.doc, NewId, "load")
      BY <1>1, <2>1
    <3> HIDE DEF changed
    <3>3. Keeps(changed, queue') /\ Alive(queue')
      BY <1>2, <1>3, <2>1, <3>1, <3>2, FlushKeeps, FlushAlive DEF changed
    <3> QED
      BY <3>1, <3>3, KeepsTransitive DEF changed
  <2>2. CASE decision # "push"
    BY <1>1, <1>4, <2>2 DEF Keeps
  <2> QED
    BY <2>1, <2>2
<1> HIDE DEF opened, decision, draft, kept
<1>6. /\ queue' \in Queue /\ Alive(queue)'
      /\ queue'.seq = tab.save_seq /\ queue'.base = tab.doc /\ queue'.conflict = None
  BY <1>4, <1>5 DEF Keeps, Alive
<1>7. sent = None /\ reply = None /\ sent' = queue'.inFlight
  BY <1>1, <1>2 DEF Transmit, Wire
<1>8. TypeOK'
  <2>1. editor' \in Doc /\ unsynced' \in Draft \cup {None}
    BY <1>1, <1>2, <1>3
  <2>2. seen' \subseteq Foreign /\ sent' \in Payload \cup {None}
    BY <1>1, <1>6, <1>7 DEF TypeOK, Queue
  <2> QED
    BY <1>1, <1>6, <2>1, <2>2 DEF TypeOK
<1>9. Wire'
  BY <1>1, <1>7 DEF Wire
<1>10. Sourced'
  BY <1>1, <1>2, <1>6, <1>7 DEF Sourced, Version
<1>11. Forward
  BY <1>1 DEF Forward
<1> QED
  BY <1>6, <1>8, <1>9, <1>10, <1>11

-----------------------------------------------------------------------------
\* An answer arrives.
LEMMA AnswerAwaited ==
    ASSUME IInv, reply # None
    PROVE  /\ queue \in Queue /\ queue.seq \in Nat /\ queue.inFlight \in Payload
           /\ queue.inFlight # None /\ queue.inFlight.to \in Doc
           /\ queue.pendingRetry = None /\ queue.conflict = None /\ ~queue.expired
           /\ reply \in Answer /\ reply.seq \in Nat /\ reply.doc \in Doc \cup {None}
           /\ queue.seq <= reply.seq /\ reply.seq <= tab.save_seq
<1>1. reply \in Answer /\ queue \in Queue /\ queue.inFlight # None
  BY DEF IInv, TypeOK, Wire
<1>2. queue.inFlight \in Payload /\ reply.seq \in DOMAIN versions /\ queue.seq <= reply.seq
  BY <1>1 DEF Queue, IInv, Sourced
<1>3. queue.pendingRetry = None /\ queue.conflict = None /\ ~queue.expired
  BY <1>1 DEF IInv, Alive
<1> QED
  BY <1>1, <1>2, <1>3, PartsTyped DEF Answer, Payload, IInv, Sourced

\* The text a save leaves as its base is the one the server stored, unless a
\* replay hid another version.
LEMMA AckedBaseSourced ==
    ASSUME IInv, reply # None, reply.kind \in {"saved", "merged", "replay"}
    PROVE  LET payload == queue.inFlight
               base == AckedBase(payload, reply)
           IN  /\ base \in Doc \cup {None}
               /\ base # None => \/ Version(reply.seq, base)
                                 \/ reply.kind = "replay" /\ versions[reply.seq] # payload.to
<1> DEFINE payload == queue.inFlight
           base == AckedBase(payload, reply)
<1>1. /\ payload.to \in Doc /\ reply.doc \in Doc \cup {None}
      /\ reply.seq \in DOMAIN versions
      /\ reply.doc # None => Version(reply.seq, reply.doc)
  BY AnswerAwaited DEF IInv, Sourced
<1>2. base \in Doc \cup {None}
  BY <1>1 DEF AckedBase
<1>3. CASE reply.kind = "replay"
  BY <1>1, <1>3 DEF AckedBase, Version
<1>4. CASE reply.kind # "replay"
  BY <1>1, <1>4, DocIsNotNone DEF AckedBase, Version
<1> QED
  BY <1>2, <1>3, <1>4

\* What every answer does to the network.
LEMMA AnsweredKeepsIInv ==
    ASSUME IInv,
           ReceiveReply,
           queue' \in Queue,
           Alive(queue)',
           editor' \in Doc,
           skipped' \in BOOLEAN,
           queue.seq <= queue'.seq,
           queue'.seq <= tab.save_seq,
           ~skipped' /\ queue'.base # None => Version(queue'.seq, queue'.base),
           queue'.conflict # None =>
               /\ Version(queue'.conflict.seq, queue'.conflict.doc)
               /\ queue'.seq <= queue'.conflict.seq
    PROVE  IInv' /\ Forward
<1> USE DEF IInv
<1>1. /\ page = "open" /\ reply' = None /\ sent' = queue'.inFlight
      /\ UNCHANGED <<tab, unsynced, page, late, poll, edits, crashes, versions>>
      /\ Record
  BY DEF ReceiveReply
<1>2. TypeOK'
  BY <1>1 DEF TypeOK, Record, Queue
<1>3. Wire'
  BY <1>1 DEF Wire
<1>4. Sourced'
  BY <1>1 DEF Sourced, Version
<1>5. Forward
  BY <1>1, PartsTyped DEF Forward, Queue
<1> QED
  BY <1>2, <1>3, <1>4, <1>5

LEMMA TakeSavedIInv ==
    ASSUME IInv, ReceiveReply, TakeSaved
    PROVE  IInv' /\ Forward
<1> DEFINE payload == queue.inFlight
           base == AckedBase(payload, reply)
           landed == Landed(queue, reply.seq, base)
           updated == Updated(landed)
<1>1. /\ reply # None /\ reply.kind \in {"saved", "merged", "replay"}
      /\ queue' = SettleClean(updated, editor', NewId)
      /\ skipped' = (skipped \/ (reply.kind = "replay" /\ versions[reply.seq] # payload.to))
      /\ NewId \in Nat /\ editor \in Doc
  BY PartsTyped DEF ReceiveReply, TakeSaved, IInv
<1>2. editor' \in Doc
  <2>1. PICK dropped \in SUBSET Feedback :
            editor' = IF reply.kind = "merged"
                      THEN MergedText(payload.to, reply.doc, dropped) ELSE editor
    BY DEF TakeSaved
  <2>2. reply.kind = "merged" => reply.doc \in Doc
    BY <1>1, AnswerAwaited DEF IInv, Wire
  <2> QED
    BY <1>1, <2>1, <2>2, MergedTextType DEF IInv
<1>3. /\ base \in Doc \cup {None}
      /\ base # None => \/ Version(reply.seq, base)
                        \/ reply.kind = "replay" /\ versions[reply.seq] # payload.to
  BY <1>1, AckedBaseSourced
<1>4. /\ queue \in Queue /\ reply.seq \in Nat
      /\ queue.pendingRetry = None /\ queue.conflict = None /\ ~queue.expired
      /\ queue.seq <= reply.seq /\ reply.seq <= tab.save_seq
  BY <1>1, AnswerAwaited
<1> HIDE DEF base
<1>5. /\ landed \in Queue /\ Free(landed)
      /\ landed.seq = reply.seq /\ landed.base = base /\ landed.conflict = None
  BY <1>3, <1>4, LandedType DEF Free
<1> HIDE DEF landed
<1>6. Keeps(landed, updated) /\ updated \in Queue /\ Free(updated)
  BY <1>5, UpdatedKeeps DEF Keeps
<1> HIDE DEF updated
<1>7. Keeps(updated, queue') /\ Alive(queue')
  BY <1>1, <1>2, <1>6, SettleCleanKeeps, SettleCleanAlive
<1>8. Keeps(landed, queue')
  BY <1>6, <1>7, KeepsTransitive
<1>9. /\ queue' \in Queue /\ Alive(queue)'
      /\ queue'.seq = reply.seq /\ queue'.base = base /\ queue'.conflict = None
  BY <1>5, <1>7, <1>8 DEF Keeps, Alive
<1>10. skipped' \in BOOLEAN
  BY <1>1
<1>11. ~skipped' /\ queue'.base # None => Version(queue'.seq, queue'.base)
  BY <1>1, <1>3, <1>9
<1> QED
  BY <1>2, <1>4, <1>9, <1>10, <1>11, AnsweredKeepsIInv

LEMMA TakeRefusedIInv ==
    ASSUME IInv, ReceiveReply, TakeRefused
    PROVE  IInv' /\ Forward
<1>1. /\ reply # None /\ reply.kind \in {"resync", "conflict", "block_conflict"}
      /\ queue' = IF reply.kind = "resync" THEN Resync(queue) ELSE Conflicted(queue, reply, editor)
      /\ editor' = editor /\ skipped' = skipped /\ editor \in Doc /\ skipped \in BOOLEAN
      /\ Alive(queue)
  BY DEF ReceiveReply, TakeRefused, IInv, TypeOK
<1>2. /\ queue \in Queue /\ queue.inFlight # None /\ queue.seq \in Nat
      /\ queue.pendingRetry = None /\ queue.conflict = None /\ ~queue.expired
      /\ reply.seq \in Nat /\ reply.doc \in Doc
      /\ queue.seq <= reply.seq /\ reply.seq <= tab.save_seq
      /\ Version(reply.seq, reply.doc)
  BY <1>1, AnswerAwaited DEF IInv, Wire, Sourced
<1>3. queue.seq <= tab.save_seq /\ (~skipped /\ queue.base # None => Version(queue.seq, queue.base))
  BY DEF IInv, Sourced
<1>4. CASE reply.kind = "resync"
  <2>1. queue' = Resync(queue)
    BY <1>1, <1>4
  <2>2. /\ queue' \in Queue /\ Alive(queue')
        /\ queue'.seq = queue.seq /\ queue'.base = None /\ queue'.conflict = None
    BY <1>1, <1>2, <2>1, ResyncType, ResyncAlive
  <2>3. Alive(queue)'
    BY <2>2 DEF Alive
  <2> QED
    BY <1>1, <1>2, <1>3, <2>2, <2>3, AnsweredKeepsIInv
<1>5. CASE reply.kind # "resync"
  <2>1. queue' = Conflicted(queue, reply, editor) /\ reply.kind \in {"conflict", "block_conflict"}
    BY <1>1, <1>5
  <2>2. /\ queue' \in Queue /\ Alive(queue')
        /\ queue'.seq = queue.seq /\ queue'.base = queue.base
        /\ queue'.conflict.seq = reply.seq /\ queue'.conflict.doc = reply.doc
    BY <1>1, <1>2, <2>1, ConflictedType, RefusalsAlive
  <2>3. Alive(queue)'
    BY <2>2 DEF Alive
  <2> QED
    BY <1>1, <1>2, <1>3, <2>2, <2>3, AnsweredKeepsIInv
<1> QED
  BY <1>4, <1>5

LEMMA ReceiveReplyIInv ==
    ASSUME IInv, ReceiveReply
    PROVE  IInv' /\ Forward
BY TakeSavedIInv, TakeRefusedIInv DEF ReceiveReply

-----------------------------------------------------------------------------
LEMMA InitIInv == Init => IInv
<1> SUFFICES ASSUME Init PROVE IInv
  OBVIOUS
<1>1. queue = NewQueue(1, EmptyDoc, None) /\ queue \in Queue
  BY EmptyDocType, NewQueueType DEF Init
<1>2. versions = <<EmptyDoc>> /\ versions \in Seq(Doc) /\ tab \in TabRow
  BY EmptyDocType DEF Init, TabRow
<1>3. TypeOK
  <2>1. editor \in Doc /\ page \in {"open", "gone"} /\ seen \subseteq Foreign /\ skipped \in BOOLEAN
    BY EmptyDocType DEF Init
  <2>2. edits \in 0..MaxEdits /\ crashes \in 0..MaxCrashes
    BY BoundsAreNaturals DEF Init
  <2>3. unsynced = None /\ sent = None /\ late = None /\ reply = None /\ poll = None
    BY DEF Init
  <2> QED
    BY <1>1, <1>2, <2>1, <2>2, <2>3 DEF TypeOK
<1>4. Wire /\ Alive(queue)
  BY <1>1 DEF Init, Wire, Alive, NewQueue
<1>5. Sourced
  BY <1>1, <1>2 DEF Init, Sourced, Version, NewQueue
<1> QED
  BY <1>3, <1>4, <1>5 DEF IInv

\* Every step keeps the invariant, and never takes an open page to an older version.
LEMMA StepIInv == IInv /\ [Next]_vars => IInv' /\ Forward
<1> SUFFICES ASSUME IInv, [Next]_vars PROVE IInv' /\ Forward
  OBVIOUS
<1>1. queue.seq \in Nat
  BY PartsTyped DEF IInv
<1>2. CASE ServerStep
  <2>1. queue' = queue
    BY <1>2 DEF ServerStep, AutosaveSent, AutosaveLate, CounselorMarks, OtherDeviceSaves,
                OtherDeviceRestores
  <2> QED
    BY <1>1, <1>2, <2>1, ServerStepIInv DEF Forward
<1>3. CASE ClientStep
  BY <1>3, CallbackIInv, EditIInv, ReceiveReplyIInv, RequestEndsIInv, ConflictEffectIInv,
     KeepMineOnConflictIInv, LoadLatestIInv, PollChangesIInv, AbsorbRemoteIInv, CrashIInv,
     OpenIInv, KeepLocalDraftIInv, DiscardLocalDraftIInv DEF ClientStep
<1>4. CASE UNCHANGED vars
  <2>1. IInv'
    BY <1>4 DEF vars, IInv, TypeOK, Wire, Alive, Sourced, Version
  <2> QED
    BY <1>1, <1>4, <2>1 DEF vars, Forward
<1> QED
  BY <1>2, <1>3, <1>4 DEF Next

THEOREM Invariance == Spec => []IInv
BY InitIInv, StepIInv, PTL DEF Spec

\* Every variable keeps its type, for any number of blocks, pieces and steps.
THEOREM TypeCorrect == Spec => []TypeOK
<1>1. IInv => TypeOK
  BY DEF IInv
<1> QED
  BY <1>1, Invariance, PTL

\* Unsent text always has a timer, a request or a badge that explains why not,
\* and what the queue waits for is on the network (change, flush, failed and
\* settleClean of saveQueue.js).
THEOREM NothingIsStranded == Spec => []NeverStranded
<1>1. IInv => NeverStranded
  BY DEF IInv, Alive, Wire, NeverStranded
<1> QED
  BY <1>1, Invariance, PTL

\* The base of the next delta is the document the server stored under the
\* queue's base_seq, as long as no replay answer hid another version.
THEOREM BaseIsSourced == Spec => []BaseIsServerVersionUnlessSkipped
<1>1. IInv => BaseIsServerVersionUnlessSkipped
  BY DEF IInv, Sourced, Version, BaseIsServerVersionUnlessSkipped, BaseIsServerVersion
<1> QED
  BY <1>1, Invariance, PTL

\* An open editor never goes back to an older version, in whatever order the
\* answers to saves and polls arrive.
THEOREM EditorNeverGoesBack == Spec => NeverGoesBack
<1>1. IInv /\ [Next]_vars => [page = "open" /\ page' = "open" => queue'.seq >= queue.seq]_vars
  BY StepIInv DEF Forward
<1> QED
  BY <1>1, Invariance, PTL DEF Spec, NeverGoesBack
=============================================================================
