---------------------------- MODULE EssayAutosave ----------------------------
(***************************************************************************)
(* One tab of an essay being written: the student's editor and its save    *)
(* queue, the network, the server's row for the tab, a counselor leaving   *)
(* feedback and the same student writing on another device.                *)
(*                                                                         *)
(* Every server action is one transaction: each writer of a tab takes the  *)
(* essay row lock and then the tab row lock before it reads the tab.       *)
(* Every client action is one JavaScript callback.                         *)
(***************************************************************************)
EXTENDS SaveQueue, Sequences

CONSTANTS
    MaxEdits,   \* bound: changes the student makes in the editor
    MaxCrashes, \* bound: deaths of the page
    MaxLate,    \* bound: save_seq up to which an abandoned request may survive
    MaxRestore, \* bound: save_seq up to which a checkpoint may be restored
    Rewrites    \* whether validation may rewrite a saved document: a subset of BOOLEAN

ASSUME BoundsAreNaturals ==
    /\ MaxEdits \in Nat /\ MaxCrashes \in Nat /\ MaxLate \in Nat /\ MaxRestore \in Nat
    /\ Rewrites \subseteq BOOLEAN

VARIABLES
    tab,        \* the EssayTab row: doc, save_seq, last_client_save_id
    queue,      \* the tab's save queue, with the draft on this device
    editor,     \* the text in the open editor
    unsynced,   \* session.state.unsynced: the draft the student must choose about
    page,       \* "open", or "gone" after a crash, a kill or a closed browser tab
    sent,       \* the queue's request, until the server has answered it
    late,       \* an abandoned request the server may still process
    reply,      \* the server's answer to the queue's request, on its way
    poll,       \* the answer of a changes poll, on its way
    edits,      \* changes made so far, up to MaxEdits
    crashes,    \* deaths of the page so far, up to MaxCrashes
    versions,   \* history: versions[n] is the text stored as save_seq n
    seen,       \* history: foreign pieces this client has shown, asked about or merged in
    skipped     \* history: a replay answer named a version the client never got

serverVars == <<tab, versions>>
networkVars == <<sent, late, reply, poll>>
historyVars == <<versions, seen, skipped>>
vars == <<tab, queue, editor, unsynced, page, sent, late, reply, poll, edits, crashes,
          versions, seen, skipped>>

TabRow == [doc : Doc, save_seq : Nat, last_client_save_id : Nat]

Answer ==
    [kind : {"saved", "merged", "replay", "resync", "conflict", "block_conflict"},
     seq : Nat, doc : Doc \cup {None}]

ASSUME NoneIsNoAnswer == None \notin Answer

Poll == [seq : Nat, doc : Doc]

TypeOK ==
    /\ tab \in TabRow
    /\ queue \in Queue
    /\ editor \in Doc
    /\ unsynced \in Draft \cup {None}
    /\ page \in {"open", "gone"}
    /\ sent \in Payload \cup {None}
    /\ late \in Payload \cup {None}
    /\ reply \in Answer \cup {None}
    /\ poll \in Poll \cup {None}
    /\ edits \in 0..MaxEdits
    /\ crashes \in 0..MaxCrashes
    /\ versions \in Seq(Doc)
    /\ seen \subseteq Foreign
    /\ skipped \in BOOLEAN

\* The tab was saved once and has just been opened.
Init ==
    /\ tab = [doc |-> EmptyDoc, save_seq |-> 1, last_client_save_id |-> 0]
    /\ queue = NewQueue(1, EmptyDoc, None)
    /\ editor = EmptyDoc
    /\ unsynced = None
    /\ page = "open"
    /\ sent = None /\ late = None /\ reply = None /\ poll = None
    /\ edits = 0 /\ crashes = 0
    /\ versions = <<EmptyDoc>>
    /\ seen = {}
    /\ skipped = FALSE

-----------------------------------------------------------------------------
(***************************************************************************)
(* The server: autosave.                                                   *)
(***************************************************************************)
Replayed(payload) == payload.id = tab.last_client_save_id

\* Only an id-addressed delta from an older version can be merged.
Merging(payload) == payload.kind = "ops" /\ payload.base_seq < tab.save_seq

Stale(payload) == payload.base_seq # tab.save_seq /\ ~Merging(payload)

\* Mutant of Conflicting: the block's hash is not compared.
ConflictingUnchecked(payload) == FALSE

Conflicting(payload) ==
    payload.kind = "ops" /\ OpConflicts(tab.doc, payload.from, payload.to) # {}

Outcome(payload) ==
    IF payload.kind = "ops" THEN ApplyOps(tab.doc, payload.from, payload.to) ELSE payload.to

\* The result of a delta made on the current version must be the client's document.
Mismatched(payload) ==
    ~Merging(payload) /\ (Conflicting(payload) \/ Outcome(payload) # payload.to)

Unchanged(payload) == payload.kind = "ops" /\ Outcome(payload) = tab.doc

Accepted(payload) ==
    /\ ~Replayed(payload)
    /\ ~Stale(payload)
    /\ ~Conflicting(payload)
    /\ ~Mismatched(payload)
    /\ ~Unchanged(payload)

\* What the hash in the answer to a save tells the client about the stored
\* text: None when validation rewrote it, so that the hashes differ.
HashOf(payload, rewritten) == IF rewritten THEN None ELSE Outcome(payload)

AutosaveAnswer(payload, rewritten) ==
    LET row == [kind |-> "replay", seq |-> tab.save_seq, doc |-> None]
    IN  IF Replayed(payload) THEN row
        ELSE IF Stale(payload) THEN [row EXCEPT !.kind = "conflict", !.doc = tab.doc]
        ELSE IF Mismatched(payload) THEN [row EXCEPT !.kind = "resync", !.doc = tab.doc]
        ELSE IF Conflicting(payload) THEN [row EXCEPT !.kind = "block_conflict", !.doc = tab.doc]
        ELSE IF Merging(payload)
             THEN [kind |-> "merged", doc |-> Outcome(payload),
                   seq |-> IF Unchanged(payload) THEN tab.save_seq ELSE tab.save_seq + 1]
        ELSE IF Unchanged(payload) THEN [row EXCEPT !.kind = "saved", !.doc = tab.doc]
        ELSE [kind |-> "saved", seq |-> tab.save_seq + 1, doc |-> HashOf(payload, rewritten)]

\* Every write of the tab's text: a new save_seq, and with it a new version.
Store(doc, saveId) ==
    /\ tab' = [doc |-> doc, save_seq |-> tab.save_seq + 1, last_client_save_id |-> saveId]
    /\ versions' = Append(versions, doc)

Autosave(payload) ==
    IF Accepted(payload) THEN Store(Outcome(payload), payload.id) ELSE UNCHANGED serverVars

\* The queue's request reaches the server, which answers it.
AutosaveSent ==
    /\ sent # None
    /\ Autosave(sent)
    /\ \E rewritten \in Rewrites : reply' = AutosaveAnswer(sent, rewritten)
    /\ sent' = None
    /\ UNCHANGED <<queue, editor, unsynced, page, late, poll, edits, crashes, seen, skipped>>

\* A request its client gave up on is processed all the same; nobody hears the answer.
AutosaveLate ==
    /\ late # None
    /\ Autosave(late)
    /\ late' = None
    /\ UNCHANGED <<queue, editor, unsynced, page, sent, reply, poll, edits, crashes, seen, skipped>>

(***************************************************************************)
(* The server: everyone else who writes the tab.                           *)
(***************************************************************************)
UsedPieces == UNION {PiecesOf(versions[n]) : n \in DOMAIN versions}

\* A counselor's comment or suggestion: write_doc bumps save_seq and leaves
\* last_client_save_id alone.
CounselorMarks ==
    /\ \E b \in Blocks, mark \in Feedback \ UsedPieces :
          Store([tab.doc EXCEPT ![b] = @ \cup {mark}], tab.last_client_save_id)
    /\ UNCHANGED <<queue, editor, unsynced, page, networkVars, edits, crashes, seen, skipped>>

\* Another device saves: its own client_save_id (0 here) replaces the last one.
OtherDeviceSaves ==
    /\ \E b \in Blocks, text \in Elsewhere \ UsedPieces :
          Store([tab.doc EXCEPT ![b] = @ \cup {text}], 0)
    /\ UNCHANGED <<queue, editor, unsynced, page, networkVars, edits, crashes, seen, skipped>>

\* Another device restores a checkpoint; last_client_save_id stays.
OtherDeviceRestores ==
    /\ tab.save_seq <= MaxRestore
    /\ \E n \in DOMAIN versions :
          /\ versions[n] # tab.doc
          /\ Store(versions[n], tab.last_client_save_id)
    /\ UNCHANGED <<queue, editor, unsynced, page, networkVars, edits, crashes, seen, skipped>>

-----------------------------------------------------------------------------
(***************************************************************************)
(* The client.                                                             *)
(***************************************************************************)
\* makeId(): an id that neither the server's row nor an abandoned request holds
\* (the queue holds no request when it makes one, and 0 is another device's).
NewId ==
    CHOOSE id \in 1..3 : id # tab.last_client_save_id /\ (late # None => id # late.id)

\* A step that finds no request on its way sends the one it leaves in flight.
Transmit == sent' = IF queue.inFlight = None THEN queue'.inFlight ELSE sent

\* The documents that this step shows the student, asks the student about, or
\* merges into the editor.
Record ==
    LET merged == {queue'.base} \ {queue.base, None}
        asked == {conflict.doc : conflict \in {queue'.conflict} \ {None}}
    IN  seen' = seen \cup (Foreign \cap UNION {PiecesOf(doc) : doc \in {editor'} \cup merged \cup asked})

\* A callback that leaves the text and the network's answers alone.
QueueStep(next) ==
    /\ page = "open"
    /\ queue' = next
    /\ UNCHANGED <<tab, editor, unsynced, page, late, reply, poll, edits, crashes, versions, skipped>>
    /\ Transmit
    /\ Record

\* onUpdate: the student changed the text.
Edit ==
    /\ page = "open"
    /\ unsynced = None
    /\ edits < MaxEdits
    /\ \E b \in Blocks, t \in Typed :
          editor' = [editor EXCEPT ![b] = IF t \in @ THEN @ \ {t} ELSE @ \cup {t}]
    /\ edits' = edits + 1
    /\ queue' = Change(queue)
    /\ UNCHANGED <<tab, unsynced, page, late, reply, poll, crashes, versions, skipped>>
    /\ Transmit
    /\ Record

\* Blur, Ctrl+S or switching tabs.
FlushNow == QueueStep(Flush(queue, editor, NewId, "manual"))

SyncTimer ==
    /\ queue.syncTimer
    /\ QueueStep(Flush(queue, editor, NewId, "timer"))

DraftTimer ==
    /\ queue.draftTimer
    /\ QueueStep(WriteDraftNow(queue, editor))

RetryTimer ==
    /\ queue.retryTimer
    /\ QueueStep(RetryNow(queue, editor, NewId))

\* The badge's Retry, and the browser's "online" event.
RetryByHand == QueueStep(RetryNow(queue, editor, NewId))

\* visibilitychange to hidden, and pagehide.
HidePage == QueueStep(Hide(queue, editor, NewId))

\* The text of the editor after it took in a newer server version.
MergedText(base, server, dropped) ==
    IF base = None THEN server ELSE MergeBlocks(base, editor, server, dropped)

\* The editor's update event, which an unsynced draft mutes.
Updated(q) == IF editor' # editor /\ unsynced = None THEN Change(q) ELSE q

\* succeeded(): the answer to a save that is on the server.
TakeSaved ==
    /\ reply.kind \in {"saved", "merged", "replay"}
    /\ LET payload == queue.inFlight
           landed == Landed(queue, reply.seq, AckedBase(payload, reply))
       IN  /\ \E dropped \in SUBSET Feedback :
                 editor' = IF reply.kind = "merged"
                           THEN MergedText(payload.to, reply.doc, dropped) ELSE editor
           /\ queue' = SettleClean(Updated(landed), editor', NewId)
           /\ skipped' = (skipped \/ (reply.kind = "replay" /\ versions[reply.seq] # payload.to))

\* failed() with a 409.
TakeRefused ==
    /\ reply.kind \in {"resync", "conflict", "block_conflict"}
    /\ queue' = IF reply.kind = "resync" THEN Resync(queue) ELSE Conflicted(queue, reply, editor)
    /\ UNCHANGED <<editor, skipped>>

ReceiveReply ==
    /\ page = "open"
    /\ reply # None
    /\ TakeSaved \/ TakeRefused
    /\ reply' = None
    /\ UNCHANGED <<tab, unsynced, page, late, poll, edits, crashes, versions>>
    /\ sent' = queue'.inFlight
    /\ Record

\* A request its client no longer waits for may still be on its way to the
\* server; at most one such request is kept.
Abandon ==
    late' \in {late} \cup {payload \in {sent} \ {None} : tab.save_seq <= MaxLate}

\* The request or its answer is lost, times out or meets a 5xx.
LoseRequest ==
    /\ page = "open"
    /\ sent # None \/ reply # None
    /\ queue' = Unreachable(queue, editor)
    /\ sent' = None
    /\ reply' = None
    /\ Abandon
    /\ UNCHANGED <<tab, editor, unsynced, page, poll, edits, crashes, versions, skipped>>
    /\ Record

\* 401 or a 4xx: the server refuses the request before it looks at the tab.
RefuseRequest ==
    /\ page = "open"
    /\ sent # None
    /\ queue' \in {Unauthorized(queue, editor), Rejected(queue, editor)}
    /\ sent' = None
    /\ UNCHANGED <<tab, editor, unsynced, page, late, reply, poll, edits, crashes, versions, skipped>>
    /\ Record

-----------------------------------------------------------------------------
(***************************************************************************)
(* The editor and other people's changes.                                  *)
(***************************************************************************)
\* A 409's effect in the editor: with only marks to move, the save goes on.
ConflictEffect ==
    /\ page = "open"
    /\ queue.conflict # None
    /\ queue.conflict.fresh
    /\ LET conflict == queue.conflict
           stays == \/ conflict.kind # "block_conflict"
                    \/ queue.base = None
                    \/ MergeConflicts(queue.base, editor, conflict.doc) # {}
       IN  IF stays
           THEN /\ queue' = [queue EXCEPT !.conflict.fresh = FALSE]
                /\ UNCHANGED editor
           ELSE /\ \E dropped \in SUBSET Feedback :
                      editor' = MergeBlocks(queue.base, editor, conflict.doc, dropped)
                /\ queue' = KeepMine(Updated(queue), conflict.seq, conflict.doc, editor', NewId)
    /\ UNCHANGED <<tab, unsynced, page, late, reply, poll, edits, crashes, versions, skipped>>
    /\ Transmit
    /\ Record

\* "Keep mine" on the conflict banner.
KeepMineOnConflict ==
    /\ page = "open"
    /\ queue.conflict # None
    /\ \E dropped \in SUBSET Feedback :
          editor' = MergedText(queue.base, queue.conflict.doc, dropped)
    /\ queue' = KeepMine(Updated(queue), queue.conflict.seq, queue.conflict.doc, editor', NewId)
    /\ UNCHANGED <<tab, unsynced, page, late, reply, poll, edits, crashes, versions, skipped>>
    /\ Transmit
    /\ Record

\* "Load latest" on the conflict banner.
LoadLatest ==
    /\ page = "open"
    /\ queue.conflict # None
    /\ editor' = queue.conflict.doc
    /\ queue' = AcceptServer(queue, queue.conflict.seq, queue.conflict.doc)
    /\ UNCHANGED <<tab, unsynced, page, late, reply, poll, edits, crashes, versions, skipped>>
    /\ Transmit
    /\ Record

\* A changes poll asks for what is newer than the version the client shows.
PollChanges ==
    /\ page = "open"
    /\ poll = None
    /\ queue.seq # tab.save_seq
    /\ poll' = [seq |-> tab.save_seq, doc |-> tab.doc]
    /\ UNCHANGED <<tab, queue, editor, unsynced, page, sent, late, reply, edits,
                   crashes, versions, seen, skipped>>

\* Mutant of Absorbable: a poll answer older than the text shown is taken all the same.
AbsorbableInAnyOrder ==
    /\ queue.inFlight = None
    /\ queue.conflict = None
    /\ queue.base # None \/ ~queue.dirty

\* absorbRemote()'s early returns.
Absorbable ==
    /\ queue.inFlight = None
    /\ queue.conflict = None
    /\ poll.seq > queue.seq
    /\ queue.base # None \/ ~queue.dirty

AbsorbRemote ==
    /\ page = "open"
    /\ poll # None
    /\ poll' = None
    /\ IF Absorbable
       THEN /\ \E dropped \in SUBSET Feedback :
                  editor' = MergedText(queue.base, poll.doc, dropped)
            /\ queue' = Adopt(Updated(queue), poll.seq, poll.doc)
       ELSE UNCHANGED <<queue, editor>>
    /\ UNCHANGED <<tab, unsynced, page, late, reply, edits, crashes, versions, skipped>>
    /\ Transmit
    /\ Record

-----------------------------------------------------------------------------
(***************************************************************************)
(* The page dies, and the essay is opened again.                           *)
(***************************************************************************)
\* Only the draft survives; a request already sent may still arrive.
Crash ==
    /\ page = "open"
    /\ crashes < MaxCrashes
    /\ crashes' = crashes + 1
    /\ page' = "gone"
    /\ queue' = NewQueue(0, None, queue.draft)
    /\ editor' = EmptyDoc
    /\ unsynced' = None
    /\ Abandon
    /\ sent' = None /\ reply' = None /\ poll' = None
    /\ UNCHANGED <<tab, edits, historyVars>>

\* Mutant of Reconcile: a draft is sent whatever the server has stored meanwhile.
ReconcileWithoutSeq(draft) ==
    IF draft = None THEN "none" ELSE IF draft.doc = tab.doc THEN "discard" ELSE "push"

\* reconcileDraft()
Reconcile(draft) ==
    IF draft = None THEN "none"
    ELSE IF draft.doc = tab.doc THEN "discard"
    ELSE IF draft.base_seq = tab.save_seq THEN "push"
    ELSE "ask"

\* createTabSession(): a draft the server's version still builds on is saved at once.
Open ==
    /\ page = "gone"
    /\ page' = "open"
    /\ LET draft == queue.draft
           decision == Reconcile(draft)
           kept == IF decision = "discard" THEN None ELSE draft
           opened == NewQueue(tab.save_seq, tab.doc, kept)
       IN  /\ editor' = IF decision = "push" THEN draft.doc ELSE tab.doc
           /\ unsynced' = IF decision = "ask" THEN draft ELSE None
           /\ queue' = IF decision = "push"
                       THEN Flush(Change(opened), draft.doc, NewId, "load") ELSE opened
           /\ seen' = seen \cup (Foreign \cap PiecesOf(editor'))
    /\ UNCHANGED <<tab, late, reply, poll, edits, crashes, versions, skipped>>
    /\ Transmit

\* "Keep mine" for an unsynced draft.
KeepLocalDraft ==
    /\ page = "open"
    /\ unsynced # None
    /\ editor' = unsynced.doc
    /\ unsynced' = None
    /\ queue' = KeepMine(queue, queue.seq, None, editor', NewId)
    /\ UNCHANGED <<tab, page, late, reply, poll, edits, crashes, versions, skipped>>
    /\ Transmit
    /\ Record

\* "Use the saved version" for an unsynced draft.
DiscardLocalDraft ==
    /\ page = "open"
    /\ unsynced # None
    /\ unsynced' = None
    /\ queue' = [queue EXCEPT !.draft = None]
    /\ UNCHANGED <<tab, editor, page, late, reply, poll, edits, crashes, versions, skipped>>
    /\ Transmit
    /\ Record

-----------------------------------------------------------------------------
ServerStep ==
    \/ AutosaveSent \/ AutosaveLate
    \/ CounselorMarks \/ OtherDeviceSaves \/ OtherDeviceRestores

ClientStep ==
    \/ Edit \/ FlushNow \/ SyncTimer \/ DraftTimer
    \/ RetryTimer \/ RetryByHand \/ HidePage
    \/ ReceiveReply \/ LoseRequest \/ RefuseRequest
    \/ ConflictEffect \/ KeepMineOnConflict \/ LoadLatest
    \/ PollChanges \/ AbsorbRemote
    \/ Crash \/ Open \/ KeepLocalDraft \/ DiscardLocalDraft

Next == ServerStep \/ ClientStep

Spec == Init /\ [][Next]_vars

-----------------------------------------------------------------------------
(***************************************************************************)
(* Properties.                                                             *)
(***************************************************************************)
OnServer(text) == \E n \in DOMAIN versions : text \in PiecesOf(versions[n])

\* The badge says "Saved" only over a text the server has stored, whatever was
\* lost, retried, merged or typed meanwhile (saveQueue.js setStatus, flush with
\* an unchanged document, settleClean).  After a replay answer that hid another
\* version, every block's typing is stored, if not the text as it stands.
SavedBadgeIsTrue ==
    page = "open" /\ unsynced = None /\ queue.status = "saved" =>
        IF skipped
        THEN \A b \in Blocks :
                \E n \in DOMAIN versions : editor[b] \cap Typed \subseteq versions[n][b]
        ELSE \E n \in DOMAIN versions : versions[n] = editor

\* Unsent text never waits for nothing: a timer, a request or an answer will
\* move it on, or the badge tells the student what stopped it (change, flush,
\* failed and settleClean arm the timers between them).
NeverStranded ==
    page = "open" =>
        /\ queue.dirty => \/ queue.syncTimer
                          \/ queue.inFlight # None
                          \/ queue.pendingRetry # None
                          \/ queue.status \in {"conflict", "expired", "rejected"}
        /\ queue.pendingRetry # None => queue.inFlight = None /\ queue.retryTimer
        /\ queue.inFlight # None <=> (sent # None \/ reply # None)
        /\ queue.followUp => queue.inFlight # None

\* Text that is not on the server is in the draft on this device, unless the
\* throttled draft write is still due.
DraftCoversText ==
    page = "open" /\ Unsettled(queue) /\ ~queue.draftTimer
        => queue.draft # None /\ queue.draft.doc = editor

\* saveQueue.js: base is the last document the server acknowledged at seq, so
\* that the next delta is made from what the server holds at its base_seq.
BaseIsServerVersion ==
    page = "open" /\ queue.base # None
        => queue.seq \in DOMAIN versions /\ versions[queue.seq] = queue.base

\* The same, as long as no replay answer hid somebody else's version.
BaseIsServerVersionUnlessSkipped == ~skipped => BaseIsServerVersion

\* The version the open editor builds on never becomes an older one, in whatever
\* order the answers to saves and polls come back (absorbRemote's seq guard,
\* adopt's inFlight guard).
NeverGoesBack ==
    [][page = "open" /\ page' = "open" => queue'.seq >= queue.seq]_vars

\* A save of this client takes other people's work out of the stored text only
\* when this client has shown it, or merged with it: no blind overwrite.
NoBlindOverwrite ==
    [][(AutosaveSent \/ AutosaveLate) /\ ~skipped
        => Foreign \cap (PiecesOf(tab.doc) \ PiecesOf(tab'.doc)) \subseteq seen]_vars

\* What a step takes out of the editor's blocks of what the student typed there
\* and no stored version of the block holds.
TypingDropped ==
    {typing \in Blocks \X Typed :
        /\ typing[2] \in editor[typing[1]] \ editor'[typing[1]]
        /\ \A n \in DOMAIN versions : typing[2] \notin versions[n][typing[1]]}

\* mergeIntoEditor: "the student's unsaved paragraphs stay".  Taking a newer
\* version into the editor never drops typing the server does not have.
MergeKeepsTyping ==
    [][ReceiveReply \/ ConflictEffect \/ KeepMineOnConflict \/ AbsorbRemote
        => TypingDropped = {}]_vars

\* The same, when the queue has a base to merge from.
MergeWithBaseKeepsTyping ==
    [][queue.base # None /\ (ReceiveReply \/ ConflictEffect \/ KeepMineOnConflict \/ AbsorbRemote)
        => TypingDropped = {}]_vars

\* saveQueue.js hide(): "Page hidden or closing: write the draft now".  A page
\* hidden now would leave its unsaved text in the draft.
HideWritesDraft ==
    LET hidden == Hide(queue, editor, NewId)
    IN  page = "open" /\ Unsettled(hidden)
            => hidden.draft # None /\ hidden.draft.doc = editor

(***************************************************************************)
(* Liveness.  Timers fire; a request that is repeated for ever is          *)
(* eventually processed, and an answer that is repeated for ever arrives.  *)
(***************************************************************************)
Fairness ==
    /\ WF_vars(SyncTimer)
    /\ WF_vars(RetryTimer)
    /\ WF_vars(ConflictEffect)
    /\ SF_vars(AutosaveSent)
    /\ SF_vars(ReceiveReply)

FairSpec == Spec /\ Fairness

\* The client has stopped and shows the student why.
WaitsForStudent ==
    \/ unsynced # None
    \/ queue.status \in {"conflict", "expired", "rejected"}

\* Whatever the student types reaches the server, unless the student takes it
\* out again, is asked something, or the page dies first.
TypingReachesServer ==
    \A t \in Typed :
        (page = "open" /\ t \in PiecesOf(editor))
            ~> (OnServer(t) \/ t \notin PiecesOf(editor) \/ WaitsForStudent \/ page = "gone")
=============================================================================
