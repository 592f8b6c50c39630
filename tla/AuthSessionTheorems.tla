------------------------ MODULE AuthSessionTheorems ------------------------
(***************************************************************************)
(* Proofs about AuthSession, for every number of tabs, sessions, refreshes  *)
(* and faults, with Web Locks and without.                                  *)
(***************************************************************************)
EXTENDS AuthSession, TLAPS

(***************************************************************************)
(* Types, made inductive: every token that is kept, carried or answered     *)
(* names a session the server opened.                                      *)
(***************************************************************************)
RefRec ==
    [pc : {"idle", "waiting", "handoff", "first", "settle", "again", "second"},
     base : Cookies, gen : Hints, before : Hints, stale : BOOLEAN]
OutRec ==
    [pc : {"idle", "settling", "queued", "sent", "failed"}, byUser : BOOLEAN,
     id : Nat \cup {None}, old : SUBSET Nat, tries : Nat]
WireRec ==
    [stage : {"none", "sent", "checked", "answered", "landed", "lost"},
     carried : Cookies, answer : Cookies \cup {Refused, Busy}]

Named(token) == token \in Tokens => token[1] \in 1..Len(issued)

\* What a request carries and is answered with: a refresh that was checked
\* carries a token, its answer is a token or a refusal, a sign-in's is a token.
Fit(kind, w) ==
    /\ Named(w.carried) /\ Named(w.answer)
    /\ kind = "refresh" /\ w.stage = "checked" => w.carried \in Tokens
    /\ kind = "refresh" /\ w.stage \in {"answered", "landed"} => w.answer # None
    /\ kind = "signIn" /\ w.stage \in {"answered", "landed"} => w.answer \in Tokens

ServerOK ==
    /\ setting \in Settings
    /\ issued \in Seq(Nat) /\ revoked \subseteq 1..Len(issued)
    /\ changed \subseteq 1..Len(issued) /\ spent \subseteq Tokens
    /\ late \subseteq ({"refresh", "logout"} \X Tokens) /\ \A r \in late : Named(r[2])
BrowserOK ==
    /\ cookie \in Cookies /\ Named(cookie) /\ hint \in Hints /\ lastId \in Nat
    /\ holder \in Tabs \cup {NoTab}
MemoryOK ==
    /\ access \in [Tabs -> Cookies] /\ mail \in [Tabs -> SUBSET Tokens]
    /\ ended \in [Tabs -> BOOLEAN] /\ user \in [Tabs -> BOOLEAN]
    /\ inn \in [Tabs -> {"idle", "waiting", "sent", "changing"}]
SignalsOK == signals \in [Tabs -> Seq(Nat)]
OpenedOK == opened \in [Tabs -> SUBSET ((1..Len(issued)) \X Nat)]
RefOK == ref \in [Tabs -> RefRec]
OutOK == out \in [Tabs -> OutRec]
WiresOK ==
    /\ wire \in [Tabs -> [Kinds -> WireRec]]
    /\ \A t \in Tabs, kind \in Kinds : Fit(kind, wire[t][kind])

Types ==
    ServerOK /\ BrowserOK /\ MemoryOK /\ SignalsOK /\ OpenedOK /\ RefOK /\ OutOK /\ WiresOK

(***************************************************************************)
(* Facts about the data.                                                   *)
(***************************************************************************)
LEMMA TokenFacts ==
    /\ Tokens \subseteq Nat \X Nat
    /\ None \notin Tokens /\ Refused \notin Tokens /\ Busy \notin Tokens
    /\ None \notin {Refused, Busy} /\ NoTab \notin Tabs
    /\ \A s, n \in Nat \ {0} : <<s, n>> \in Tokens
    /\ \A x \in Tokens : x[1] \in Nat \ {0} /\ x[2] \in Nat \ {0}
BY AuthConstants DEF Tokens

LEMMA IdleRecs == IdleRef \in RefRec /\ IdleOut \in OutRec /\ IdleWire \in WireRec
BY DEF IdleRef, IdleOut, IdleWire, RefRec, OutRec, WireRec, Cookies, Hints

LEMMA IdleFits == \A kind \in Kinds : Fit(kind, IdleWire)
BY TokenFacts DEF IdleWire, Fit, Named

\* Sessions are only added.
LEMMA StillNamed ==
    ASSUME ServerOK, ServerOK', Len(issued') >= Len(issued)
    PROVE  /\ \A x : Named(x) => (x \in Tokens => x[1] \in 1..Len(issued'))
           /\ 1..Len(issued) \subseteq 1..Len(issued')
BY DEF ServerOK, Named

(***************************************************************************)
(* The wire.                                                               *)
(***************************************************************************)
LEMMA WireSet ==
    ASSUME WiresOK, NEW t \in Tabs, NEW k \in Kinds, NEW w \in WireRec,
           wire' = [wire EXCEPT ![t][k] = w], Fit(k, w)',
           \A x : Named(x) => (x \in Tokens => x[1] \in 1..Len(issued'))
    PROVE  WiresOK'
<1>1. wire' \in [Tabs -> [Kinds -> WireRec]]
  BY DEF WiresOK
<1>2. ASSUME NEW u \in Tabs, NEW kind \in Kinds PROVE Fit(kind, wire[u][kind])'
  <2>1. CASE u = t /\ kind = k
    <3>1. wire'[u][kind] = w
      BY <2>1 DEF WiresOK
    <3> QED
      BY <2>1, <3>1 DEF Fit, Named
  <2>2. CASE ~(u = t /\ kind = k)
    <3>1. wire'[u][kind] = wire[u][kind]
      BY <2>2 DEF WiresOK
    <3>2. Fit(kind, wire[u][kind])
      BY DEF WiresOK
    <3> QED
      BY <3>1, <3>2 DEF Fit, Named
  <2> QED
    BY <2>1, <2>2
<1> QED
  BY <1>1, <1>2 DEF WiresOK

LEMMA WireKept ==
    ASSUME WiresOK, UNCHANGED wire,
           \A x : Named(x) => (x \in Tokens => x[1] \in 1..Len(issued'))
    PROVE  WiresOK'
BY DEF WiresOK, Fit, Named

LEMMA Sent ==
    ASSUME WiresOK, BrowserOK, NEW t \in Tabs, NEW k \in Kinds, Send(t, k), UNCHANGED issued
    PROVE  WiresOK'
<1>1. PICK w : w = [stage |-> "sent", carried |-> cookie, answer |-> None]
  OBVIOUS
<1>2. w \in WireRec
  BY <1>1 DEF WireRec, BrowserOK, Cookies
<1>3. Fit(k, w)'
  BY <1>1, TokenFacts DEF BrowserOK, Fit, Named
<1> QED
  BY <1>1, <1>2, <1>3, WireSet DEF Send, Named

LEMMA Dropped ==
    ASSUME WiresOK, NEW t \in Tabs, NEW k \in Kinds, Drop(t, k), UNCHANGED issued
    PROVE  WiresOK'
<1>1. Fit(k, IdleWire)'
  BY IdleFits DEF Fit, Named
<1> QED
  BY <1>1, IdleRecs, WireSet DEF Drop, Named

\* A request gets its answer, on the server or in the browser.
LEMMA Staged ==
    ASSUME WiresOK, NEW t \in Tabs, NEW k \in Kinds,
           NEW stage \in {"checked", "answered", "landed", "lost"},
           NEW a \in Cookies \cup {Refused, Busy},
           wire' = [wire EXCEPT ![t][k] = [wire[t][k] EXCEPT !.stage = stage, !.answer = a]],
           a \in Tokens => a[1] \in 1..Len(issued'),
           k = "refresh" /\ stage = "checked" => wire[t][k].carried \in Tokens,
           k = "refresh" /\ stage \in {"answered", "landed"} => a # None,
           k = "signIn" /\ stage \in {"answered", "landed"} => a \in Tokens,
           \A x : Named(x) => (x \in Tokens => x[1] \in 1..Len(issued'))
    PROVE  WiresOK'
<1>1. PICK w : w = [wire[t][k] EXCEPT !.stage = stage, !.answer = a]
  OBVIOUS
<1>2. wire[t][k] \in WireRec /\ Fit(k, wire[t][k])
  BY DEF WiresOK
<1>3. w \in WireRec /\ w.stage = stage /\ w.answer = a /\ w.carried = wire[t][k].carried
  BY <1>1, <1>2 DEF WireRec
<1>4. Fit(k, w)'
  BY <1>2, <1>3 DEF Fit, Named
<1> QED
  BY <1>1, <1>3, <1>4, WireSet

\* The stage moves on and the answer stays.
LEMMA Moved ==
    ASSUME WiresOK, NEW t \in Tabs, NEW k \in Kinds, NEW stage \in {"checked", "landed", "lost"},
           wire' = [wire EXCEPT ![t][k].stage = stage], UNCHANGED issued,
           stage = "checked" => wire[t][k].carried \in Tokens,
           stage = "landed" => wire[t][k].stage = "answered"
    PROVE  WiresOK'
<1>1. PICK w : w = [wire[t][k] EXCEPT !.stage = stage]
  OBVIOUS
<1>2. wire[t][k] \in WireRec /\ Fit(k, wire[t][k])
  BY DEF WiresOK
<1>3. /\ w \in WireRec /\ w.stage = stage
      /\ w.answer = wire[t][k].answer /\ w.carried = wire[t][k].carried
  BY <1>1, <1>2 DEF WireRec
<1>4. Fit(k, w)'
  BY <1>2, <1>3 DEF Fit, Named
<1> QED
  BY <1>1, <1>3, <1>4, WireSet DEF Named

\* The server (or the network) answers.
LEMMA Answered ==
    ASSUME WiresOK, NEW t \in Tabs, NEW k \in Kinds, NEW a \in Cookies \cup {Refused, Busy},
           Answer(t, k, a), a \in Tokens => a[1] \in 1..Len(issued'),
           k = "refresh" => a # None, k = "signIn" => a \in Tokens,
           \A x : Named(x) => (x \in Tokens => x[1] \in 1..Len(issued'))
    PROVE  WiresOK'
<1>1. wire' = [wire EXCEPT ![t][k] = [wire[t][k] EXCEPT !.stage = "answered", !.answer = a]]
  BY DEF Answer
<1> QED
  BY <1>1, Staged, ZenonT(60)

(***************************************************************************)
(* The steps of the server, the browser and the network.                   *)
(***************************************************************************)
LEMMA CheckTypes == ASSUME Types, NEW t \in Tabs, CheckRefresh(t) PROVE Types'
<1> DEFINE w == wire[t]["refresh"]
<1>1. UNCHANGED <<setting, server, browser, memory, events, jobs>>
  BY DEF CheckRefresh
<1>2. w \in WireRec /\ Fit("refresh", w)
  BY DEF Types, WiresOK, Kinds
<1>3. WiresOK'
  <2>1. CASE Live(w.carried)
    <3>1. w.carried \in Tokens
      BY <1>2, <2>1 DEF Live, WireRec, Cookies
    <3> QED
      BY <1>1, <2>1, <3>1, Moved DEF CheckRefresh, Types, Kinds, server
  <2>2. CASE ~Live(w.carried)
    <3>1. Answer(t, "refresh", Refused)
      BY <2>2 DEF CheckRefresh, Answer
    <3> QED
      BY <1>1, <3>1, Answered, TokenFacts DEF Types, Kinds, server, Named
  <2> QED
    BY <2>1, <2>2
<1> QED
  BY <1>1, <1>3 DEF Types, server, browser, memory, events, jobs, ServerOK, BrowserOK, MemoryOK,
        SignalsOK, OpenedOK, RefOK, OutOK, Named

\* A token of an opened session is rotated: its chain grows by one.
LEMMA Issued ==
    ASSUME ServerOK, NEW token \in Tokens, Named(token), Issue(token),
           UNCHANGED <<setting, revoked, changed>>, late' \subseteq late
    PROVE  ServerOK' /\ Len(issued') = Len(issued)
<1>1. issued' \in Seq(Nat) /\ Len(issued') = Len(issued)
  BY TokenFacts DEF Issue, ServerOK, Named
<1> QED
  BY <1>1 DEF Issue, ServerOK, Named

LEMMA IssueTypes == ASSUME Types, NEW t \in Tabs, IssueRefresh(t) PROVE Types'
<1> DEFINE w == wire[t]["refresh"]
<1>1. UNCHANGED <<setting, revoked, changed, late, browser, memory, events, jobs>>
  BY DEF IssueRefresh
<1>2. w.carried \in Tokens /\ Named(w.carried) /\ w.stage = "checked"
  BY DEF Types, WiresOK, Kinds, Fit, IssueRefresh
<1>3. ServerOK' /\ Len(issued') = Len(issued)
  BY <1>1, <1>2, Issued DEF IssueRefresh, Types
<1>4. WiresOK'
  <2>1. PICK a : a = <<w.carried[1], issued[w.carried[1]] + 1>>
    OBVIOUS
  <2>2. a \in Tokens /\ a[1] \in 1..Len(issued')
    <3>1. w.carried[1] \in Nat \ {0} /\ w.carried[1] \in 1..Len(issued)
      BY <1>2, TokenFacts DEF Named
    <3>2. issued \in Seq(Nat)
      BY DEF Types, ServerOK
    <3>3. issued[w.carried[1]] \in Nat
      BY <3>1, <3>2
    <3>4. issued[w.carried[1]] + 1 \in Nat \ {0}
      BY <3>3, SMT
    <3> QED
      BY <1>3, <2>1, <3>1, <3>4, TokenFacts
  <2>3. Answer(t, "refresh", a)
    BY <2>1 DEF IssueRefresh
  <2>4. \A x : Named(x) => (x \in Tokens => x[1] \in 1..Len(issued'))
    BY <1>3 DEF Named
  <2> QED
    BY <2>2, <2>3, <2>4, Answered, TokenFacts DEF Types, Kinds, Cookies
<1> QED
  BY <1>1, <1>3, <1>4 DEF Types, browser, memory, events, jobs, BrowserOK, MemoryOK,
        SignalsOK, OpenedOK, RefOK, OutOK, Named

LEMMA LogoutTypes == ASSUME Types, NEW t \in Tabs, ServeLogout(t) PROVE Types'
<1>1. UNCHANGED <<setting, issued, changed, late, browser, memory, events, jobs>>
  BY DEF ServeLogout
<1>2. wire[t]["logout"].carried \in Cookies /\ Named(wire[t]["logout"].carried)
  BY DEF Types, WiresOK, WireRec, Kinds, Fit
<1>3. ServerOK'
  BY <1>1, <1>2 DEF ServeLogout, Revoke, Types, ServerOK, Named, Cookies
<1>4. WiresOK'
  BY <1>1, Answered, TokenFacts DEF ServeLogout, Types, Kinds, Cookies, Named
<1> QED
  BY <1>1, <1>3, <1>4 DEF Types, browser, memory, events, jobs, BrowserOK, MemoryOK,
        SignalsOK, OpenedOK, RefOK, OutOK, Named

LEMMA SignInServedTypes == ASSUME Types, NEW t \in Tabs, ServeSignIn(t) PROVE Types'
<1>1. UNCHANGED <<setting, revoked, spent, late, browser, memory, events, jobs>>
  BY DEF ServeSignIn
<1>2. issued' \in Seq(Nat) /\ Len(issued') = Len(issued) + 1
  BY DEF ServeSignIn, OpenSession, Types, ServerOK
<1>3. Len(issued) \in Nat /\ 1..Len(issued) \subseteq 1..Len(issued') /\ Len(issued) + 1 \in 1..Len(issued')
  BY <1>2 DEF Types, ServerOK
<1>4. ServerOK'
  BY <1>1, <1>2, <1>3 DEF ServeSignIn, Types, ServerOK, Named
<1>5. WiresOK'
  <2>1. PICK a : a = <<Len(issued) + 1, 1>>
    OBVIOUS
  <2>2. a \in Tokens /\ a[1] \in 1..Len(issued')
    BY <1>3, <2>1, TokenFacts
  <2>3. Answer(t, "signIn", a)
    BY <2>1 DEF ServeSignIn
  <2>4. \A x : Named(x) => (x \in Tokens => x[1] \in 1..Len(issued'))
    BY <1>3 DEF Named
  <2> QED
    BY <2>2, <2>3, <2>4, Answered DEF Types, Kinds, Cookies
<1>6. OpenedOK'
  <2>1. (1..Len(issued)) \X Nat \subseteq (1..Len(issued')) \X Nat
    BY <1>3
  <2> QED
    BY <1>1, <2>1 DEF Types, OpenedOK, jobs
<1> QED
  BY <1>1, <1>3, <1>4, <1>5, <1>6 DEF Types, browser, memory, events, jobs, BrowserOK, MemoryOK,
        SignalsOK, RefOK, OutOK, Named

LEMMA LandTypes == ASSUME Types, NEW t \in Tabs, NEW k \in Kinds, Land(t, k) PROVE Types'
<1>1. UNCHANGED <<setting, server, hint, lastId, holder, memory, events, jobs>>
  BY DEF Land
<1>2. WiresOK'
  BY <1>1, Moved DEF Land, Types, server
<1>3. wire[t][k].answer \in Cookies \cup {Refused, Busy} /\ Named(wire[t][k].answer)
  BY DEF Types, WiresOK, WireRec, Fit
<1>4. BrowserOK'
  BY <1>1, <1>3 DEF Land, Types, BrowserOK, Named, server
<1> QED
  BY <1>1, <1>2, <1>4 DEF Types, server, memory, events, jobs, ServerOK, MemoryOK,
        SignalsOK, OpenedOK, RefOK, OutOK, Named

LEMMA FailTypes == ASSUME Types, NEW t \in Tabs, Fail(t) PROVE Types'
<1>1. UNCHANGED <<setting, server, browser, memory, events, jobs>>
  BY DEF Fail
<1>2. PICK k \in {"refresh", "logout"} : Answer(t, k, Busy)
  BY DEF Fail
<1>3. WiresOK'
  BY <1>1, <1>2, Answered, TokenFacts DEF Types, Kinds, server, Named
<1> QED
  BY <1>1, <1>3 DEF Types, server, browser, memory, events, jobs, ServerOK, BrowserOK, MemoryOK,
        SignalsOK, OpenedOK, RefOK, OutOK, Named

LEMMA TimeOutTypes == ASSUME Types, NEW t \in Tabs, TimeOut(t) PROVE Types'
<1>1. UNCHANGED <<setting, issued, revoked, spent, changed, browser, memory, events, jobs>>
  BY DEF TimeOut
<1>2. PICK k \in Kinds :
        /\ wire' = [wire EXCEPT ![t][k].stage = "lost"]
        /\ late' = IF wire[t][k].stage = "answered" \/ k = "signIn" \/ wire[t][k].carried = None THEN late
                   ELSE late \cup {<<k, wire[t][k].carried>>}
  BY DEF TimeOut
<1>3. WiresOK'
  BY <1>1, <1>2, Moved DEF Types
<1>4. wire[t][k].carried \in Cookies /\ Named(wire[t][k].carried)
  BY DEF Types, WiresOK, WireRec, Fit
<1>5. ServerOK'
  BY <1>1, <1>2, <1>4 DEF Types, ServerOK, Named, Cookies, Kinds
<1> QED
  BY <1>1, <1>3, <1>5 DEF Types, browser, memory, events, jobs, BrowserOK, MemoryOK,
        SignalsOK, OpenedOK, RefOK, OutOK, Named

LEMMA ReloadTypes == ASSUME Types, NEW t \in Tabs, Reload(t) PROVE Types'
<1>1. UNCHANGED <<setting, issued, revoked, spent, changed, cookie, hint, lastId, opened>>
  BY DEF Reload
<1>2. MemoryOK' /\ SignalsOK' /\ RefOK' /\ OutOK'
  BY IdleRecs DEF Reload, Types, MemoryOK, SignalsOK, RefOK, OutOK, Cookies
<1>3. WiresOK'
  BY <1>1, IdleRecs, IdleFits DEF Reload, Types, WiresOK, Fit, Named
<1>4. \A k \in {"refresh", "logout"} : wire[t][k].carried \in Cookies /\ Named(wire[t][k].carried)
  BY DEF Types, WiresOK, WireRec, Fit, Kinds
<1>5. ServerOK'
  <2>1. late' \subseteq late \cup {<<k, wire[t][k].carried>> : k \in {x \in {"refresh", "logout"} : wire[t][x].carried # None}}
    BY DEF Reload
  <2> QED
    BY <1>1, <1>4, <2>1 DEF Types, ServerOK, Named, Cookies
<1>6. BrowserOK'
  BY <1>1 DEF Reload, Free, Types, BrowserOK, Named
<1> QED
  BY <1>1, <1>2, <1>3, <1>5, <1>6 DEF Types, OpenedOK

LEMMA LateTypes == ASSUME Types, ServeLate PROVE Types'
<1>1. UNCHANGED <<setting, changed, browser, memory, events, jobs, wire>>
  BY DEF ServeLate
<1>2. PICK r \in late :
        /\ late' = late \ {r}
        /\ IF r[1] = "logout" THEN Revoke(r[2]) /\ UNCHANGED issued
           ELSE IF Live(r[2]) THEN Issue(r[2]) /\ UNCHANGED revoked
           ELSE UNCHANGED <<issued, revoked, spent>>
  BY DEF ServeLate
<1>3. r[2] \in Tokens /\ Named(r[2])
  BY DEF Types, ServerOK
<1>4. ServerOK' /\ Len(issued') = Len(issued)
  <2>1. CASE Issue(r[2]) /\ UNCHANGED revoked
    BY <1>1, <1>2, <1>3, <2>1, Issued DEF Types
  <2>2. CASE Revoke(r[2]) /\ UNCHANGED issued
    BY <1>1, <1>2, <1>3, <2>2 DEF Revoke, Types, ServerOK, Named
  <2>3. CASE UNCHANGED <<issued, revoked, spent>>
    BY <1>1, <1>2, <2>3 DEF Types, ServerOK, Named
  <2> QED
    BY <1>2, <2>1, <2>2, <2>3
<1>5. WiresOK'
  BY <1>1, <1>4, WireKept DEF Types, Named
<1> QED
  BY <1>1, <1>4, <1>5 DEF Types, browser, memory, events, jobs, BrowserOK, MemoryOK,
        SignalsOK, OpenedOK, RefOK, OutOK, Named

(***************************************************************************)
(* The refresher's steps.                                                  *)
(***************************************************************************)
LEMMA HintFacts ==
    /\ None \in Hints /\ None \in Cookies /\ None \notin Nat \X Nat
    /\ \A h \in Hints : IdOf(h) \in Nat \cup {None} /\ (h # None => h[1] \in Nat /\ h[2] \in Nat)
    /\ \A n, m \in Nat : <<n, m>> \in Hints
BY AuthConstants DEF Hints, Cookies, IdOf

LEMMA Settled == ASSUME RefOK, NEW t \in Tabs, Settle(t) PROVE RefOK'
BY IdleRecs DEF RefOK, Settle

LEMMA Stepped ==
    ASSUME RefOK, NEW t \in Tabs,
           NEW pc \in {"waiting", "handoff", "first", "settle", "again", "second"}, Step(t, pc)
    PROVE  RefOK'
BY DEF RefOK, Step, RefRec

LEMMA Attempted ==
    ASSUME RefOK, hint \in Hints, NEW t \in Tabs, NEW pc \in {"first", "second"}, Attempt(t, pc)
    PROVE  RefOK'
BY ZenonT(60) DEF RefOK, Attempt, RefRec

LEMMA Staled == ASSUME RefOK, NEW t \in Tabs, ref' = Stale(t) PROVE RefOK'
BY ZenonT(60) DEF RefOK, Stale, RefRec

LEMMA Freed == ASSUME holder \in Tabs \cup {NoTab}, NEW t \in Tabs, Free(t) \/ Take(t)
               PROVE  holder' \in Tabs \cup {NoTab}
BY DEF Free, Take

LEMMA Removed ==
    ASSUME SignalsOK, hint \in Hints, NEW t \in Tabs, RemoveHint(t)
    PROVE  SignalsOK' /\ hint' \in Hints
BY HintFacts DEF SignalsOK, RemoveHint

LEMMA Cleared ==
    ASSUME SignalsOK, hint \in Hints, NEW t \in Tabs, NEW id, ClearHint(t, id)
    PROVE  SignalsOK' /\ hint' \in Hints
BY Removed DEF ClearHint, SignalsOK

LEMMA SignOutBegun ==
    ASSUME OutOK, OpenedOK, ServerOK, hint \in Hints, NEW t \in Tabs, NEW byUser \in BOOLEAN,
           NEW id \in Nat \cup {None}, SignOutOf(t, byUser, id)
    PROVE  OutOK'
<1>1. Opened \in SUBSET Nat
  BY DEF OpenedOK, ServerOK, Opened, Kept
<1> QED
  BY <1>1 DEF OutOK, OutRec, SignOutOf

\* The steps in which the refresher only takes or frees the lock and sends.
LEMMA RefresherTypes ==
    ASSUME Types, NEW t \in Tabs, RefOK', WiresOK', holder' \in Tabs \cup {NoTab},
           UNCHANGED <<setting, server, cookie, hint, lastId, memory, events, out, inn, opened>>
    PROVE  Types'
BY DEF Types, server, memory, events, ServerOK, BrowserOK, MemoryOK, SignalsOK, OpenedOK, OutOK, Named

LEMMA RunTypes ==
    ASSUME Types, NEW t \in Tabs, Run(t), UNCHANGED issued
    PROVE  RefOK' /\ WiresOK' /\ holder' \in Tabs \cup {NoTab}
<1>1. CASE ref[t].stale
  <2>1. Settle(t) /\ Free(t) /\ UNCHANGED wire
    BY <1>1 DEF Run
  <2> QED
    BY <2>1, Settled, Freed, WireKept DEF Types, BrowserOK, Named
<1>2. CASE ~ref[t].stale
  <2>1. Attempt(t, "first") /\ Send(t, "refresh") /\ Take(t)
    BY <1>2 DEF Run, Attempt
  <2> QED
    BY <2>1, Attempted, Freed, Sent DEF Types, BrowserOK, Kinds
<1> QED
  BY <1>1, <1>2

LEMMA StartTypes == ASSUME Types, NEW t \in Tabs, RefreshStart(t) PROVE Types'
<1>1. UNCHANGED <<setting, server, cookie, hint, lastId, memory, events, out, inn, opened>>
  BY DEF RefreshStart
<1>2. UNCHANGED issued
  BY <1>1 DEF server
<1>3. RefOK' /\ WiresOK' /\ holder' \in Tabs \cup {NoTab}
  <2>1. CASE Settle(t) /\ UNCHANGED <<holder, wire>>
    BY <1>2, <2>1, Settled, WireKept DEF Types, BrowserOK, Named
  <2>2. CASE Step(t, "handoff") /\ Take(t) /\ UNCHANGED wire
    BY <1>2, <2>2, Stepped, Freed, WireKept DEF Types, BrowserOK, Named
  <2>3. CASE Run(t)
    BY <1>2, <2>3, RunTypes
  <2> QED
    BY <2>1, <2>2, <2>3 DEF RefreshStart
<1> QED
  BY <1>1, <1>3, RefresherTypes

LEMMA HandedTypes == ASSUME Types, NEW t \in Tabs, RefreshHanded(t) PROVE Types'
<1>1. UNCHANGED <<setting, server, cookie, hint, lastId, memory, events, out, inn, opened>>
  BY DEF RefreshHanded
<1>2. UNCHANGED issued
  BY <1>1 DEF server
<1>3. RefOK' /\ WiresOK' /\ holder' \in Tabs \cup {NoTab}
  <2>1. CASE Settle(t) /\ Free(t) /\ UNCHANGED wire
    BY <1>2, <2>1, Settled, Freed, WireKept DEF Types, BrowserOK, Named
  <2>2. CASE Run(t)
    BY <1>2, <2>2, RunTypes
  <2> QED
    BY <2>1, <2>2 DEF RefreshHanded
<1> QED
  BY <1>1, <1>3, RefresherTypes

LEMMA AgainTypes == ASSUME Types, NEW t \in Tabs, RefreshAgain(t) PROVE Types'
<1>1. UNCHANGED <<setting, server, cookie, hint, lastId, memory, events, out, inn, opened>>
  BY DEF RefreshAgain
<1>2. UNCHANGED issued
  BY <1>1 DEF server
<1>3. RefOK' /\ WiresOK' /\ holder' \in Tabs \cup {NoTab}
  <2>1. CASE Settle(t) /\ Free(t) /\ UNCHANGED wire
    BY <1>2, <2>1, Settled, Freed, WireKept DEF Types, BrowserOK, Named
  <2>2. CASE Attempt(t, "second") /\ UNCHANGED holder
    BY <1>2, <2>2, Attempted, Sent DEF Types, BrowserOK, Kinds, Attempt
  <2> QED
    BY <2>1, <2>2 DEF RefreshAgain
<1> QED
  BY <1>1, <1>3, RefresherTypes

LEMMA GaveUp ==
    ASSUME Types, NEW t \in Tabs, GiveUp(t), WiresOK',
           UNCHANGED <<setting, server, cookie, inn, opened>>
    PROVE  Types'
<1>1. RemoveHint(t) /\ Settle(t) /\ Free(t) /\ UNCHANGED <<mail, lastId>>
  BY DEF GiveUp
<1>2. RefOK' /\ SignalsOK' /\ hint' \in Hints /\ holder' \in Tabs \cup {NoTab}
  BY <1>1, Settled, Removed, Freed DEF Types, BrowserOK
<1>3. OutOK'
  BY SignOutBegun DEF GiveUp, Types, BrowserOK, OutOK
<1>4. MemoryOK'
  BY <1>1, HintFacts, ZenonT(60) DEF GiveUp, EndHere, Types, MemoryOK
<1> QED
  BY <1>1, <1>2, <1>3, <1>4 DEF Types, server, ServerOK, BrowserOK, OpenedOK, Named

LEMMA SavedTypes ==
    ASSUME Types, NEW t \in Tabs, NEW token \in Tokens, RefreshSaved(t, token), WiresOK',
           UNCHANGED <<setting, server, cookie, inn, opened>>
    PROVE  Types'
<1>1. Settle(t) /\ Free(t) /\ SaveRefresh /\ UNCHANGED <<user, signals, out>>
  BY DEF RefreshSaved
<1>2. RefOK' /\ holder' \in Tabs \cup {NoTab}
  BY <1>1, Settled, Freed DEF Types, BrowserOK
<1>3. hint' \in Hints /\ lastId' \in Nat
  <2>1. CASE hint = None
    BY <1>1, <2>1, HintFacts DEF SaveRefresh, Types, BrowserOK
  <2>2. CASE hint # None
    BY <1>1, <2>2, HintFacts DEF SaveRefresh, Types, BrowserOK
  <2> QED
    BY <2>1, <2>2
<1>4. MemoryOK'
  BY <1>1 DEF RefreshSaved, Types, MemoryOK, Cookies
<1> QED
  BY <1>1, <1>2, <1>3, <1>4 DEF Types, server, ServerOK, BrowserOK, SignalsOK, OpenedOK, OutOK, Named

LEMMA AnswerTypes == ASSUME Types, NEW t \in Tabs, RefreshAnswer(t) PROVE Types'
<1> DEFINE w == wire[t]["refresh"]
<1>1. UNCHANGED <<setting, server, cookie, inn, opened>> /\ Drop(t, "refresh")
  BY DEF RefreshAnswer
<1>2. WiresOK'
  BY <1>1, Dropped DEF Types, Kinds, server
<1>3. w \in WireRec /\ Fit("refresh", w) /\ w.stage \in {"landed", "lost"}
  BY DEF Types, WiresOK, Kinds, RefreshAnswer, Back
<1>4. CASE Settle(t) /\ Free(t) /\ UNCHANGED <<memory, events, hint, lastId, out>>
  BY <1>1, <1>2, <1>4, Settled, Freed, RefresherTypes DEF Types, BrowserOK
<1>5. CASE w.stage # "lost" /\ w.answer \notin {Refused, Busy} /\ RefreshSaved(t, w.answer)
  <2>1. w.answer \in Tokens
    BY <1>3, <1>5 DEF Fit, WireRec, Cookies
  <2> QED
    BY <1>1, <1>2, <1>5, <2>1, SavedTypes
<1>6. CASE (Step(t, "again") \/ Step(t, "settle"))
           /\ UNCHANGED <<memory, events, hint, lastId, holder, out>>
  <2>1. RefOK'
    BY <1>6, Stepped DEF Types
  <2> QED
    BY <1>1, <1>2, <1>6, <2>1, RefresherTypes DEF Types, BrowserOK
<1>7. CASE GiveUp(t)
  BY <1>1, <1>2, <1>7, GaveUp
<1> QED
  BY <1>4, <1>5, <1>6, <1>7 DEF RefreshAnswer

LEMMA LookTypes == ASSUME Types, NEW t \in Tabs, RefreshLook(t) PROVE Types'
<1>1. UNCHANGED <<setting, server, cookie, inn, opened, wire>>
  BY DEF RefreshLook
<1>2. WiresOK'
  BY <1>1, WireKept DEF Types, server, Named
<1>3. CASE Settle(t) /\ Free(t) /\ UNCHANGED <<memory, events, hint, lastId, out>>
  BY <1>1, <1>2, <1>3, Settled, Freed, RefresherTypes DEF Types, BrowserOK
<1>4. CASE Step(t, "again") /\ UNCHANGED <<memory, events, hint, lastId, holder, out>>
  BY <1>1, <1>2, <1>4, Stepped, RefresherTypes DEF Types, BrowserOK
<1>5. CASE GiveUp(t)
  BY <1>1, <1>2, <1>5, GaveUp
<1> QED
  BY <1>3, <1>4, <1>5 DEF RefreshLook

LEMMA CallTypes == ASSUME Types, NEW t \in Tabs, RefreshCall(t) PROVE Types'
<1>1. UNCHANGED <<setting, server, browser, memory, events, out, inn, opened, wire>>
  BY DEF RefreshCall
<1>2. WiresOK'
  BY <1>1, WireKept DEF Types, server, Named
<1>3. [IdleRef EXCEPT !.pc = "waiting", !.base = access[t], !.gen = hint] \in RefRec
  BY IdleRecs DEF RefRec, Types, MemoryOK, BrowserOK
<1>4. RefOK'
  BY <1>3 DEF RefreshCall, Types, RefOK
<1> QED
  BY <1>1, <1>2, <1>4, RefresherTypes DEF Types, BrowserOK, browser

(***************************************************************************)
(* The steps of sign-out, of the other tabs' signals and of sign-in.       *)
(***************************************************************************)
\* A step that leaves the server, the cookie and the requests alone.
LEMMA LocalTypes ==
    ASSUME Types, UNCHANGED <<setting, server, cookie, opened>>, WiresOK', MemoryOK', SignalsOK',
           RefOK', OutOK', hint' \in Hints, lastId' \in Nat, holder' \in Tabs \cup {NoTab}
    PROVE  Types'
BY DEF Types, server, ServerOK, BrowserOK, OpenedOK, Named

LEMMA Parts ==
    ASSUME Types
    PROVE  /\ ServerOK /\ MemoryOK /\ SignalsOK /\ OpenedOK /\ RefOK /\ OutOK /\ WiresOK /\ BrowserOK
           /\ hint \in Hints /\ lastId \in Nat /\ holder \in Tabs \cup {NoTab}
BY DEF Types, BrowserOK

LEMMA Unsent ==
    ASSUME WiresOK, UNCHANGED <<server, wire>> PROVE WiresOK'
BY WireKept DEF server, Named

LEMMA UserOutTypes == ASSUME Types, NEW t \in Tabs, UserSignOut(t) PROVE Types'
<1>1. UNCHANGED <<setting, server, browser, user, events, inn, opened, wire>>
  BY DEF UserSignOut
<1>2. WiresOK' /\ RefOK' /\ OutOK'
  BY <1>1, Parts, Unsent, Staled, SignOutBegun, HintFacts DEF UserSignOut
<1>3. MemoryOK' /\ SignalsOK'
  BY <1>1, Parts, HintFacts DEF UserSignOut, EndHere, MemoryOK, SignalsOK, events
<1> QED
  BY <1>1, <1>2, <1>3, Parts, LocalTypes DEF browser

LEMMA RefusedTypes == ASSUME Types, NEW t \in Tabs, SessionRefused(t) PROVE Types'
<1>1. UNCHANGED <<setting, server, browser, events, ref, inn, opened, wire>>
  BY DEF SessionRefused
<1>2. WiresOK' /\ RefOK' /\ OutOK'
  BY <1>1, Parts, Unsent, SignOutBegun, HintFacts DEF SessionRefused, RefOK
<1>3. MemoryOK' /\ SignalsOK'
  BY <1>1, Parts, HintFacts DEF SessionRefused, EndHere, MemoryOK, SignalsOK, events
<1> QED
  BY <1>1, <1>2, <1>3, Parts, LocalTypes DEF browser

LEMMA QueueTypes == ASSUME Types, NEW t \in Tabs, SignOutQueue(t) \/ RetrySignOut(t) PROVE Types'
<1>1. UNCHANGED <<setting, server, browser, memory, events, ref, inn, opened, wire>>
  BY DEF SignOutQueue, RetrySignOut
<1>2. WiresOK'
  BY <1>1, Parts, Unsent
<1>3. OutOK'
  BY Parts DEF SignOutQueue, RetrySignOut, OutOK, OutRec
<1>4. MemoryOK' /\ SignalsOK' /\ RefOK'
  BY <1>1, Parts DEF MemoryOK, SignalsOK, RefOK, memory, events
<1> QED
  BY <1>1, <1>2, <1>3, <1>4, Parts, LocalTypes DEF browser

LEMMA SignedOutTypes ==
    ASSUME Types, NEW t \in Tabs, NEW ok, SignedOut(t, ok), UNCHANGED <<mail, inn>>
    PROVE  MemoryOK' /\ SignalsOK' /\ OutOK' /\ hint' \in Hints
<1>1. CASE out' = [out EXCEPT ![t].pc = "failed"] /\ UNCHANGED <<memory, hint, signals>>
  BY <1>1, Parts, ZenonT(60) DEF MemoryOK, SignalsOK, OutOK, OutRec, memory
<1>2. CASE /\ access' = [access EXCEPT ![t] = None]
           /\ ClearHint(t, out[t].id)
           /\ out' = [out EXCEPT ![t] = IdleOut]
           /\ user' = IF out[t].byUser THEN [user EXCEPT ![t] = FALSE] ELSE user
           /\ UNCHANGED ended
  <2>1. SignalsOK' /\ hint' \in Hints
    BY <1>2, Parts, Cleared
  <2>2. OutOK'
    BY <1>2, Parts, IdleRecs DEF OutOK
  <2>3. MemoryOK'
    BY <1>2, Parts, HintFacts DEF MemoryOK
  <2> QED
    BY <2>1, <2>2, <2>3
<1> QED
  BY <1>1, <1>2 DEF SignedOut

LEMMA SendTypes == ASSUME Types, NEW t \in Tabs, SignOutSend(t) PROVE Types'
<1>1. UNCHANGED <<setting, server, cookie, lastId, mail, ref, inn, opened>>
  BY DEF SignOutSend
<1>2. RefOK' /\ UNCHANGED issued
  BY <1>1, Parts DEF RefOK, server
<1>3. CASE SignedOut(t, TRUE) /\ UNCHANGED <<holder, wire>>
  BY <1>1, <1>2, <1>3, Parts, SignedOutTypes, Unsent, LocalTypes
<1>4. CASE /\ out' = [out EXCEPT ![t].pc = "sent", ![t].tries = 1]
           /\ Take(t) /\ Send(t, "logout") /\ UNCHANGED <<memory, hint, signals>>
  <2>1. OutOK'
    BY <1>4, Parts, ZenonT(60) DEF OutOK, OutRec
  <2>2. WiresOK' /\ holder' \in Tabs \cup {NoTab}
    BY <1>2, <1>4, Parts, Sent, Freed DEF Kinds
  <2>3. MemoryOK' /\ SignalsOK'
    BY <1>1, <1>4, Parts DEF MemoryOK, SignalsOK, memory
  <2> QED
    BY <1>1, <1>2, <1>4, <2>1, <2>2, <2>3, Parts, LocalTypes
<1> QED
  BY <1>3, <1>4 DEF SignOutSend

LEMMA OutAnswerTypes == ASSUME Types, NEW t \in Tabs, SignOutAnswer(t) PROVE Types'
<1>1. UNCHANGED <<setting, server, cookie, lastId, mail, ref, inn, opened>>
  BY DEF SignOutAnswer
<1>2. RefOK' /\ UNCHANGED issued
  BY <1>1, Parts DEF RefOK, server
<1>3. CASE \E ok : SignedOut(t, ok) /\ Free(t) /\ Drop(t, "logout")
  <2>1. PICK ok : SignedOut(t, ok) /\ Free(t) /\ Drop(t, "logout")
    BY <1>3
  <2>2. WiresOK' /\ holder' \in Tabs \cup {NoTab}
    BY <1>2, <2>1, Parts, Dropped, Freed DEF Kinds
  <2> QED
    BY <1>1, <1>2, <2>1, <2>2, Parts, SignedOutTypes, LocalTypes
<1>4. CASE /\ Send(t, "logout") /\ out' = [out EXCEPT ![t].tries = 2]
           /\ UNCHANGED <<memory, hint, signals, holder>>
  <2>1. OutOK'
    BY <1>4, Parts DEF OutOK, OutRec
  <2>2. WiresOK'
    BY <1>2, <1>4, Parts, Sent DEF Kinds
  <2>3. MemoryOK' /\ SignalsOK'
    BY <1>1, <1>4, Parts DEF MemoryOK, SignalsOK, memory
  <2> QED
    BY <1>1, <1>2, <1>4, <2>1, <2>2, <2>3, Parts, LocalTypes
<1> QED
  BY <1>3, <1>4 DEF SignOutAnswer

LEMMA ForgetTypes == ASSUME Types, NEW t \in Tabs, ForgetSession(t) PROVE Types'
<1>1. UNCHANGED <<setting, server, cookie, lastId, holder, ended, mail, ref, inn, opened, wire>>
  BY DEF ForgetSession
<1>2. SignalsOK' /\ hint' \in Hints
  BY Parts, Cleared DEF ForgetSession
<1>3. OutOK' /\ RefOK' /\ WiresOK'
  BY <1>1, Parts, IdleRecs, Unsent DEF ForgetSession, OutOK, RefOK
<1>4. MemoryOK'
  BY <1>1, Parts, HintFacts DEF ForgetSession, MemoryOK
<1> QED
  BY <1>1, <1>2, <1>3, <1>4, Parts, LocalTypes

LEMMA SignalTypes == ASSUME Types, NEW t \in Tabs, HandleSignal(t) PROVE Types'
<1>1. UNCHANGED <<setting, server, cookie, lastId, holder, mail, out, inn, opened, wire>>
  BY DEF HandleSignal
<1>2. PICK rest : rest = [signals EXCEPT ![t] = Tail(@)]
  OBVIOUS
<1>3. rest \in [Tabs -> Seq(Nat)]
  BY <1>2, Parts DEF HandleSignal, SignalsOK
<1>4. SignalsOK' /\ hint' \in Hints
  <2>1. CASE signals' = rest /\ UNCHANGED hint
    BY <1>3, <2>1, Parts DEF SignalsOK
  <2>2. CASE /\ hint' = None
             /\ signals' = [u \in Tabs |-> IF u = t \/ hint = None THEN rest[u]
                                           ELSE Append(rest[u], hint[1])]
    BY <1>3, <2>2, Parts, HintFacts DEF SignalsOK
  <2> QED
    BY <1>2, <2>1, <2>2 DEF HandleSignal
<1>5. RefOK'
  BY Parts, Staled DEF HandleSignal, RefOK
<1>6. MemoryOK'
  BY <1>1, Parts, HintFacts, ZenonT(60) DEF HandleSignal, EndHere, MemoryOK
<1>7. OutOK' /\ WiresOK'
  BY <1>1, Parts, Unsent DEF OutOK
<1> QED
  BY <1>1, <1>4, <1>5, <1>6, <1>7, Parts, LocalTypes

LEMMA AdoptTypes == ASSUME Types, NEW t \in Tabs, NEW token \in mail[t], Adopt(t, token) PROVE Types'
<1>1. UNCHANGED <<setting, server, browser, ended, user, signals, jobs, wire>>
  BY DEF Adopt
<1>2. MemoryOK'
  <2>1. token \in Cookies
    BY Parts DEF MemoryOK, Cookies
  <2>2. access' \in [Tabs -> Cookies]
    BY <2>1, Parts DEF Adopt, MemoryOK
  <2>3. mail' \in [Tabs -> SUBSET Tokens]
    BY Parts DEF Adopt, MemoryOK
  <2> QED
    BY <1>1, <2>2, <2>3, Parts DEF MemoryOK, jobs
<1>3. SignalsOK' /\ RefOK' /\ OutOK' /\ WiresOK'
  BY <1>1, Parts, Unsent DEF SignalsOK, RefOK, OutOK, jobs
<1> QED
  BY <1>1, <1>2, <1>3, Parts, LocalTypes DEF browser, jobs

LEMMA SignInTypes ==
    ASSUME Types, NEW t \in Tabs, SignInCall(t) \/ SignInSend(t) \/ ChangePassword(t)
    PROVE  Types'
<1>1. UNCHANGED <<setting, server, cookie, hint, lastId, memory, events, ref, out, opened>>
  BY DEF SignInCall, SignInSend, ChangePassword, browser
<1>2. UNCHANGED issued
  BY <1>1 DEF server
<1>3. WiresOK' /\ holder' \in Tabs \cup {NoTab}
  <2>1. CASE SignInCall(t)
    BY <1>1, <2>1, Parts, Unsent DEF SignInCall, browser
  <2>2. CASE SignInSend(t)
    BY <1>2, <2>2, Parts, Sent, Freed DEF SignInSend, Kinds
  <2>3. CASE ChangePassword(t)
    BY <1>2, <2>3, Parts, Sent DEF ChangePassword, Kinds, browser
  <2> QED
    BY <2>1, <2>2, <2>3
<1>4. MemoryOK'
  BY <1>1, Parts DEF SignInCall, SignInSend, ChangePassword, MemoryOK, memory, events
<1>5. SignalsOK' /\ RefOK' /\ OutOK'
  BY <1>1, Parts DEF SignalsOK, RefOK, OutOK, events
<1> QED
  BY <1>1, <1>3, <1>4, <1>5, Parts, LocalTypes

LEMMA SignInAnswerTypes == ASSUME Types, NEW t \in Tabs, SignInAnswer(t) PROVE Types'
<1> DEFINE w == wire[t]["signIn"]
<1>1. UNCHANGED <<setting, server, cookie, user, events, ref, out>> /\ Drop(t, "signIn")
  BY DEF SignInAnswer
<1>2. WiresOK' /\ RefOK' /\ OutOK' /\ SignalsOK'
  BY <1>1, Parts, Dropped DEF Kinds, RefOK, OutOK, SignalsOK, server, events
<1>3. holder' \in Tabs \cup {NoTab}
  BY Parts, Freed DEF SignInAnswer
<1>4. CASE w.stage = "lost"
  <2>1. UNCHANGED <<access, ended, hint, lastId, opened>>
    BY <1>4 DEF SignInAnswer
  <2>2. MemoryOK'
    BY <1>1, <2>1, Parts DEF SignInAnswer, MemoryOK, events
  <2> QED
    BY <1>1, <1>2, <1>3, <2>1, <2>2, Parts, LocalTypes
<1>5. CASE w.stage # "lost"
  <2>1. w.answer \in Tokens /\ w.answer[1] \in 1..Len(issued)
    BY <1>5, Parts DEF WiresOK, Fit, Kinds, SignInAnswer, Back, Named
  <2>2. /\ access' = [access EXCEPT ![t] = w.answer] /\ SaveSignIn
        /\ opened' = [opened EXCEPT ![t] = @ \cup {<<w.answer[1], lastId + 1>>}]
        /\ ended' = [ended EXCEPT ![t] = FALSE] /\ inn' = [inn EXCEPT ![t] = "idle"]
    BY <1>5 DEF SignInAnswer
  <2>3. MemoryOK'
    <3>1. w.answer \in Cookies
      BY <2>1 DEF Cookies
    <3>2. access' \in [Tabs -> Cookies]
      BY <2>2, <3>1, Parts DEF MemoryOK
    <3> QED
      BY <1>1, <2>2, <3>2, Parts DEF MemoryOK, events
  <2>4. OpenedOK'
    BY <1>1, <2>1, <2>2, Parts DEF OpenedOK, server
  <2>5. hint' \in Hints /\ lastId' \in Nat
    BY <2>2, Parts, HintFacts DEF SaveSignIn
  <2> QED
    BY <1>1, <1>2, <1>3, <2>3, <2>4, <2>5, Parts DEF Types, ServerOK, BrowserOK, Named, server
<1> QED
  BY <1>4, <1>5

LEMMA LoadTypes == ASSUME Types, NEW t \in Tabs, LoadUser(t) PROVE Types'
<1>1. UNCHANGED <<setting, server, browser, access, ended, events, jobs, wire>>
  BY DEF LoadUser
<1>2. MemoryOK'
  BY <1>1, Parts DEF LoadUser, MemoryOK, events, jobs
<1>3. SignalsOK' /\ RefOK' /\ OutOK' /\ WiresOK'
  BY <1>1, Parts, Unsent DEF SignalsOK, RefOK, OutOK, jobs, events
<1> QED
  BY <1>1, <1>2, <1>3, Parts, LocalTypes DEF browser, jobs

(***************************************************************************)
(* Types hold in every state.                                              *)
(***************************************************************************)
LEMMA InitTypes == Init => Types
<1> SUFFICES ASSUME Init PROVE Types
  OBVIOUS
<1>1. issued = <<1>> /\ Len(issued) = 1 /\ 1..Len(issued) = {1}
  BY DEF Init
<1>2. cookie \in Tokens /\ <<1, 1>>[1] = 1
  BY TokenFacts DEF Init
<1>3. ServerOK /\ BrowserOK
  BY <1>1, <1>2, HintFacts DEF Init, ServerOK, BrowserOK, Cookies, Named
<1>4. MemoryOK /\ SignalsOK /\ OpenedOK
  BY <1>1, HintFacts DEF Init, MemoryOK, SignalsOK, OpenedOK
<1>5. RefOK /\ OutOK
  BY IdleRecs DEF Init, RefOK, OutOK
<1>6. WiresOK
  BY IdleRecs, IdleFits DEF Init, WiresOK
<1> QED
  BY <1>3, <1>4, <1>5, <1>6 DEF Types

LEMMA NextTypes == Types /\ [Next]_vars => Types'
<1> SUFFICES ASSUME Types, [Next]_vars PROVE Types'
  OBVIOUS
<1>1. ASSUME NEW t \in Tabs, Server(t) PROVE Types'
  BY <1>1, CheckTypes, IssueTypes, LogoutTypes, SignInServedTypes DEF Server
<1>2. ASSUME NEW t \in Tabs, Refresher(t) PROVE Types'
  BY <1>2, StartTypes, HandedTypes, AnswerTypes, LookTypes, AgainTypes DEF Refresher
<1>3. ASSUME NEW t \in Tabs, SignOut(t) PROVE Types'
  BY <1>3, QueueTypes, SendTypes, OutAnswerTypes DEF SignOut
<1>4. ASSUME NEW t \in Tabs, SignIn(t) PROVE Types'
  BY <1>4, SignInTypes, SignInAnswerTypes DEF SignIn
<1>5. ASSUME NEW t \in Tabs, \/ \E kind \in Kinds : Land(t, kind)
                             \/ \E token \in mail[t] : Adopt(t, token)
                             \/ HandleSignal(t)
      PROVE  Types'
  BY <1>5, LandTypes, AdoptTypes, SignalTypes
<1>6. ASSUME NEW t \in Tabs, \/ RefreshCall(t) \/ UserSignOut(t) \/ SessionRefused(t)
                             \/ RetrySignOut(t) \/ ForgetSession(t)
                             \/ SignInCall(t) \/ ChangePassword(t) \/ LoadUser(t)
      PROVE  Types'
  BY <1>6, CallTypes, UserOutTypes, RefusedTypes, QueueTypes, ForgetTypes, SignInTypes, LoadTypes
<1>7. ASSUME NEW t \in Tabs, Fail(t) \/ TimeOut(t) \/ Reload(t) PROVE Types'
  BY <1>7, FailTypes, TimeOutTypes, ReloadTypes
<1>8. CASE UNCHANGED vars
  <2>1. UNCHANGED <<setting, server, browser, memory, events, jobs, wire>>
    BY <1>8 DEF vars
  <2>2. WiresOK' /\ MemoryOK' /\ SignalsOK' /\ RefOK' /\ OutOK'
    BY <2>1, Parts, Unsent DEF MemoryOK, SignalsOK, RefOK, OutOK, memory, events, jobs
  <2> QED
    BY <2>1, <2>2, Parts, LocalTypes DEF browser, jobs
<1> QED
  BY <1>1, <1>2, <1>3, <1>4, <1>5, <1>6, <1>7, <1>8, LateTypes DEF Next

\* The server's, the browser's and the tabs' state keep their types, for any
\* number of tabs, of sessions and of faults.
THEOREM TypeCorrect == Spec => []TypeOK
<1>1. Types => TypeOK
  BY SMTT(60) DEF Types, TypeOK, ServerOK, BrowserOK, MemoryOK, SignalsOK, OpenedOK, RefOK, RefRec,
         OutOK, OutRec, WiresOK, WireRec
<1> QED
  BY <1>1, InitTypes, NextTypes, PTL DEF Spec

(***************************************************************************)
(* A tab that signed out.                                                  *)
(***************************************************************************)
\* Once a tab has ended its session it has no token, and the answer of a refresh
\* still in flight will be dropped.
Ended == \A t \in Tabs : ended[t] => access[t] = None /\ (ref[t].pc = "idle" \/ ref[t].stale)

\* A refresher step either ends the refresh or keeps its "stale" mark.
Moves(t) ==
    \/ ref' = [ref EXCEPT ![t] = IdleRef]
    \/ \E pc : ref' = [ref EXCEPT ![t].pc = pc] \/ ref' = [ref EXCEPT ![t].pc = pc, ![t].before = hint]

LEMMA MovesKeepEnded ==
    ASSUME RefOK, Ended, NEW t \in Tabs, Moves(t), UNCHANGED <<access, ended>>,
           ref[t].pc # "idle" \/ ref'[t].pc = "idle"
    PROVE  Ended'
<1>1. ASSUME NEW u \in Tabs PROVE ref'[u] = IdleRef \/ (ref'[u].stale = ref[u].stale /\ (u = t \/ ref'[u] = ref[u]))
  <2>1. CASE u # t
    BY <2>1 DEF Moves, RefOK
  <2>2. CASE u = t
    BY <2>2, ZenonT(60) DEF Moves, RefOK, RefRec
  <2> QED
    BY <2>1, <2>2
<1> QED
  BY <1>1 DEF Ended, IdleRef

LEMMA NextEnded == Types /\ Ended /\ [Next]_vars => Ended'
<1> SUFFICES ASSUME Types, Ended, [Next]_vars PROVE Ended'
  OBVIOUS
<1> USE Parts DEF MemoryOK, RefOK
<1>1. ASSUME UNCHANGED <<memory, ref>> PROVE Ended'
  BY <1>1 DEF Ended, memory
<1>2. ASSUME NEW t \in Tabs, Server(t) \/ SignOutQueue(t) \/ RetrySignOut(t) \/ SignInCall(t) \/ SignInSend(t)
                             \/ ChangePassword(t) \/ Fail(t) \/ TimeOut(t)
      PROVE  Ended'
  BY <1>1, <1>2 DEF Server, CheckRefresh, IssueRefresh, ServeLogout, ServeSignIn, SignOutQueue,
     RetrySignOut,
        SignInCall, SignInSend, ChangePassword, Fail, TimeOut, jobs
<1>3. ASSUME NEW t \in Tabs, (\E kind \in Kinds : Land(t, kind)) \/ LoadUser(t) PROVE Ended'
  BY <1>3 DEF Land, LoadUser, Ended, memory, jobs
<1>4. ASSUME ServeLate PROVE Ended'
  BY <1>1, <1>4 DEF ServeLate, jobs
<1>5. ASSUME NEW t \in Tabs, SignOutSend(t) \/ SignOutAnswer(t) \/ ForgetSession(t) PROVE Ended'
  BY <1>5 DEF SignOutSend, SignOutAnswer, ForgetSession, SignedOut, Ended, memory
<1>6. ASSUME NEW t \in Tabs, RefreshCall(t) PROVE Ended'
  BY <1>6 DEF RefreshCall, HasSession, IdleRef, Ended, memory
<1>7. ASSUME NEW t \in Tabs, RefreshStart(t) \/ RefreshHanded(t) \/ RefreshAgain(t) PROVE Ended'
  <2>1. UNCHANGED memory
    BY <1>7 DEF RefreshStart, RefreshHanded, RefreshAgain
  <2>2. Moves(t)
    BY <1>7 DEF RefreshStart, RefreshHanded, RefreshAgain, Run, Settle, Step, Attempt, Moves
  <2> QED
    BY <1>7, <2>1, <2>2, MovesKeepEnded DEF memory, RefreshStart, RefreshHanded, RefreshAgain
<1>8. ASSUME NEW t \in Tabs, RefreshAnswer(t) \/ RefreshLook(t) PROVE Ended'
  <2>1. Moves(t)
    BY <1>8 DEF RefreshAnswer, RefreshLook, RefreshSaved, GiveUp, Settle, Step, Moves
  <2>2. CASE UNCHANGED memory
    BY <1>8, <2>1, <2>2, MovesKeepEnded DEF memory, RefreshAnswer, RefreshLook
  <2>3. CASE \E token : RefreshSaved(t, token)
    BY <2>3 DEF RefreshSaved, Settle, Ended
  <2>4. CASE GiveUp(t)
    BY <2>4 DEF GiveUp, EndHere, Settle, IdleRef, Ended
  <2> QED
    BY <1>8, <2>2, <2>3, <2>4 DEF RefreshAnswer, RefreshLook
<1>9. ASSUME NEW t \in Tabs, UserSignOut(t) \/ SessionRefused(t) \/ HandleSignal(t) PROVE Ended'
  <2>1. ASSUME ref' = Stale(t), NEW u \in Tabs
        PROVE  /\ u = t => ref'[u].pc = "idle" \/ ref'[u].stale
               /\ u # t => ref'[u] = ref[u]
    <3>1. ref \in [Tabs -> RefRec]
      BY DEF RefOK
    <3>2. CASE u # t
      BY <2>1, <3>1, <3>2 DEF Stale
    <3>3. CASE u = t
      <4>1. ref'[t] = [ref[t] EXCEPT !.stale = ref[t].pc # "idle"] /\ ref[t] \in RefRec
        BY <2>1, <3>1 DEF Stale
      <4>2. ref'[t].pc = ref[t].pc /\ ref'[t].stale = (ref[t].pc # "idle")
        BY <4>1 DEF RefRec
      <4> QED
        BY <3>3, <4>2
    <3> QED
      BY <3>2, <3>3
  <2>2. CASE EndHere(t) /\ ref' = Stale(t)
    BY <2>1, <2>2 DEF EndHere, Ended
  <2>3. CASE EndHere(t) /\ ref[t].pc = "idle" /\ UNCHANGED ref
    BY <2>3 DEF EndHere, Ended
  <2>4. CASE UNCHANGED <<access, ended, ref>>
    BY <2>4 DEF Ended
  <2> QED
    BY <1>9, <2>2, <2>3, <2>4 DEF UserSignOut, SessionRefused, HandleSignal
<1>10. ASSUME NEW t \in Tabs, SignInAnswer(t) \/ Reload(t) PROVE Ended'
  BY <1>10 DEF SignInAnswer, Reload, IdleRef, Ended
<1>11. ASSUME NEW t \in Tabs, \E token \in mail[t] : Adopt(t, token) PROVE Ended'
  BY <1>11 DEF Adopt, Ended, jobs
<1>12. CASE UNCHANGED vars
  BY <1>1, <1>12 DEF vars, jobs
<1> QED
  BY <1>2, <1>3, <1>4, <1>5, <1>6, <1>7, <1>8, <1>9, <1>10, <1>11, <1>12
     DEF Next, Refresher, SignOut, SignIn

\* No refresh that lands late and no token another tab shares brings a session
\* back to a tab that signed out (authTokens.js: the epoch of endHere, adopt):
\* only a sign-in or a password change of its own does.
THEOREM SignedOutStaysOut == Spec => EndedTabGetsNoToken
<1>1. Init => Ended
  BY DEF Init, Ended
<1>2. ASSUME Types, Ended, [Next]_vars, NEW t \in Tabs, ended[t], access'[t] # None
      PROVE  inn[t] \in {"sent", "changing"}
  <2> USE <1>2, Parts DEF MemoryOK
  <2>1. access[t] = None /\ (ref[t].pc = "idle" \/ ref[t].stale)
    BY DEF Ended
  <2>2. access'[t] # access[t]
    BY <2>1
  <2>3. ASSUME NEW u \in Tabs, Server(u) \/ SignOutQueue(u) \/ RetrySignOut(u) \/ SignInCall(u) \/ SignInSend(u)
                               \/ ChangePassword(u) \/ Fail(u) \/ TimeOut(u) \/ RefreshCall(u)
                               \/ RefreshStart(u) \/ RefreshHanded(u) \/ RefreshAgain(u)
        PROVE  FALSE
    BY <2>2, <2>3, SMTT(60) DEF Server, CheckRefresh, IssueRefresh, ServeLogout, ServeSignIn,
       SignOutQueue, RetrySignOut,
        SignInCall, SignInSend, ChangePassword, Fail, TimeOut, RefreshCall, RefreshStart, RefreshHanded,
        RefreshAgain, memory
  <2>4. ASSUME NEW u \in Tabs, \/ \E kind \in Kinds : Land(u, kind)
                               \/ \E token \in mail[u] : Adopt(u, token)
                               \/ LoadUser(u) \/ Reload(u) \/ UserSignOut(u) \/ SessionRefused(u)
                               \/ SignOutSend(u) \/ SignOutAnswer(u) \/ ForgetSession(u) \/ HandleSignal(u)
        PROVE  FALSE
    BY <2>2, <2>4 DEF Land, Adopt, LoadUser, Reload, UserSignOut, SessionRefused, SignOutSend,
       SignOutAnswer,
        SignedOut, ForgetSession, HandleSignal, EndHere, memory
  <2>5. ASSUME NEW u \in Tabs, RefreshAnswer(u) \/ RefreshLook(u) PROVE FALSE
    BY <2>1, <2>2, <2>5 DEF RefreshAnswer, RefreshLook, RefreshSaved, GiveUp, EndHere, memory
  <2>6. ASSUME NEW u \in Tabs, SignInAnswer(u) PROVE inn[t] \in {"sent", "changing"}
    BY <2>2, <2>6 DEF SignInAnswer
  <2>7. UNCHANGED vars \/ ServeLate => FALSE
    BY <2>2 DEF ServeLate, vars, memory
  <2> QED
    BY <2>3, <2>4, <2>5, <2>6, <2>7 DEF Next, Refresher, SignOut, SignIn
<1>3. Types /\ Ended /\ [Next]_vars =>
        [\A t \in Tabs : ended[t] /\ access'[t] # None => inn[t] \in {"sent", "changing"}]_vars
  BY <1>2
<1> QED
  BY <1>1, <1>3, InitTypes, NextTypes, NextEnded, PTL DEF Spec, EndedTabGetsNoToken
=============================================================================
