-------------------------- MODULE AuthLockTheorems --------------------------
(***************************************************************************)
(* AuthSession, proved: what the tabs' common lock is for.                  *)
(*                                                                          *)
(* First, that no tab sends a cookie that was rotated away                  *)
(* (NoUsedCookieIsSent): whoever has a request under way holds the lock, so *)
(* the cookie it sent stays the browser's until its answer lands, and only  *)
(* that answer replaces a token that was used.                              *)
(*                                                                          *)
(* Then, whatever is lost, times out or is reloaded and also when passwords *)
(* change (RejectedRefreshEndsDeadSession, ConfirmedSignOutLeavesNoCookie,  *)
(* SignOutSparesNewerSignIn): leaving password changes aside, the cookie is *)
(* of the last sign-in kept (Newest), a sign-out under way is of the        *)
(* session the hint tells of (Ending), and a rejected refresh carried the   *)
(* cookie that is still there (Rejections).  Without Web Locks, while tabs   *)
(* only refresh, the successor of a cookie that was turned down is either    *)
(* in the hands of another tab or not yet in the browser (Contest).          *)
(***************************************************************************)
EXTENDS AuthSessionTheorems

(***************************************************************************)
(* The steps the property speaks about: Web Locks, no fault, no password    *)
(* change.                                                                 *)
(***************************************************************************)
Calm == locks /\ faults = 0 /\ changed = {} /\ \A t \in Tabs : inn[t] # "changing"

\* What only a fault or a password change can bring about.
Traces ==
    /\ faults \in Nat
    /\ late # {} => faults # 0
    /\ \A t \in Tabs, k \in Kinds : wire[t][k].stage = "lost" => faults # 0
    /\ \A t \in Tabs :
        inn[t] = "changing" /\ wire[t]["signIn"].stage \in {"answered", "landed"} => changed # {}

(***************************************************************************)
(* The lock: at most one call of one tab is inside, and it holds the lock.  *)
(***************************************************************************)
Inside(t, k) ==
    \/ k = "refresh" /\ ref[t].pc \in {"handoff", "first", "settle", "again", "second"}
    \/ k = "logout" /\ out[t].pc = "sent"
    \/ k = "signIn" /\ inn[t] = "sent"

Exclusive ==
    \A t \in Tabs, k \in Kinds : Inside(t, k) =>
        /\ holder = t
        /\ \A u \in Tabs, j \in Kinds : Inside(u, j) => u = t /\ j = k

\* Only the call that is inside has a request under way.
OnlyInside ==
    \A t \in Tabs, k \in Kinds : wire[t][k].stage # "none" =>
        Inside(t, k) /\ (k = "refresh" => ref[t].pc \in {"first", "second"})

(***************************************************************************)
(* The cookie.                                                             *)
(***************************************************************************)
\* Not used up, or of a session that is over anyway.
Fresh(x) == x \in Tokens => x \notin spent \/ x[1] \in revoked

\* The server issued it.
Known(x) == x \in Tokens => x[1] \in 1..Len(issued) /\ x[2] <= issued[x[1]]

AllKnown ==
    /\ Known(cookie) /\ \A x \in spent : Known(x)
    /\ \A t \in Tabs, k \in Kinds : Known(wire[t][k].carried) /\ Known(wire[t][k].answer)

\* A refresh has been answered with the next token.
Rotating(t) == wire[t]["refresh"].stage = "answered" /\ wire[t]["refresh"].answer \notin {Refused, Busy}

CookieFresh ==
    /\ Fresh(cookie) \/ \E t \in Tabs : Rotating(t)
    /\ \A t \in Tabs, k \in Kinds : wire[t][k].stage = "answered" => Fresh(wire[t][k].answer)

CarriesCookie ==
    \A t \in Tabs : wire[t]["refresh"].stage \in {"sent", "checked"} =>
        wire[t]["refresh"].carried = cookie

Orderly == Exclusive /\ OnlyInside /\ AllKnown /\ CookieFresh /\ CarriesCookie

\* At the moment a refresh is sent its cookie is the browser's, and no other
\* refresh is being answered: the cookie is fresh.
LEMMA OrderlyIsEnough == Types /\ (Calm => Orderly) => NoUsedCookieIsSent
<1> SUFFICES ASSUME Types, Orderly, NEW t \in Tabs, wire[t]["refresh"].stage = "sent"
             PROVE  wire[t]["refresh"].carried \notin spent \/ wire[t]["refresh"].carried[1] \in revoked
  BY DEF NoUsedCookieIsSent, Calm
<1>1. wire[t]["refresh"].carried = cookie
  BY DEF Orderly, CarriesCookie
<1>2. Inside(t, "refresh")
  BY DEF Orderly, OnlyInside, Kinds
<1>3. ASSUME NEW u \in Tabs, Rotating(u) PROVE FALSE
  <2>1. Inside(u, "refresh")
    BY <1>3 DEF Orderly, OnlyInside, Kinds, Rotating
  <2>2. u = t
    BY <1>2, <2>1 DEF Orderly, Exclusive, Kinds
  <2> QED
    BY <1>3, <2>2 DEF Rotating
<1>4. Fresh(cookie)
  BY <1>3 DEF Orderly, CookieFresh
<1> QED
  BY <1>1, <1>4 DEF Fresh, Types, ServerOK

(***************************************************************************)
(* Ways to use the lock.                                                   *)
(***************************************************************************)
LEMMA Entered ==
    ASSUME Types, Exclusive, holder = NoTab, NEW t \in Tabs, NEW k \in Kinds, holder' = t,
           \A u \in Tabs, j \in Kinds : Inside(u, j)' => Inside(u, j) \/ (u = t /\ j = k)
    PROVE  Exclusive' /\ \A u \in Tabs, j \in Kinds : ~Inside(u, j)
<1>1. \A u \in Tabs, j \in Kinds : ~Inside(u, j)
  BY TokenFacts DEF Exclusive
<1> QED
  BY <1>1 DEF Exclusive

LEMMA Stayed ==
    ASSUME Exclusive, UNCHANGED holder,
           \A u \in Tabs, j \in Kinds : Inside(u, j)' => Inside(u, j)
    PROVE  Exclusive'
BY DEF Exclusive

LEMMA Left ==
    ASSUME Exclusive, NEW t \in Tabs, NEW k \in Kinds, Inside(t, k), ~Inside(t, k)',
           \A u \in Tabs, j \in Kinds : Inside(u, j)' => Inside(u, j)
    PROVE  Exclusive'
<1>1. \A u \in Tabs, j \in Kinds : ~Inside(u, j)'
  BY DEF Exclusive
<1> QED
  BY <1>1 DEF Exclusive

(***************************************************************************)
(* Ways to use the wire.                                                   *)
(***************************************************************************)
Same == UNCHANGED <<issued, revoked, spent, cookie>>

LEMMA QuietWire ==
    ASSUME Orderly, Same, UNCHANGED wire, Exclusive',
           \A u \in Tabs, j \in Kinds :
               wire[u][j].stage # "none" =>
                   Inside(u, j)' /\ (j = "refresh" => ref'[u].pc \in {"first", "second"})
    PROVE  Orderly'
BY DEF Orderly, Same, OnlyInside, AllKnown, Known, CookieFresh, Fresh, Rotating, CarriesCookie

LEMMA SentWire ==
    ASSUME Types, Orderly, Same, NEW t \in Tabs, NEW k \in Kinds, Send(t, k), Exclusive', Inside(t, k)',
           k = "refresh" => ref'[t].pc \in {"first", "second"},
           wire[t][k].stage # "answered",
           \A u \in Tabs, j \in Kinds : Inside(u, j) => u = t /\ j = k
    PROVE  Orderly'
<1>1. PICK w : w = [stage |-> "sent", carried |-> cookie, answer |-> None]
  OBVIOUS
<1>2. wire' = [wire EXCEPT ![t][k] = w] /\ w.stage = "sent" /\ w.carried = cookie /\ w.answer = None
  BY <1>1 DEF Send
<1>3. wire \in [Tabs -> [Kinds -> WireRec]]
  BY Parts DEF WiresOK
<1>4. wire'[t][k] = w /\ \A u \in Tabs, j \in Kinds : ~(u = t /\ j = k) => wire'[u][j] = wire[u][j]
  BY <1>2, <1>3
<1>5. \A u \in Tabs, j \in Kinds : ~(u = t /\ j = k) => wire[u][j].stage = "none"
  BY DEF Orderly, OnlyInside
<1>6. OnlyInside'
  BY <1>4, <1>5, SMTT(60) DEF OnlyInside
<1>7. AllKnown'
  BY <1>2, <1>4, TokenFacts DEF Orderly, AllKnown, Known, Same
<1>8. CookieFresh'
  <2>1. \A u \in Tabs : ~Rotating(u)
    BY <1>5 DEF Rotating, Kinds
  <2> QED
    BY <1>2, <1>4, <1>5, <2>1 DEF Orderly, CookieFresh, Fresh, Same
<1>9. CarriesCookie'
  BY <1>2, <1>4, <1>5 DEF CarriesCookie, Same, Kinds
<1> QED
  BY <1>6, <1>7, <1>8, <1>9 DEF Orderly

LEMMA DroppedWire ==
    ASSUME Types, Orderly, Same, NEW t \in Tabs, NEW k \in Kinds, Drop(t, k), Exclusive',
           Inside(t, k), wire[t][k].stage # "answered"
    PROVE  Orderly'
<1>1. wire \in [Tabs -> [Kinds -> WireRec]]
  BY Parts DEF WiresOK
<1>2. /\ wire'[t][k] = IdleWire
      /\ \A u \in Tabs, j \in Kinds : ~(u = t /\ j = k) => wire'[u][j] = wire[u][j]
  BY <1>1 DEF Drop
<1>3. \A u \in Tabs, j \in Kinds : ~(u = t /\ j = k) => wire[u][j].stage = "none"
  BY DEF Orderly, OnlyInside, Exclusive
<1>4. OnlyInside'
  BY <1>2, <1>3 DEF OnlyInside, IdleWire
<1>5. AllKnown'
  <2>1. \A x : Known(x)' <=> Known(x)
    BY DEF Known, Same
  <2>2. Known(IdleWire.carried) /\ Known(IdleWire.answer)
    BY TokenFacts DEF Known, IdleWire
  <2>3. ASSUME NEW u \in Tabs, NEW j \in Kinds
        PROVE  Known(wire'[u][j].carried) /\ Known(wire'[u][j].answer)
    <3>1. CASE u = t /\ j = k
      BY <1>2, <2>2, <3>1
    <3>2. CASE ~(u = t /\ j = k)
      BY <1>2, <3>2 DEF Orderly, AllKnown
    <3> QED
      BY <3>1, <3>2
  <2> QED
    BY <2>1, <2>3 DEF Orderly, AllKnown, Same
<1>6. CookieFresh'
  <2>1. \A u \in Tabs : ~Rotating(u)
    BY <1>3 DEF Rotating, Kinds
  <2> QED
    BY <1>2, <1>3, <2>1 DEF Orderly, CookieFresh, Fresh, Same, IdleWire
<1>7. CarriesCookie'
  BY <1>2, <1>3 DEF CarriesCookie, IdleWire, Kinds
<1> QED
  BY <1>4, <1>5, <1>6, <1>7 DEF Orderly

\* The jobs are where they were.
LEMMA SamePlaces ==
    ASSUME UNCHANGED <<ref, out, inn>>
    PROVE  \A u \in Tabs, j \in Kinds : Inside(u, j)' <=> Inside(u, j)
BY DEF Inside

\* One request that is under way moves on.
LEMMA MovedWire ==
    ASSUME Types, Orderly, NEW t \in Tabs, NEW k \in Kinds, NEW w \in WireRec,
           UNCHANGED <<ref, out, inn, holder>>, wire[t][k].stage # "none",
           wire' = [wire EXCEPT ![t][k] = w]
    PROVE  /\ Exclusive' /\ OnlyInside'
           /\ wire'[t][k] = w
           /\ \A u \in Tabs, j \in Kinds : ~(u = t /\ j = k) =>
                wire[u][j].stage = "none" /\ wire'[u][j] = wire[u][j]
<1>1. wire \in [Tabs -> [Kinds -> WireRec]]
  BY Parts DEF WiresOK
<1>2. /\ wire'[t][k] = w
      /\ \A u \in Tabs, j \in Kinds : ~(u = t /\ j = k) => wire'[u][j] = wire[u][j]
  BY <1>1
<1>3. Inside(t, k)
  BY DEF Orderly, OnlyInside
<1>4. \A u \in Tabs, j \in Kinds : ~(u = t /\ j = k) => wire[u][j].stage = "none"
  BY <1>3 DEF Orderly, OnlyInside, Exclusive
<1>5. Exclusive'
  BY Stayed, SamePlaces DEF Orderly
<1>6. OnlyInside'
  BY <1>2, <1>4, SamePlaces DEF Orderly, OnlyInside
<1> QED
  BY <1>2, <1>4, <1>5, <1>6

(***************************************************************************)
(* The server and the browser.                                             *)
(***************************************************************************)
LEMMA CheckOrder == ASSUME Types, Orderly, NEW t \in Tabs, CheckRefresh(t) PROVE Orderly'
<1>1. UNCHANGED <<issued, revoked, spent, cookie, holder, ref, out, inn>>
  BY DEF CheckRefresh, server, browser, jobs
<1>2. PICK old : old = wire[t]["refresh"]
  OBVIOUS
<1>3. old \in WireRec /\ old.stage = "sent" /\ Known(old.carried) /\ Known(old.answer)
  BY <1>2, Parts DEF CheckRefresh, WiresOK, Kinds, Orderly, AllKnown
<1>4. PICK w : w = IF Live(old.carried) THEN [old EXCEPT !.stage = "checked"]
                   ELSE [old EXCEPT !.stage = "answered", !.answer = Refused]
  OBVIOUS
<1>5. /\ w \in WireRec /\ w.stage \in {"checked", "answered"} /\ w.carried = old.carried
      /\ w.stage = "answered" => w.answer = Refused
      /\ w.answer = old.answer \/ w.answer = Refused
  <2>1. CASE Live(old.carried)
    BY <1>3, <1>4, <2>1 DEF WireRec
  <2>2. CASE ~Live(old.carried)
    BY <1>3, <1>4, <2>2 DEF WireRec
  <2> QED
    BY <2>1, <2>2
<1>6. wire' = [wire EXCEPT ![t]["refresh"] = w]
  BY <1>2, <1>4 DEF CheckRefresh
<1>7. /\ Exclusive' /\ OnlyInside' /\ wire'[t]["refresh"] = w
      /\ \A u \in Tabs, j \in Kinds : ~(u = t /\ j = "refresh") =>
            wire[u][j].stage = "none" /\ wire'[u][j] = wire[u][j]
  BY <1>1, <1>2, <1>3, <1>5, <1>6, MovedWire, ZenonT(60) DEF Kinds
<1>8. AllKnown'
  <2>1. \A x : Known(x)' <=> Known(x)
    BY <1>1 DEF Known
  <2>2. Known(w.carried) /\ Known(w.answer)
    <3>1. Known(Refused)
      BY TokenFacts DEF Known
    <3> QED
      BY <1>3, <1>5, <3>1
  <2>3. ASSUME NEW u \in Tabs, NEW j \in Kinds
        PROVE  Known(wire'[u][j].carried) /\ Known(wire'[u][j].answer)
    <3>1. CASE u = t /\ j = "refresh"
      BY <1>7, <2>2, <3>1
    <3>2. CASE ~(u = t /\ j = "refresh")
      BY <1>7, <3>2 DEF Orderly, AllKnown
    <3> QED
      BY <3>1, <3>2
  <2> QED
    BY <1>1, <2>1, <2>3 DEF Orderly, AllKnown
<1>9. CookieFresh'
  <2>1. \A u \in Tabs : ~Rotating(u)
    BY <1>2, <1>3, <1>7 DEF Rotating, Kinds
  <2> QED
    BY <1>1, <1>5, <1>7, <2>1, TokenFacts DEF Orderly, CookieFresh, Fresh
<1>10. CarriesCookie'
  BY <1>1, <1>2, <1>3, <1>5, <1>7 DEF Orderly, CarriesCookie, Kinds
<1> QED
  BY <1>7, <1>8, <1>9, <1>10 DEF Orderly

LEMMA IssueOrder == ASSUME Types, Orderly, NEW t \in Tabs, IssueRefresh(t) PROVE Orderly'
<1>1. UNCHANGED <<revoked, cookie, holder, ref, out, inn>>
  BY DEF IssueRefresh, server, browser, jobs
<1>2. PICK old : old = wire[t]["refresh"]
  OBVIOUS
<1>3. /\ old \in WireRec /\ old.stage = "checked" /\ old.carried = cookie
      /\ cookie \in Tokens /\ Known(cookie)
  BY <1>2, Parts DEF IssueRefresh, WiresOK, Kinds, Orderly, AllKnown, CarriesCookie, Fit
<1>4. PICK s : s = cookie[1]
  OBVIOUS
<1>5. s \in 1..Len(issued) /\ s \in Nat \ {0} /\ issued \in Seq(Nat) /\ cookie[2] <= issued[s]
  BY <1>3, <1>4, Parts, TokenFacts DEF Known, ServerOK
<1>6. PICK a : a = <<s, issued[s] + 1>>
  OBVIOUS
<1>7. a \in Tokens /\ a[1] = s /\ a[2] = issued[s] + 1 /\ issued[s] \in Nat
  BY <1>5, <1>6, TokenFacts
<1>8. spent' = spent \cup {cookie} /\ issued' = [issued EXCEPT ![s] = issued[s] + 1]
  BY <1>2, <1>3, <1>4 DEF IssueRefresh, Issue
<1>9. \A x : Known(x) => Known(x)'
  <2>1. Len(issued') = Len(issued) /\ \A i \in 1..Len(issued) : issued[i] <= issued'[i] /\ issued[i] \in Nat /\ issued'[i] \in Nat
    BY <1>5, <1>8
  <2> QED
    BY <2>1, TokenFacts DEF Known
<1>10. PICK w : w = [old EXCEPT !.stage = "answered", !.answer = a]
  OBVIOUS
<1>11. w \in WireRec /\ w.stage = "answered" /\ w.carried = cookie /\ w.answer = a
  BY <1>3, <1>7, <1>10 DEF WireRec, Cookies
<1>12. wire' = [wire EXCEPT ![t]["refresh"] = w]
  BY <1>2, <1>3, <1>4, <1>6, <1>10, ZenonT(60) DEF IssueRefresh, Answer
<1>13. /\ Exclusive' /\ OnlyInside' /\ wire'[t]["refresh"] = w
       /\ \A u \in Tabs, j \in Kinds : ~(u = t /\ j = "refresh") =>
            wire[u][j].stage = "none" /\ wire'[u][j] = wire[u][j]
  BY <1>1, <1>2, <1>3, <1>11, <1>12, MovedWire, ZenonT(60) DEF Kinds
<1>14. AllKnown'
  <2>1. Known(a)'
    BY <1>5, <1>7, <1>8 DEF Known
  <2> QED
    BY <1>1, <1>3, <1>8, <1>9, <1>11, <1>13, <2>1 DEF Orderly, AllKnown
<1>15. CookieFresh'
  <2>1. a \notin spent'
    <3>1. a \notin spent
      BY <1>7 DEF Orderly, AllKnown, Known
    <3>2. a # cookie
      BY <1>3, <1>5, <1>7, TokenFacts
    <3> QED
      BY <1>8, <3>1, <3>2
  <2>2. Rotating(t)'
    BY <1>7, <1>11, <1>13, TokenFacts DEF Rotating
  <2> QED
    BY <1>11, <1>13, <2>1, <2>2 DEF CookieFresh, Fresh
<1>16. CarriesCookie'
  BY <1>11, <1>13 DEF CarriesCookie, Kinds
<1> QED
  BY <1>13, <1>14, <1>15, <1>16 DEF Orderly

LEMMA LogoutOrder == ASSUME Types, Orderly, NEW t \in Tabs, ServeLogout(t) PROVE Orderly'
<1>1. UNCHANGED <<issued, cookie, holder, ref, out, inn>>
  BY DEF ServeLogout, browser, jobs
<1>2. PICK old : old = wire[t]["logout"]
  OBVIOUS
<1>3. old \in WireRec /\ old.stage = "sent" /\ Known(old.carried)
  BY <1>2, Parts DEF ServeLogout, WiresOK, Kinds, Orderly, AllKnown
<1>4. PICK w : w = [old EXCEPT !.stage = "answered", !.answer = None]
  OBVIOUS
<1>5. w \in WireRec /\ w.stage = "answered" /\ w.carried = old.carried /\ w.answer = None
  BY <1>3, <1>4, HintFacts DEF WireRec
<1>6. wire' = [wire EXCEPT ![t]["logout"] = w]
  BY <1>2, <1>4 DEF ServeLogout, Answer
<1>7. /\ Exclusive' /\ OnlyInside' /\ wire'[t]["logout"] = w
      /\ \A u \in Tabs, j \in Kinds : ~(u = t /\ j = "logout") =>
            wire[u][j].stage = "none" /\ wire'[u][j] = wire[u][j]
  BY <1>1, <1>2, <1>3, <1>5, <1>6, MovedWire, ZenonT(60) DEF Kinds
<1>8. /\ revoked \subseteq revoked' /\ spent' \subseteq spent \cup {old.carried}
      /\ old.carried \in spent' => old.carried \in spent \/ old.carried[1] \in revoked'
  <2>1. Revoke(old.carried)
    BY <1>2 DEF ServeLogout
  <2> QED
    BY <2>1 DEF Revoke
<1>9. AllKnown'
  <2>1. \A x : Known(x)' <=> Known(x)
    BY <1>1 DEF Known
  <2>2. Known(w.carried) /\ Known(w.answer)
    BY <1>3, <1>5, TokenFacts DEF Known
  <2> QED
    BY <1>1, <1>3, <1>7, <1>8, <2>1, <2>2 DEF Orderly, AllKnown
<1>10. CookieFresh'
  <2>1. \A u \in Tabs : ~Rotating(u)
    BY <1>7 DEF Rotating, Kinds
  <2>2. Fresh(cookie)'
    BY <1>1, <1>8, <2>1 DEF Orderly, CookieFresh, Fresh
  <2> QED
    BY <1>5, <1>7, <2>2, TokenFacts DEF CookieFresh, Fresh
<1>11. CarriesCookie'
  BY <1>7 DEF CarriesCookie, Kinds
<1> QED
  BY <1>7, <1>9, <1>10, <1>11 DEF Orderly

LEMMA SignInOrder ==
    ASSUME Types, Orderly, NEW t \in Tabs, ServeSignIn(t) PROVE Orderly'
<1>1. UNCHANGED <<revoked, spent, cookie, holder, ref, out, inn>>
  BY DEF ServeSignIn, browser, jobs
<1>2. PICK old : old = wire[t]["signIn"]
  OBVIOUS
<1>3. old \in WireRec /\ old.stage = "sent" /\ Known(old.carried) /\ issued \in Seq(Nat)
  BY <1>2, Parts DEF ServeSignIn, WiresOK, Kinds, Orderly, AllKnown, ServerOK
<1>4. PICK a : a = <<Len(issued) + 1, 1>>
  OBVIOUS
<1>5. a \in Tokens /\ a[1] = Len(issued) + 1 /\ a[2] = 1 /\ Len(issued) \in Nat
  BY <1>3, <1>4, TokenFacts
<1>6. issued' = Append(issued, 1)
  BY DEF ServeSignIn, OpenSession
<1>7. \A x : Known(x) => Known(x)'
  <2>1. Len(issued') = Len(issued) + 1 /\ \A i \in 1..Len(issued) : issued'[i] = issued[i]
    BY <1>3, <1>6
  <2> QED
    BY <1>5, <2>1, TokenFacts DEF Known
<1>8. PICK w : w = [old EXCEPT !.stage = "answered", !.answer = a]
  OBVIOUS
<1>9. w \in WireRec /\ w.stage = "answered" /\ w.carried = old.carried /\ w.answer = a
  BY <1>3, <1>5, <1>8 DEF WireRec, Cookies
<1>10. wire' = [wire EXCEPT ![t]["signIn"] = w]
  BY <1>2, <1>4, <1>8 DEF ServeSignIn, Answer
<1>11. /\ Exclusive' /\ OnlyInside' /\ wire'[t]["signIn"] = w
       /\ \A u \in Tabs, j \in Kinds : ~(u = t /\ j = "signIn") =>
            wire[u][j].stage = "none" /\ wire'[u][j] = wire[u][j]
  BY <1>1, <1>2, <1>3, <1>9, <1>10, MovedWire, ZenonT(60) DEF Kinds
<1>12. AllKnown'
  <2>1. Known(a)'
    BY <1>3, <1>5, <1>6 DEF Known
  <2> QED
    BY <1>1, <1>3, <1>7, <1>9, <1>11, <2>1 DEF Orderly, AllKnown
<1>13. CookieFresh'
  <2>1. \A u \in Tabs : ~Rotating(u)
    BY <1>11 DEF Rotating, Kinds
  <2>2. a \notin spent
    BY <1>5 DEF Orderly, AllKnown, Known
  <2> QED
    BY <1>1, <1>9, <1>11, <2>1, <2>2 DEF Orderly, CookieFresh, Fresh
<1>14. CarriesCookie'
  BY <1>11 DEF CarriesCookie, Kinds
<1> QED
  BY <1>11, <1>12, <1>13, <1>14 DEF Orderly

LEMMA LandOrder == ASSUME Types, Orderly, NEW t \in Tabs, NEW k \in Kinds, Land(t, k) PROVE Orderly'
<1>1. UNCHANGED <<issued, revoked, spent, holder, ref, out, inn>>
  BY DEF Land, server, jobs
<1>2. PICK old : old = wire[t][k]
  OBVIOUS
<1>3. /\ old \in WireRec /\ old.stage = "answered" /\ Known(old.carried) /\ Known(old.answer)
      /\ Fresh(old.answer)
  BY <1>2, Parts DEF Land, WiresOK, Orderly, AllKnown, CookieFresh
<1>4. PICK w : w = [old EXCEPT !.stage = "landed"]
  OBVIOUS
<1>5. w \in WireRec /\ w.stage = "landed" /\ w.carried = old.carried /\ w.answer = old.answer
  BY <1>3, <1>4 DEF WireRec
<1>6. wire' = [wire EXCEPT ![t][k] = w]
  BY <1>2, <1>4 DEF Land
<1>7. /\ Exclusive' /\ OnlyInside' /\ wire'[t][k] = w
      /\ \A u \in Tabs, j \in Kinds : ~(u = t /\ j = k) =>
            wire[u][j].stage = "none" /\ wire'[u][j] = wire[u][j]
  <2>1. wire[t][k].stage # "none"
    BY DEF Land
  <2>2. UNCHANGED <<ref, out, inn, holder>>
    BY <1>1
  <2>3. w \in WireRec
    BY <1>5
  <2> QED
    BY <1>6, <2>1, <2>2, <2>3, MovedWire, ZenonT(150)
<1>8. cookie' = IF old.answer \in {Refused, Busy} THEN cookie ELSE old.answer
  BY <1>2 DEF Land
<1>9. AllKnown'
  <2>1. \A x : Known(x)' <=> Known(x)
    BY <1>1 DEF Known
  <2>2. Known(cookie')
    BY <1>3, <1>8 DEF Orderly, AllKnown
  <2>3. ASSUME NEW u \in Tabs, NEW j \in Kinds
        PROVE  Known(wire'[u][j].carried) /\ Known(wire'[u][j].answer)
    <3>1. CASE u = t /\ j = k
      BY <1>3, <1>5, <1>7, <3>1
    <3>2. CASE ~(u = t /\ j = k)
      BY <1>7, <3>2 DEF Orderly, AllKnown
    <3> QED
      BY <3>1, <3>2
  <2> QED
    BY <1>1, <2>1, <2>2, <2>3 DEF Orderly, AllKnown
<1>10. CookieFresh'
  <2>1. CASE old.answer \in {Refused, Busy}
    <3>1. \A u \in Tabs : ~Rotating(u)
      BY <1>2, <1>7, <2>1 DEF Rotating, Kinds
    <3>2. Fresh(cookie)'
      BY <1>1, <1>8, <2>1, <3>1 DEF Orderly, CookieFresh, Fresh
    <3> QED
      BY <1>5, <1>7, <3>2 DEF CookieFresh
  <2>2. CASE old.answer \notin {Refused, Busy}
    <3>1. Fresh(cookie)'
      BY <1>1, <1>3, <1>8, <2>2 DEF Fresh
    <3> QED
      BY <1>5, <1>7, <3>1 DEF CookieFresh
  <2> QED
    BY <2>1, <2>2
<1>11. CarriesCookie'
  BY <1>5, <1>7 DEF CarriesCookie, Kinds
<1> QED
  BY <1>7, <1>9, <1>10, <1>11 DEF Orderly

(***************************************************************************)
(* The tabs.                                                               *)
(***************************************************************************)
InsidePcs == {"handoff", "first", "settle", "again", "second"}

\* A job is inside after the step only if it was before.
NoneEnters ==
    \A u \in Tabs :
        /\ ref'[u].pc \in InsidePcs => ref[u].pc \in InsidePcs
        /\ out'[u].pc = "sent" => out[u].pc = "sent"
        /\ inn'[u] = "sent" => inn[u] = "sent"

LEMMA NoneInside ==
    ASSUME NoneEnters PROVE \A u \in Tabs, j \in Kinds : Inside(u, j)' => Inside(u, j)
BY DEF NoneEnters, InsidePcs, Inside

LEMMA QuietStep ==
    ASSUME Types, Orderly, Same, UNCHANGED <<wire, holder>>, NoneEnters,
           \A u \in Tabs :
               /\ ref[u].pc \in {"first", "second"} => ref'[u].pc = ref[u].pc
               /\ out[u].pc = "sent" => out'[u].pc = "sent"
               /\ inn[u] = "sent" => inn'[u] = "sent"
    PROVE  Orderly'
<1>1. Exclusive'
  BY NoneInside, Stayed DEF Orderly
<1>2. \A u \in Tabs, j \in Kinds :
        wire[u][j].stage # "none" => Inside(u, j)' /\ (j = "refresh" => ref'[u].pc \in {"first", "second"})
  BY DEF Orderly, OnlyInside, Inside
<1> QED
  BY <1>1, <1>2, QuietWire

\* The call that is inside leaves; no request of its own is under way.
LEMMA LeavingStep ==
    ASSUME Types, Orderly, Same, UNCHANGED wire, NoneEnters, NEW t \in Tabs, NEW k \in Kinds,
           Inside(t, k), ~Inside(t, k)', wire[t][k].stage = "none"
    PROVE  Orderly'
<1>1. Exclusive'
  BY NoneInside, Left DEF Orderly
<1>2. \A u \in Tabs, j \in Kinds : wire[u][j].stage = "none"
  BY DEF Orderly, OnlyInside, Exclusive
<1> QED
  BY <1>1, <1>2, QuietWire

LEMMA CalmTabOrder ==
    ASSUME Types, Orderly, NEW t \in Tabs,
           \/ RefreshCall(t) \/ UserSignOut(t) \/ SessionRefused(t) \/ SignOutQueue(t) \/ RetrySignOut(t)
           \/ ForgetSession(t) \/ SignInCall(t) \/ LoadUser(t) \/ HandleSignal(t)
           \/ \E token \in mail[t] : Adopt(t, token)
    PROVE  Orderly'
<1> USE Parts DEF RefOK, OutOK, MemoryOK
<1>1. Same /\ UNCHANGED <<wire, holder>>
  BY DEF RefreshCall, UserSignOut, SessionRefused, SignOutQueue, RetrySignOut, ForgetSession,
     SignInCall, LoadUser,
         HandleSignal, Adopt, Same, server, browser
<1>2. ref' = ref \/ ref' = Stale(t)
      \/ (ref[t].pc = "idle" /\ \E b, g : ref' = [ref EXCEPT ![t] = [IdleRef EXCEPT !.pc = "waiting", !.base = b, !.gen = g]])
  BY DEF RefreshCall, UserSignOut, SessionRefused, SignOutQueue, RetrySignOut, ForgetSession,
     SignInCall, LoadUser,
         HandleSignal, Adopt, jobs
<1>3. \A u \in Tabs : ref'[u].pc = ref[u].pc \/ (ref[u].pc = "idle" /\ ref'[u].pc = "waiting")
  <2>1. CASE ref' = ref
    BY <2>1
  <2>2. CASE ref' = Stale(t)
    <3>1. ref'[t] = [ref[t] EXCEPT !.stale = ref[t].pc # "idle"] /\ ref[t] \in RefRec
      BY <2>2 DEF Stale
    <3>2. ref'[t].pc = ref[t].pc /\ \A u \in Tabs : u # t => ref'[u] = ref[u]
      BY <2>2, <3>1 DEF Stale, RefRec
    <3> QED
      BY <3>2
  <2>3. ASSUME ref[t].pc = "idle", NEW b, NEW g,
               ref' = [ref EXCEPT ![t] = [IdleRef EXCEPT !.pc = "waiting", !.base = b, !.gen = g]]
        PROVE  \A u \in Tabs : ref'[u].pc = ref[u].pc \/ (ref[u].pc = "idle" /\ ref'[u].pc = "waiting")
    BY <2>3 DEF IdleRef
  <2> QED
    BY <1>2, <2>1, <2>2, <2>3
<1>4. \A u \in Tabs : out'[u] = out[u] \/ (out[u].pc # "sent" /\ out'[u].pc # "sent")
  BY DEF RefreshCall, UserSignOut, SessionRefused, SignOutQueue, RetrySignOut, ForgetSession,
     SignInCall, LoadUser,
         HandleSignal, Adopt, jobs, SignOutOf, IdleOut, OutRec
<1>5. \A u \in Tabs : inn'[u] = inn[u] \/ (inn[u] # "sent" /\ inn'[u] # "sent")
  BY DEF RefreshCall, UserSignOut, SessionRefused, SignOutQueue, RetrySignOut, ForgetSession,
     SignInCall, LoadUser,
         HandleSignal, Adopt, jobs
<1>6. NoneEnters
  BY <1>3, <1>4, <1>5 DEF NoneEnters, InsidePcs
<1> QED
  BY <1>1, <1>3, <1>4, <1>5, <1>6, QuietStep

\* What the refresher's own moves do to the places.
LEMMA RefPlaces ==
    ASSUME RefOK, NEW t \in Tabs, UNCHANGED <<out, inn>>, NEW pc,
           \/ Settle(t) /\ pc = "idle"
           \/ Step(t, pc)
           \/ Attempt(t, pc)
    PROVE  /\ ref'[t].pc = pc
           /\ \A u \in Tabs : u # t => ref'[u] = ref[u]
           /\ \A u \in Tabs, j \in Kinds : u # t \/ j # "refresh" => (Inside(u, j)' <=> Inside(u, j))
<1>1. ref \in [Tabs -> RefRec]
  BY DEF RefOK
<1>2. \A u \in Tabs : u # t => ref'[u] = ref[u]
  BY <1>1 DEF Settle, Step, Attempt
<1>3. ref'[t].pc = pc
  <2>1. CASE Settle(t) /\ pc = "idle"
    BY <1>1, <2>1 DEF Settle, IdleRef
  <2>2. CASE Step(t, pc)
    <3>1. ref'[t] = [ref[t] EXCEPT !.pc = pc] /\ ref[t] \in RefRec
      BY <1>1, <2>2 DEF Step
    <3> QED
      BY <3>1 DEF RefRec
  <2>3. CASE Attempt(t, pc)
    <3>1. ref'[t] = [ref[t] EXCEPT !.pc = pc, !.before = hint] /\ ref[t] \in RefRec
      BY <1>1, <2>3 DEF Attempt
    <3> QED
      BY <3>1 DEF RefRec
  <2> QED
    BY <2>1, <2>2, <2>3
<1> QED
  BY <1>2, <1>3 DEF Inside

\* The refresher leaves: it was inside and had no request under way, or it drops it.
LEMMA RefLeaves ==
    ASSUME Types, Orderly, Same, NEW t \in Tabs, ref[t].pc \in InsidePcs, Settle(t), UNCHANGED inn,
           \A u \in Tabs : out'[u].pc = "sent" => out[u].pc = "sent",
           \/ UNCHANGED wire /\ wire[t]["refresh"].stage = "none"
           \/ Drop(t, "refresh") /\ wire[t]["refresh"].stage # "answered"
    PROVE  Orderly'
<1>1. ref' = [ref EXCEPT ![t] = IdleRef] /\ ref \in [Tabs -> RefRec]
  BY Parts DEF Settle, RefOK
<1>2. NoneEnters /\ ref'[t].pc = "idle"
  BY <1>1 DEF NoneEnters, InsidePcs, IdleRef
<1>3. Inside(t, "refresh") /\ ~Inside(t, "refresh")'
  BY <1>2 DEF Inside, InsidePcs
<1>4. Exclusive'
  BY <1>2, <1>3, NoneInside, Left DEF Orderly, Kinds
<1> QED
  BY <1>2, <1>3, <1>4, LeavingStep, DroppedWire DEF Kinds

LEMMA RunOrder ==
    ASSUME Types, Orderly, Calm, Same, NEW t \in Tabs, UNCHANGED <<out, inn>>, Run(t),
           \/ ref[t].pc = "waiting" /\ holder = NoTab
           \/ ref[t].pc = "handoff"
    PROVE  Orderly'
<1>1. CASE ref[t].stale /\ ref[t].pc = "waiting"
  <2>1. Settle(t) /\ UNCHANGED <<wire, holder>>
    BY <1>1, TokenFacts DEF Run, Free
  <2>2. ref'[t].pc = "idle" /\ \A u \in Tabs : u # t => ref'[u] = ref[u]
    BY <2>1, Parts, RefPlaces
  <2>3. NoneEnters
    BY <2>2 DEF NoneEnters, InsidePcs
  <2> QED
    BY <1>1, <2>1, <2>2, <2>3, QuietStep
<1>2. CASE ref[t].stale /\ ref[t].pc = "handoff"
  <2>1. Settle(t) /\ UNCHANGED wire
    BY <1>2 DEF Run
  <2>2. wire[t]["refresh"].stage = "none"
    BY <1>2 DEF Orderly, OnlyInside, Kinds
  <2> QED
    BY <1>2, <2>1, <2>2, RefLeaves DEF InsidePcs
<1>3. CASE ~ref[t].stale
  <2>1. Attempt(t, "first") /\ Send(t, "refresh") /\ Take(t)
    BY <1>3 DEF Run, Attempt
  <2>2. /\ ref'[t].pc = "first"
        /\ \A u \in Tabs, j \in Kinds : u # t \/ j # "refresh" => (Inside(u, j)' <=> Inside(u, j))
    BY <2>1, Parts, RefPlaces
  <2>3. holder' = t
    BY <2>1 DEF Take, Calm
  <2>4. Exclusive' /\ \A u \in Tabs, j \in Kinds : Inside(u, j) => u = t /\ j = "refresh"
    <3>1. CASE holder = NoTab
      BY <2>2, <2>3, <3>1, Entered DEF Orderly, Kinds
    <3>2. CASE ref[t].pc = "handoff"
      <4>1. Inside(t, "refresh")
        BY <3>2 DEF Inside
      <4>2. holder = t /\ \A u \in Tabs, j \in Kinds : Inside(u, j) => u = t /\ j = "refresh"
        BY <4>1 DEF Orderly, Exclusive, Kinds
      <4>3. \A u \in Tabs, j \in Kinds : Inside(u, j)' => Inside(u, j)
        BY <2>2, <4>1
      <4> QED
        BY <2>3, <4>2, <4>3, Stayed DEF Orderly
    <3> QED
      BY <3>1, <3>2
  <2>5. wire[t]["refresh"].stage # "answered"
    BY DEF Orderly, OnlyInside, Kinds
  <2>6. Inside(t, "refresh")'
    BY <2>2 DEF Inside
  <2> QED
    BY <2>1, <2>2, <2>4, <2>5, <2>6, SentWire DEF Kinds
<1> QED
  BY <1>1, <1>2, <1>3

LEMMA StartOrder == ASSUME Types, Orderly, Calm, NEW t \in Tabs, RefreshStart(t) PROVE Orderly'
<1>1. Same /\ UNCHANGED <<out, inn>> /\ ref[t].pc = "waiting" /\ holder = NoTab
  BY DEF RefreshStart, Same, server, CanLock, Calm
<1>2. CASE Settle(t) /\ UNCHANGED <<holder, wire>>
  <2>1. ref'[t].pc = "idle" /\ \A u \in Tabs : u # t => ref'[u] = ref[u]
    BY <1>1, <1>2, Parts, RefPlaces
  <2>2. NoneEnters
    BY <1>1, <2>1 DEF NoneEnters, InsidePcs
  <2> QED
    BY <1>1, <1>2, <2>1, <2>2, QuietStep
<1>3. CASE Step(t, "handoff") /\ Take(t) /\ UNCHANGED wire
  <2>1. /\ ref'[t].pc = "handoff"
        /\ \A u \in Tabs, j \in Kinds : u # t \/ j # "refresh" => (Inside(u, j)' <=> Inside(u, j))
    BY <1>1, <1>3, Parts, RefPlaces
  <2>2. holder' = t
    BY <1>3 DEF Take, Calm
  <2>3. Exclusive' /\ \A u \in Tabs, j \in Kinds : ~Inside(u, j)
    BY <1>1, <2>1, <2>2, Entered DEF Orderly, Kinds
  <2>4. \A u \in Tabs, j \in Kinds : wire[u][j].stage = "none"
    BY <2>3 DEF Orderly, OnlyInside
  <2> QED
    BY <1>1, <1>3, <2>3, <2>4, QuietWire
<1>4. CASE Run(t)
  BY <1>1, <1>4, RunOrder
<1> QED
  BY <1>2, <1>3, <1>4 DEF RefreshStart

LEMMA HandedOrder == ASSUME Types, Orderly, Calm, NEW t \in Tabs, RefreshHanded(t) PROVE Orderly'
<1>1. Same /\ UNCHANGED <<out, inn>> /\ ref[t].pc = "handoff"
  BY DEF RefreshHanded, Same, server
<1>2. CASE Settle(t) /\ UNCHANGED wire
  <2>1. wire[t]["refresh"].stage = "none"
    BY <1>1 DEF Orderly, OnlyInside, Kinds
  <2> QED
    BY <1>1, <1>2, <2>1, RefLeaves DEF InsidePcs
<1>3. CASE Run(t)
  BY <1>1, <1>3, RunOrder
<1> QED
  BY <1>2, <1>3 DEF RefreshHanded

LEMMA AgainOrder == ASSUME Types, Orderly, NEW t \in Tabs, RefreshAgain(t) PROVE Orderly'
<1>1. Same /\ UNCHANGED <<out, inn>> /\ ref[t].pc = "again"
  BY DEF RefreshAgain, Same, server
<1>2. wire[t]["refresh"].stage = "none"
  BY <1>1 DEF Orderly, OnlyInside, Kinds
<1>3. CASE Settle(t) /\ UNCHANGED wire
  BY <1>1, <1>2, <1>3, RefLeaves DEF InsidePcs
<1>4. CASE Attempt(t, "second") /\ UNCHANGED holder
  <2>1. /\ ref'[t].pc = "second"
        /\ \A u \in Tabs, j \in Kinds : u # t \/ j # "refresh" => (Inside(u, j)' <=> Inside(u, j))
    BY <1>1, <1>4, Parts, RefPlaces
  <2>2. Inside(t, "refresh") /\ Inside(t, "refresh")'
    BY <1>1, <2>1 DEF Inside
  <2>3. \A u \in Tabs, j \in Kinds : Inside(u, j)' => Inside(u, j)
    BY <2>1, <2>2
  <2>4. Exclusive' /\ \A u \in Tabs, j \in Kinds : Inside(u, j) => u = t /\ j = "refresh"
    BY <1>4, <2>2, <2>3, Stayed DEF Orderly, Exclusive, Kinds
  <2>5. Send(t, "refresh")
    BY <1>4 DEF Attempt
  <2> QED
    BY <1>1, <1>2, <2>1, <2>2, <2>4, <2>5, SentWire DEF Kinds
<1> QED
  BY <1>3, <1>4 DEF RefreshAgain

\* A refresher that gives up starts the sign-out only of a tab whose own is not inside.
LEMMA GaveUpPlaces ==
    ASSUME Types, Orderly, NEW t \in Tabs, ref[t].pc \in InsidePcs, GiveUp(t)
    PROVE  Settle(t) /\ \A u \in Tabs : out'[u].pc = "sent" => out[u].pc = "sent"
<1>1. out \in [Tabs -> OutRec] /\ Settle(t)
  BY Parts DEF OutOK, GiveUp
<1>2. out' = out \/ SignOutOf(t, FALSE, None)
  BY DEF GiveUp
<1> QED
  BY <1>1, <1>2 DEF SignOutOf

LEMMA AnswerOrder == ASSUME Types, Orderly, NEW t \in Tabs, RefreshAnswer(t) PROVE Orderly'
<1>1. /\ Same /\ UNCHANGED inn /\ Drop(t, "refresh") /\ wire[t]["refresh"].stage \in {"landed", "lost"}
      /\ ref[t].pc \in {"first", "second"}
  BY DEF RefreshAnswer, Same, server, Back
<1>2. CASE Settle(t) /\ UNCHANGED out
  BY <1>1, <1>2, RefLeaves DEF InsidePcs
<1>3. CASE GiveUp(t)
  BY <1>1, <1>3, GaveUpPlaces, RefLeaves DEF InsidePcs
<1>4. CASE UNCHANGED <<out, holder>> /\ (Step(t, "again") \/ Step(t, "settle"))
  <2>1. PICK pc \in {"again", "settle"} : Step(t, pc)
    BY <1>4
  <2>2. /\ ref'[t].pc = pc
        /\ \A u \in Tabs, j \in Kinds : u # t \/ j # "refresh" => (Inside(u, j)' <=> Inside(u, j))
    BY <1>1, <1>4, <2>1, Parts, RefPlaces
  <2>3. Inside(t, "refresh")
    BY <1>1 DEF Inside
  <2>4. Exclusive'
    BY <1>4, <2>2, <2>3, Stayed DEF Orderly
  <2> QED
    BY <1>1, <2>3, <2>4, DroppedWire DEF Kinds
<1> QED
  BY <1>2, <1>3, <1>4 DEF RefreshAnswer, RefreshSaved

LEMMA LookOrder == ASSUME Types, Orderly, NEW t \in Tabs, RefreshLook(t) PROVE Orderly'
<1>1. Same /\ UNCHANGED <<inn, wire>> /\ ref[t].pc = "settle"
  BY DEF RefreshLook, Same, server
<1>2. wire[t]["refresh"].stage = "none"
  BY <1>1 DEF Orderly, OnlyInside, Kinds
<1>3. CASE Settle(t) /\ UNCHANGED out
  BY <1>1, <1>2, <1>3, RefLeaves DEF InsidePcs
<1>4. CASE GiveUp(t)
  BY <1>1, <1>2, <1>4, GaveUpPlaces, RefLeaves DEF InsidePcs
<1>5. CASE UNCHANGED <<out, holder>> /\ Step(t, "again")
  <2>1. ref'[t].pc = "again" /\ \A u \in Tabs : u # t => ref'[u] = ref[u]
    BY <1>1, <1>5, Parts, RefPlaces
  <2>2. NoneEnters
    BY <1>1, <1>5, <2>1 DEF NoneEnters, InsidePcs
  <2> QED
    BY <1>1, <1>5, <2>1, <2>2, QuietStep
<1> QED
  BY <1>3, <1>4, <1>5 DEF RefreshLook

LEMMA OutSendOrder == ASSUME Types, Orderly, Calm, NEW t \in Tabs, SignOutSend(t) PROVE Orderly'
<1>1. Same /\ UNCHANGED <<ref, inn>> /\ out[t].pc = "queued" /\ holder = NoTab /\ out \in [Tabs -> OutRec]
  BY Parts DEF SignOutSend, Same, server, CanLock, Calm, OutOK
<1>2. CASE SignedOut(t, TRUE) /\ UNCHANGED <<holder, wire>>
  <2>1. out' = [out EXCEPT ![t] = IdleOut]
    BY <1>2 DEF SignedOut
  <2>2. NoneEnters
    BY <1>1, <2>1 DEF NoneEnters, IdleOut
  <2> QED
    BY <1>1, <1>2, <2>1, <2>2, QuietStep
<1>3. CASE /\ out' = [out EXCEPT ![t].pc = "sent", ![t].tries = 1]
           /\ Take(t) /\ Send(t, "logout")
  <2>1. out'[t].pc = "sent" /\ \A u \in Tabs : u # t => out'[u] = out[u]
    BY <1>1, <1>3 DEF OutRec
  <2>2. Inside(t, "logout")' /\ \A u \in Tabs, j \in Kinds : Inside(u, j)' => Inside(u, j) \/ (u = t /\ j = "logout")
    BY <1>1, <2>1 DEF Inside
  <2>3. holder' = t
    BY <1>3 DEF Take, Calm
  <2>4. Exclusive' /\ \A u \in Tabs, j \in Kinds : ~Inside(u, j)
    BY <1>1, <2>2, <2>3, Entered DEF Orderly, Kinds
  <2>5. wire[t]["logout"].stage # "answered"
    BY <2>4 DEF Orderly, OnlyInside, Kinds
  <2> QED
    BY <1>1, <1>3, <2>2, <2>4, <2>5, SentWire DEF Kinds
<1> QED
  BY <1>2, <1>3 DEF SignOutSend

LEMMA OutAnswerOrder == ASSUME Types, Orderly, NEW t \in Tabs, SignOutAnswer(t) PROVE Orderly'
<1>1. /\ Same /\ UNCHANGED <<ref, inn>> /\ out[t].pc = "sent" /\ out \in [Tabs -> OutRec]
      /\ wire[t]["logout"].stage \in {"landed", "lost"}
  BY Parts DEF SignOutAnswer, Same, server, OutOK, Back
<1>2. Inside(t, "logout")
  BY <1>1 DEF Inside
<1>3. CASE /\ Send(t, "logout") /\ out' = [out EXCEPT ![t].tries = 2] /\ UNCHANGED holder
  <2>1. \A u \in Tabs : out'[u].pc = out[u].pc
    BY <1>1, <1>3 DEF OutRec
  <2>2. \A u \in Tabs, j \in Kinds : Inside(u, j)' <=> Inside(u, j)
    BY <1>1, <2>1 DEF Inside
  <2>3. Exclusive' /\ \A u \in Tabs, j \in Kinds : Inside(u, j) => u = t /\ j = "logout"
    BY <1>2, <1>3, <2>2, Stayed DEF Orderly, Exclusive, Kinds
  <2> QED
    BY <1>1, <1>2, <1>3, <2>2, <2>3, SentWire DEF Kinds
<1>4. CASE \E ok : SignedOut(t, ok) /\ Drop(t, "logout")
  <2>1. out'[t].pc # "sent" /\ \A u \in Tabs : u # t => out'[u] = out[u]
    BY <1>1, <1>4 DEF SignedOut, IdleOut, OutRec
  <2>2. NoneEnters /\ ~Inside(t, "logout")'
    BY <1>1, <2>1 DEF NoneEnters, Inside
  <2>3. Exclusive'
    BY <1>2, <2>2, NoneInside, Left DEF Orderly, Kinds
  <2> QED
    BY <1>1, <1>2, <1>4, <2>3, DroppedWire DEF Kinds
<1> QED
  BY <1>3, <1>4 DEF SignOutAnswer

LEMMA SignInSendOrder == ASSUME Types, Orderly, Calm, NEW t \in Tabs, SignInSend(t) PROVE Orderly'
<1>1. /\ Same /\ UNCHANGED <<ref, out>> /\ holder = NoTab /\ Send(t, "signIn") /\ holder' = t
      /\ inn' = [inn EXCEPT ![t] = "sent"] /\ inn[t] = "waiting"
  BY DEF SignInSend, Same, server, CanLock, Calm, Take
<1>2. Inside(t, "signIn")' /\ \A u \in Tabs, j \in Kinds : Inside(u, j)' => Inside(u, j) \/ (u = t /\ j = "signIn")
  BY <1>1, Parts DEF Inside, MemoryOK
<1>3. Exclusive' /\ \A u \in Tabs, j \in Kinds : ~Inside(u, j)
  BY <1>1, <1>2, Entered DEF Orderly, Kinds
<1>4. wire[t]["signIn"].stage # "answered"
  BY <1>3 DEF Orderly, OnlyInside, Kinds
<1> QED
  BY <1>1, <1>2, <1>3, <1>4, SentWire DEF Kinds

LEMMA SignInAnswerOrder == ASSUME Types, Orderly, Calm, NEW t \in Tabs, SignInAnswer(t) PROVE Orderly'
<1>1. /\ Same /\ UNCHANGED <<ref, out>> /\ Drop(t, "signIn") /\ inn' = [inn EXCEPT ![t] = "idle"]
      /\ inn[t] = "sent" /\ wire[t]["signIn"].stage \in {"landed", "lost"}
  BY DEF SignInAnswer, Same, server, Calm, Back
<1>2. NoneEnters /\ Inside(t, "signIn") /\ ~Inside(t, "signIn")'
  BY <1>1, Parts DEF NoneEnters, Inside, MemoryOK
<1>3. Exclusive'
  BY <1>2, NoneInside, Left DEF Orderly, Kinds
<1> QED
  BY <1>1, <1>2, <1>3, DroppedWire DEF Kinds

(***************************************************************************)
(* Faults and password changes leave their traces.                         *)
(***************************************************************************)
LEMMA TracesKept ==
    ASSUME Types, Traces, UNCHANGED <<late, faults, changed, wire>>,
           \A t \in Tabs : inn'[t] = "changing" => inn[t] = "changing"
    PROVE  Traces'
BY DEF Traces

LEMMA TracesOfRequest ==
    ASSUME Types, Traces, UNCHANGED <<late, faults, changed>>, NEW t \in Tabs, NEW k \in Kinds,
           Send(t, k) \/ Drop(t, k),
           \A u \in Tabs : inn'[u] = "changing" => inn[u] = "changing" \/ (u = t /\ k = "signIn")
    PROVE  Traces'
<1>1. wire \in [Tabs -> [Kinds -> WireRec]]
  BY Parts DEF WiresOK
<1>2. /\ wire'[t][k].stage \in {"sent", "none"}
      /\ \A u \in Tabs, j \in Kinds : ~(u = t /\ j = k) => wire'[u][j] = wire[u][j]
  BY <1>1 DEF Send, Drop, IdleWire
<1> QED
  BY <1>2 DEF Traces, Kinds

LEMMA TracesOfAnswer ==
    ASSUME Types, Traces, UNCHANGED <<late, faults, inn>>, changed \subseteq changed', NEW t \in Tabs, NEW k \in Kinds,
           \E w : wire' = [wire EXCEPT ![t][k] = w] /\ w.stage # "lost",
           k = "signIn" => (inn[t] = "changing" => changed' # {})
    PROVE  Traces'
<1>1. wire \in [Tabs -> [Kinds -> WireRec]]
  BY Parts DEF WiresOK
<1>2. /\ wire'[t][k].stage # "lost"
      /\ \A u \in Tabs, j \in Kinds : ~(u = t /\ j = k) => wire'[u][j] = wire[u][j]
  BY <1>1
<1> QED
  BY <1>2 DEF Traces, Kinds

\* The server's answers do not get lost.
LEMMA ServerTraces == ASSUME Types, Traces, NEW t \in Tabs, Server(t) PROVE Traces'
<1> USE Parts DEF WiresOK
<1>1. CASE CheckRefresh(t)
  <2>1. PICK w : w = IF Live(wire[t]["refresh"].carried) THEN [wire[t]["refresh"] EXCEPT !.stage = "checked"]
                     ELSE [wire[t]["refresh"] EXCEPT !.stage = "answered", !.answer = Refused]
    OBVIOUS
  <2>2. wire[t]["refresh"] \in WireRec
    BY DEF Kinds
  <2>3. w.stage # "lost"
    <3>1. CASE Live(wire[t]["refresh"].carried)
      BY <2>1, <2>2, <3>1 DEF WireRec
    <3>2. CASE ~Live(wire[t]["refresh"].carried)
      BY <2>1, <2>2, <3>2 DEF WireRec
    <3> QED
      BY <3>1, <3>2
  <2>4. UNCHANGED <<late, faults, inn, changed>> /\ wire' = [wire EXCEPT ![t]["refresh"] = w]
    BY <1>1, <2>1 DEF CheckRefresh, server, jobs
  <2> QED
    BY <2>3, <2>4, TracesOfAnswer DEF Kinds
<1>2. ASSUME NEW k \in Kinds, NEW a, Answer(t, k, a)
      PROVE  \E w : wire' = [wire EXCEPT ![t][k] = w] /\ w.stage # "lost"
  <2>1. PICK w : w = [wire[t][k] EXCEPT !.stage = "answered", !.answer = a]
    OBVIOUS
  <2>2. w.stage = "answered"
    BY <2>1 DEF WireRec
  <2> QED
    BY <1>2, <2>1, <2>2 DEF Answer
<1>3. CASE IssueRefresh(t)
  <2>1. \E a : Answer(t, "refresh", a)
    BY <1>3 DEF IssueRefresh
  <2>2. UNCHANGED <<late, faults, inn, changed>>
    BY <1>3 DEF IssueRefresh, jobs
  <2> QED
    BY <1>2, <2>1, <2>2, TracesOfAnswer DEF Kinds
<1>4. CASE ServeLogout(t)
  <2>1. \E a : Answer(t, "logout", a)
    BY <1>4 DEF ServeLogout
  <2>2. UNCHANGED <<late, faults, inn, changed>>
    BY <1>4 DEF ServeLogout, jobs
  <2> QED
    BY <1>2, <2>1, <2>2, TracesOfAnswer DEF Kinds
<1>5. CASE ServeSignIn(t)
  <2>1. \E a : Answer(t, "signIn", a)
    BY <1>5 DEF ServeSignIn
  <2>2. UNCHANGED <<late, faults, inn>> /\ changed \subseteq changed' /\ (inn[t] = "changing" => changed' # {})
    BY <1>5 DEF ServeSignIn, jobs
  <2> QED
    BY <1>2, <2>1, <2>2, TracesOfAnswer DEF Kinds
<1> QED
  BY <1>1, <1>3, <1>4, <1>5 DEF Server

LEMMA LandTraces == ASSUME Types, Traces, NEW t \in Tabs, NEW k \in Kinds, Land(t, k) PROVE Traces'
<1>1. PICK w : w = [wire[t][k] EXCEPT !.stage = "landed"]
  OBVIOUS
<1>2. w.stage = "landed" /\ wire' = [wire EXCEPT ![t][k] = w]
  BY <1>1, Parts DEF Land, WiresOK, WireRec
<1>3. UNCHANGED <<late, faults, inn, changed>>
  BY DEF Land, server, jobs
<1>4. k = "signIn" => (inn[t] = "changing" => changed' # {})
  BY <1>3 DEF Land, Traces
<1> QED
  BY <1>2, <1>3, <1>4, TracesOfAnswer

LEMMA FaultTraces == ASSUME Types, Traces, NEW t \in Tabs, Fail(t) \/ TimeOut(t) \/ Reload(t) PROVE Traces'
<1>1. faults' = faults + 1 /\ faults' \in Nat /\ faults' # 0
  BY DEF Fail, TimeOut, Reload, Fault, Traces
<1>2. wire \in [Tabs -> [Kinds -> WireRec]] /\ inn \in [Tabs -> {"idle", "waiting", "sent", "changing"}]
  BY Parts DEF WiresOK, MemoryOK
<1>3. ASSUME NEW u \in Tabs, inn'[u] = "changing", wire'[u]["signIn"].stage \in {"answered", "landed"}
      PROVE  changed' # {}
  <2>1. CASE Fail(t)
    <3>1. wire'[u]["signIn"] = wire[u]["signIn"] /\ UNCHANGED <<inn, changed>>
      BY <1>2, <2>1 DEF Fail, Answer, jobs, server, Kinds
    <3> QED
      BY <1>3, <3>1 DEF Traces
  <2>2. CASE TimeOut(t)
    <3>1. UNCHANGED <<inn, changed>>
      BY <2>2 DEF TimeOut, jobs
    <3>2. PICK k \in Kinds : wire' = [wire EXCEPT ![t][k].stage = "lost"]
      BY <2>2 DEF TimeOut
    <3>3. CASE u = t /\ k = "signIn"
      <4>1. wire'[u]["signIn"] = [wire[t][k] EXCEPT !.stage = "lost"] /\ wire[t][k] \in WireRec
        BY <1>2, <3>2, <3>3
      <4>2. wire'[u]["signIn"].stage = "lost"
        BY <4>1 DEF WireRec
      <4> QED
        BY <1>3, <4>2
    <3>4. CASE ~(u = t /\ k = "signIn")
      <4>1. wire'[u]["signIn"] = wire[u]["signIn"]
        BY <1>2, <3>2, <3>4 DEF Kinds
      <4> QED
        BY <1>3, <3>1, <4>1 DEF Traces
    <3> QED
      BY <3>3, <3>4
  <2>3. CASE Reload(t)
    <3>1. /\ u # t /\ wire'[u] = wire[u] /\ inn'[u] = inn[u] /\ UNCHANGED changed
      BY <1>2, <1>3, <2>3 DEF Reload
    <3> QED
      BY <1>3, <3>1 DEF Traces
  <2> QED
    BY <2>1, <2>2, <2>3
<1> QED
  BY <1>1, <1>3 DEF Traces

LEMMA TabTraces ==
    ASSUME Types, Traces, NEW t \in Tabs,
           Refresher(t) \/ SignOut(t) \/ SignIn(t) \/ ChangePassword(t)
    PROVE  Traces'
<1> USE Parts DEF MemoryOK
<1>1. UNCHANGED <<late, faults, changed>>
  BY DEF Refresher, SignOut, SignIn, RefreshStart, RefreshHanded, RefreshAnswer, RefreshLook,
     RefreshAgain,
         SignOutQueue, SignOutSend, SignOutAnswer, SignInSend, SignInAnswer, ChangePassword, server
<1>2. CASE Refresher(t) \/ SignOut(t)
  <2>1. UNCHANGED inn
    BY <1>2 DEF Refresher, SignOut, RefreshStart, RefreshHanded, RefreshAnswer, RefreshLook,
       RefreshAgain,
         SignOutQueue, SignOutSend, SignOutAnswer
  <2>2. UNCHANGED wire \/ \E k \in Kinds : Send(t, k) \/ Drop(t, k)
    BY <1>2, ZenonT(60) DEF Refresher, SignOut, RefreshStart, RefreshHanded, RefreshAnswer,
       RefreshLook, RefreshAgain,
         SignOutQueue, SignOutSend, SignOutAnswer, Run, Attempt, Kinds
  <2> QED
    BY <1>1, <2>1, <2>2, TracesKept, TracesOfRequest
<1>3. CASE SignIn(t) \/ ChangePassword(t)
  <2>1. Send(t, "signIn") \/ Drop(t, "signIn")
    BY <1>3 DEF SignIn, SignInSend, SignInAnswer, ChangePassword
  <2>2. \A u \in Tabs : inn'[u] = "changing" => inn[u] = "changing" \/ u = t
    BY <1>3 DEF SignIn, SignInSend, SignInAnswer, ChangePassword
  <2> QED
    BY <1>1, <2>1, <2>2, TracesOfRequest DEF Kinds
<1> QED
  BY <1>2, <1>3

LEMMA NextTraces == ASSUME Types, Traces, [Next]_vars PROVE Traces'
<1>1. ASSUME NEW t \in Tabs,
             \/ RefreshCall(t) \/ UserSignOut(t) \/ SessionRefused(t) \/ RetrySignOut(t)
             \/ ForgetSession(t) \/ SignInCall(t) \/ LoadUser(t) \/ HandleSignal(t)
             \/ \E token \in mail[t] : Adopt(t, token)
      PROVE  Traces'
  <2>1. UNCHANGED <<late, faults, changed, wire>>
    BY <1>1 DEF RefreshCall, UserSignOut, SessionRefused, RetrySignOut, ForgetSession, SignInCall,
       LoadUser,
           HandleSignal, Adopt, server
  <2>2. \A u \in Tabs : inn'[u] = "changing" => inn[u] = "changing"
    BY <1>1, Parts DEF RefreshCall, UserSignOut, SessionRefused, RetrySignOut, ForgetSession,
       SignInCall, LoadUser,
           HandleSignal, Adopt, jobs, MemoryOK
  <2> QED
    BY <2>1, <2>2, TracesKept
<1>2. CASE ServeLate
  BY <1>2 DEF ServeLate, Traces, jobs
<1>3. CASE UNCHANGED vars
  BY <1>3, TracesKept DEF vars, server, jobs
<1> QED
  BY <1>1, <1>2, <1>3, ServerTraces, LandTraces, FaultTraces, TabTraces DEF Next

(***************************************************************************)
(* The invariant.                                                          *)
(***************************************************************************)
\* What a calm state comes from is calm, and its step is one of the calm ones.
LEMMA CalmBefore ==
    ASSUME Types, Traces, [Next]_vars, Calm'
    PROVE  /\ Calm /\ ~ServeLate
           /\ \A t \in Tabs : ~Fail(t) /\ ~TimeOut(t) /\ ~Reload(t) /\ ~ChangePassword(t)
<1>1. /\ faults' = 0 /\ changed' = {} /\ locks' /\ \A t \in Tabs : inn'[t] # "changing"
  BY DEF Calm
<1>2. \A t \in Tabs : ~Fail(t) /\ ~TimeOut(t) /\ ~Reload(t)
  BY <1>1 DEF Fail, TimeOut, Reload, Fault, Traces
<1>3. \A t \in Tabs : ~ChangePassword(t)
  BY <1>1, Parts DEF ChangePassword, MemoryOK
<1>4. UNCHANGED <<setting, faults>> /\ changed \subseteq changed'
  <2>1. ASSUME NEW t \in Tabs, Server(t) \/ (\E kind \in Kinds : Land(t, kind))
        PROVE  UNCHANGED <<setting, faults>> /\ changed \subseteq changed'
    BY <2>1 DEF Server, CheckRefresh, IssueRefresh, ServeLogout, ServeSignIn, Land, server
  <2>2. ASSUME NEW t \in Tabs, Refresher(t)
        PROVE  UNCHANGED <<setting, faults>> /\ changed \subseteq changed'
    BY <2>2 DEF Refresher, RefreshStart, RefreshHanded, RefreshAnswer, RefreshLook, RefreshAgain, server
  <2>3. ASSUME NEW t \in Tabs, SignOut(t) \/ SignIn(t)
        PROVE  UNCHANGED <<setting, faults>> /\ changed \subseteq changed'
    BY <2>3 DEF SignOut, SignIn, SignOutQueue, SignOutSend, SignOutAnswer, SignInSend,
       SignInAnswer, server
  <2>4. ASSUME NEW t \in Tabs, \/ HandleSignal(t) \/ RefreshCall(t) \/ UserSignOut(t)
                               \/ SessionRefused(t) \/ RetrySignOut(t) \/ ForgetSession(t)
                               \/ SignInCall(t) \/ LoadUser(t) \/ \E token \in mail[t] : Adopt(t, token)
        PROVE  UNCHANGED <<setting, faults>> /\ changed \subseteq changed'
    BY <2>4 DEF HandleSignal, RefreshCall, UserSignOut, SessionRefused, RetrySignOut, ForgetSession,
           SignInCall, LoadUser, Adopt, server
  <2>5. CASE ServeLate \/ UNCHANGED vars
    BY <2>5 DEF ServeLate, vars, server
  <2> QED
    BY <1>2, <1>3, <2>1, <2>2, <2>3, <2>4, <2>5 DEF Next
<1>5. faults = 0 /\ changed = {} /\ locks /\ late = {}
  BY <1>1, <1>4 DEF locks, Traces
<1>6. ASSUME NEW t \in Tabs, inn[t] = "changing" PROVE FALSE
  <2>1. ~SignInAnswer(t)
    BY <1>5, <1>6 DEF SignInAnswer, Back, Traces, Kinds
  <2>2. inn'[t] = inn[t]
    <3>1. ASSUME NEW u \in Tabs, Server(u) \/ (\E kind \in Kinds : Land(u, kind))
          PROVE  inn'[t] = inn[t]
      BY <1>6, <2>1, Parts, <3>1 DEF Server, CheckRefresh, IssueRefresh, ServeLogout, ServeSignIn,
         Land, jobs, MemoryOK
    <3>2. ASSUME NEW u \in Tabs, Refresher(u)
          PROVE  inn'[t] = inn[t]
      BY <1>6, <2>1, Parts, <3>2 DEF Refresher, RefreshStart, RefreshHanded, RefreshAnswer,
         RefreshLook, RefreshAgain, jobs, MemoryOK
    <3>3. ASSUME NEW u \in Tabs, SignOut(u) \/ SignIn(u)
          PROVE  inn'[t] = inn[t]
      BY <1>6, <2>1, Parts, <3>3 DEF SignOut, SignIn, SignOutQueue, SignOutSend, SignOutAnswer,
         SignInSend, SignInAnswer, jobs, MemoryOK
    <3>4. ASSUME NEW u \in Tabs, \/ HandleSignal(u) \/ RefreshCall(u) \/ UserSignOut(u)
                                 \/ SessionRefused(u) \/ RetrySignOut(u) \/ ForgetSession(u)
                                 \/ SignInCall(u) \/ LoadUser(u) \/ \E token \in mail[u] : Adopt(u, token)
          PROVE  inn'[t] = inn[t]
      BY <1>6, <2>1, Parts, <3>4 DEF HandleSignal, RefreshCall, UserSignOut, SessionRefused,
         RetrySignOut, ForgetSession,
             SignInCall, LoadUser, Adopt, jobs, MemoryOK
    <3>5. CASE ServeLate \/ UNCHANGED vars
      BY <3>5 DEF ServeLate, vars, jobs
    <3> QED
      BY <1>2, <1>3, <3>1, <3>2, <3>3, <3>4, <3>5 DEF Next
  <2> QED
    BY <1>1, <1>6, <2>2
<1> QED
  BY <1>2, <1>3, <1>5, <1>6 DEF Calm, ServeLate

LEMMA NextOrderly ==
    ASSUME Types, Traces, Calm => Orderly, [Next]_vars, Calm' PROVE Orderly'
<1>1. Calm /\ Orderly
  BY CalmBefore
<1>2. ASSUME NEW t \in Tabs, Server(t) \/ \E kind \in Kinds : Land(t, kind) PROVE Orderly'
  BY <1>1, <1>2, CheckOrder, IssueOrder, LogoutOrder, SignInOrder, LandOrder DEF Server
<1>3. ASSUME NEW t \in Tabs, Refresher(t) PROVE Orderly'
  BY <1>1, <1>3, StartOrder, HandedOrder, AnswerOrder, LookOrder, AgainOrder DEF Refresher
<1>4. ASSUME NEW t \in Tabs, SignOut(t) \/ SignIn(t) PROVE Orderly'
  BY <1>1, <1>4, CalmTabOrder, OutSendOrder, OutAnswerOrder, SignInSendOrder, SignInAnswerOrder
     DEF SignOut, SignIn
<1>5. ASSUME NEW t \in Tabs,
             \/ RefreshCall(t) \/ UserSignOut(t) \/ SessionRefused(t) \/ RetrySignOut(t)
             \/ ForgetSession(t) \/ SignInCall(t) \/ LoadUser(t) \/ HandleSignal(t)
             \/ \E token \in mail[t] : Adopt(t, token)
      PROVE  Orderly'
  BY <1>1, <1>5, CalmTabOrder
<1>6. CASE UNCHANGED vars
  <2>1. Same /\ UNCHANGED <<wire, holder, ref, out, inn>>
    BY <1>6 DEF vars, server, browser, jobs, Same
  <2>2. NoneEnters
    BY <2>1 DEF NoneEnters
  <2> QED
    BY <1>1, <2>1, <2>2, QuietStep
<1> QED
  BY <1>2, <1>3, <1>4, <1>5, <1>6, CalmBefore DEF Next

\* With Web Locks no tab, of any number, sends the refresh endpoint a cookie that
\* was already rotated away, unless an answer was lost or the password changed
\* meanwhile (authTokens.js: underLock, the refresher and signIn; a rotated
\* cookie sent again is what the server takes for a stolen one).
THEOREM RotatedCookieIsNotSent == Spec => []NoUsedCookieIsSent
<1>1. Init => Traces /\ (Calm => Orderly)
  <2> SUFFICES ASSUME Init PROVE Traces /\ Orderly
    OBVIOUS
  <2>1. \A t \in Tabs, k \in Kinds : wire[t][k] = IdleWire
    BY DEF Init
  <2>2. Traces
    BY <2>1 DEF Init, Traces, IdleWire
  <2>3. Exclusive /\ OnlyInside /\ CarriesCookie
    BY <2>1 DEF Init, Exclusive, OnlyInside, CarriesCookie, Inside, IdleRef, IdleOut, IdleWire, Kinds
  <2>4. AllKnown
    BY <2>1, TokenFacts DEF Init, AllKnown, Known, IdleWire
  <2>5. CookieFresh
    BY <2>1 DEF Init, CookieFresh, Fresh, IdleWire
  <2> QED
    BY <2>2, <2>3, <2>4, <2>5 DEF Orderly
<1>2. Types /\ Traces /\ (Calm => Orderly) /\ [Next]_vars => Traces' /\ (Calm => Orderly)'
  BY NextTraces, NextOrderly
<1> QED
  BY <1>1, <1>2, InitTypes, NextTypes, OrderlyIsEnough, PTL DEF Spec

(***************************************************************************)
(* What a step may do, variable by variable.                               *)
(***************************************************************************)
\* Rows are only added.
Rows ==
    /\ UNCHANGED setting /\ Len(issued) <= Len(issued')
    /\ spent \subseteq spent' /\ revoked \subseteq revoked' /\ changed \subseteq changed'
    /\ \A s \in changed' : s \in changed \/ s > Len(issued)

\* The server answers the request of kind k of tab t.
Served(t, k) ==
    LET w == wire[t][k]
        v == wire'[t][k]
    IN
    /\ v.carried = w.carried /\ w.stage \in {"sent", "checked"}
    /\ k = "refresh" => \/ v.answer = Busy
                        \/ v.answer = Refused /\ ~Live(w.carried)
                        \/ v.answer \in Tokens /\ w.carried \in Tokens /\ v.answer[1] = w.carried[1]
    /\ k = "logout" => \/ v.answer = Busy
                       \/ v.answer = None /\ (w.carried = None \/ w.carried[1] \in revoked')
    /\ k = "signIn" =>
        /\ v.answer = <<Len(issued) + 1, 1>> /\ Len(issued') = Len(issued) + 1
        /\ Len(issued) + 1 \in changed' <=> inn[t] = "changing"
        /\ \A u \in Tabs : u # t => wire'[u]["signIn"] = wire[u]["signIn"]

\* What a step may do to a request.
Turn(t, k) ==
    LET w == wire[t][k]
        v == wire'[t][k]
    IN
    \/ v = w
    \/ v.stage \in {"none", "lost"}
    \/ v.stage = "sent" /\ v.carried = cookie /\ cookie' = cookie
    \/ v.stage = "checked" /\ w.stage = "sent" /\ v.carried = w.carried
    \/ v.stage = "answered" /\ Served(t, k)
    \/ /\ v.stage = "landed" /\ w.stage = "answered" /\ v.answer = w.answer /\ v.carried = w.carried
       /\ cookie' = IF w.answer \in {Refused, Busy} THEN cookie ELSE w.answer

Turns == \A t \in Tabs, k \in Kinds : Turn(t, k)

LEMMA OneWire ==
    ASSUME Types, NEW t \in Tabs, NEW k \in Kinds, NEW w, wire' = [wire EXCEPT ![t][k] = w]
    PROVE  /\ wire'[t][k] = w
           /\ \A u \in Tabs, j \in Kinds : ~(u = t /\ j = k) => wire'[u][j] = wire[u][j]
BY Parts DEF WiresOK

LEMMA OneTurn ==
    ASSUME Types, NEW t \in Tabs, NEW k \in Kinds, NEW w, wire' = [wire EXCEPT ![t][k] = w], Turn(t, k)
    PROVE  Turns
BY OneWire DEF Turns, Turn

LEMMA RowsGrow == ASSUME Types, [Next]_vars PROVE Rows
<1>1. issued \in Seq(Nat)
  BY Parts DEF ServerOK
<1>2. ASSUME UNCHANGED <<setting, issued, revoked, spent, changed>> PROVE Rows
  BY <1>1, <1>2 DEF Rows
<1>3. ASSUME NEW token \in Tokens, Named(token), Issue(token), UNCHANGED <<setting, revoked, changed>> PROVE Rows
  BY <1>1, <1>3 DEF Rows, Issue, Named
<1>4. ASSUME NEW token, Revoke(token), UNCHANGED <<setting, issued, changed>> PROVE Rows
  BY <1>1, <1>4 DEF Rows, Revoke
<1>5. ASSUME NEW t \in Tabs, Server(t) PROVE Rows
  <2>1. CASE CheckRefresh(t)
    BY <1>2, <2>1 DEF CheckRefresh, server
  <2>2. CASE IssueRefresh(t)
    BY <1>3, <2>2, Parts DEF IssueRefresh, WiresOK, Fit, Kinds
  <2>3. CASE ServeLogout(t)
    BY <1>4, <2>3 DEF ServeLogout
  <2>4. CASE ServeSignIn(t)
    BY <1>1, <2>4 DEF ServeSignIn, OpenSession, Rows
  <2> QED
    BY <1>5, <2>1, <2>2, <2>3, <2>4 DEF Server
<1>6. CASE ServeLate
  <2>1. PICK r \in late :
          IF r[1] = "logout" THEN Revoke(r[2]) /\ UNCHANGED issued
          ELSE IF Live(r[2]) THEN Issue(r[2]) /\ UNCHANGED revoked
          ELSE UNCHANGED <<issued, revoked, spent>>
    BY <1>6 DEF ServeLate
  <2>2. r[2] \in Tokens /\ Named(r[2]) /\ UNCHANGED <<setting, changed>>
    BY <1>6, Parts, SMTT(60) DEF ServerOK, ServeLate
  <2> QED
    BY <1>2, <1>3, <1>4, <2>1, <2>2
<1>7. ASSUME NEW t \in Tabs, \/ Refresher(t) \/ SignOut(t) \/ SignIn(t)
                             \/ \E kind \in Kinds : Land(t, kind)
                             \/ \E token \in mail[t] : Adopt(t, token)
      PROVE  Rows
  BY <1>2, <1>7 DEF Refresher, RefreshStart, RefreshHanded, RefreshAnswer, RefreshLook, RefreshAgain,
     SignOut, SignOutQueue, SignOutSend, SignOutAnswer, SignIn, SignInSend, SignInAnswer, Land, Adopt,
     server
<1>8. ASSUME NEW t \in Tabs, \/ HandleSignal(t) \/ RefreshCall(t) \/ UserSignOut(t) \/ SessionRefused(t)
                             \/ RetrySignOut(t) \/ ForgetSession(t) \/ SignInCall(t)
                             \/ ChangePassword(t) \/ LoadUser(t) \/ Fail(t) \/ TimeOut(t) \/ Reload(t)
      PROVE  Rows
  BY <1>2, <1>8 DEF HandleSignal, RefreshCall, UserSignOut, SessionRefused, RetrySignOut, ForgetSession,
     SignInCall, ChangePassword, LoadUser, Fail, TimeOut, Reload, server
<1>9. CASE UNCHANGED vars
  BY <1>2, <1>9 DEF vars, server
<1> QED
  BY <1>5, <1>6, <1>7, <1>8, <1>9 DEF Next

LEMMA ServerTurns == ASSUME Types, NEW t \in Tabs, Server(t) PROVE Turns
<1>0. wire \in [Tabs -> [Kinds -> WireRec]] /\ issued \in Seq(Nat) /\ changed \subseteq 1..Len(issued)
  BY Parts DEF WiresOK, ServerOK
<1>1. ASSUME NEW k \in Kinds, NEW a, Answer(t, k, a)
      PROVE  /\ \E v : wire' = [wire EXCEPT ![t][k] = v]
             /\ wire'[t][k].stage = "answered" /\ wire'[t][k].answer = a
             /\ wire'[t][k].carried = wire[t][k].carried
             /\ \A u \in Tabs, j \in Kinds : ~(u = t /\ j = k) => wire'[u][j] = wire[u][j]
  <2>1. PICK v : v = [wire[t][k] EXCEPT !.stage = "answered", !.answer = a]
    OBVIOUS
  <2>2. v.stage = "answered" /\ v.answer = a /\ v.carried = wire[t][k].carried
    BY <1>0, <2>1 DEF WireRec
  <2>3. wire' = [wire EXCEPT ![t][k] = v]
    BY <1>1, <2>1, ZenonT(60) DEF Answer
  <2> QED
    <3>1. wire'[t][k] = v /\ \A u \in Tabs, j \in Kinds : ~(u = t /\ j = k) => wire'[u][j] = wire[u][j]
      BY <1>0, <2>3
    <3> QED
      BY <2>2, <2>3, <3>1
<1>2. CASE CheckRefresh(t)
  <2>1. CASE Live(wire[t]["refresh"].carried)
    <3>1. PICK v : v = [wire[t]["refresh"] EXCEPT !.stage = "checked"]
      OBVIOUS
    <3>2. v.stage = "checked" /\ v.carried = wire[t]["refresh"].carried
      BY <1>0, <3>1 DEF WireRec, Kinds
    <3>3. wire' = [wire EXCEPT ![t]["refresh"] = v] /\ wire[t]["refresh"].stage = "sent"
      BY <1>2, <2>1, <3>1 DEF CheckRefresh
    <3>4. wire'[t]["refresh"] = v
      BY <1>0, <3>3 DEF Kinds
    <3>5. Turn(t, "refresh")
      BY <3>2, <3>3, <3>4 DEF Turn
    <3> QED
      BY <3>3, <3>5, OneTurn DEF Kinds
  <2>2. CASE ~Live(wire[t]["refresh"].carried)
    <3>1. Answer(t, "refresh", Refused) /\ wire[t]["refresh"].stage = "sent"
      BY <1>2, <2>2 DEF CheckRefresh, Answer
    <3>2. Turn(t, "refresh")
      BY <1>1, <2>2, <3>1 DEF Turn, Served, Kinds
    <3> QED
      BY <1>1, <3>1, <3>2, OneTurn DEF Kinds
  <2> QED
    BY <2>1, <2>2
<1>3. CASE IssueRefresh(t)
  <2>1. PICK a : a = <<wire[t]["refresh"].carried[1], issued[wire[t]["refresh"].carried[1]] + 1>>
    OBVIOUS
  <2>2. Answer(t, "refresh", a) /\ wire[t]["refresh"].stage = "checked"
    BY <1>3, <2>1 DEF IssueRefresh
  <2>3. wire[t]["refresh"].carried \in Tokens /\ Named(wire[t]["refresh"].carried)
    BY <2>2, Parts DEF WiresOK, Fit, Kinds
  <2>4. a \in Tokens /\ a[1] = wire[t]["refresh"].carried[1]
    <3>1. wire[t]["refresh"].carried[1] \in Nat \ {0} /\ issued[wire[t]["refresh"].carried[1]] \in Nat
      BY <1>0, <2>3, TokenFacts, SMTT(60) DEF Named
    <3>2. issued[wire[t]["refresh"].carried[1]] + 1 \in Nat \ {0}
      BY <3>1, SMT
    <3> QED
      BY <2>1, <3>1, <3>2, TokenFacts
  <2>5. Turn(t, "refresh")
    BY <1>1, <2>2, <2>3, <2>4 DEF Turn, Served, Kinds
  <2> QED
    BY <1>1, <2>2, <2>5, OneTurn DEF Kinds
<1>4. CASE ServeLogout(t)
  <2>1. Answer(t, "logout", None) /\ wire[t]["logout"].stage = "sent" /\ Revoke(wire[t]["logout"].carried)
    BY <1>4 DEF ServeLogout
  <2>2. wire[t]["logout"].carried = None \/ wire[t]["logout"].carried[1] \in revoked'
    BY <2>1 DEF Revoke
  <2>3. Turn(t, "logout")
    BY <1>1, <2>1, <2>2 DEF Turn, Served, Kinds
  <2> QED
    BY <1>1, <2>1, <2>3, OneTurn DEF Kinds
<1>5. CASE ServeSignIn(t)
  <2>1. /\ Answer(t, "signIn", <<Len(issued) + 1, 1>>) /\ wire[t]["signIn"].stage = "sent"
        /\ Len(issued') = Len(issued) + 1
        /\ changed' = IF inn[t] = "changing" THEN changed \cup {Len(issued) + 1} ELSE changed
    BY <1>0, <1>5 DEF ServeSignIn, OpenSession
  <2>2. Len(issued) + 1 \in changed' <=> inn[t] = "changing"
    BY <1>0, <2>1
  <2>3. Turn(t, "signIn")
    BY <1>1, <2>1, <2>2 DEF Turn, Served, Kinds
  <2> QED
    BY <1>1, <2>1, <2>3, OneTurn DEF Kinds
<1> QED
  BY <1>2, <1>3, <1>4, <1>5 DEF Server

LEMMA NetTurns ==
    ASSUME Types, NEW t \in Tabs,
           (\E k \in Kinds : Land(t, k)) \/ Fail(t) \/ TimeOut(t) \/ Reload(t)
    PROVE  Turns
<1>0. wire \in [Tabs -> [Kinds -> WireRec]]
  BY Parts DEF WiresOK
<1>1. ASSUME NEW k \in Kinds, Land(t, k) PROVE Turns
  <2>1. PICK v : v = [wire[t][k] EXCEPT !.stage = "landed"]
    OBVIOUS
  <2>2. v.stage = "landed" /\ v.answer = wire[t][k].answer /\ v.carried = wire[t][k].carried
    BY <1>0, <2>1 DEF WireRec
  <2>3. wire' = [wire EXCEPT ![t][k] = v] /\ wire[t][k].stage = "answered"
        /\ cookie' = IF wire[t][k].answer \in {Refused, Busy} THEN cookie ELSE wire[t][k].answer
    BY <1>1, <2>1 DEF Land
  <2>4. wire'[t][k] = v
    BY <1>0, <2>3
  <2>5. Turn(t, k)
    BY <2>2, <2>3, <2>4 DEF Turn
  <2> QED
    BY <2>3, <2>5, OneTurn
<1>2. CASE Fail(t)
  <2>1. PICK k \in {"refresh", "logout"} : wire[t][k].stage = "sent" /\ Answer(t, k, Busy)
    BY <1>2 DEF Fail
  <2>2. PICK v : v = [wire[t][k] EXCEPT !.stage = "answered", !.answer = Busy]
    OBVIOUS
  <2>3. v.stage = "answered" /\ v.answer = Busy /\ v.carried = wire[t][k].carried
    BY <1>0, <2>2 DEF WireRec, Kinds
  <2>4. wire' = [wire EXCEPT ![t][k] = v] /\ k \in Kinds /\ k # "signIn"
    BY <2>1, <2>2, ZenonT(60) DEF Answer, Kinds
  <2>5. wire'[t][k] = v
    BY <1>0, <2>4
  <2>6. Turn(t, k)
    BY <2>1, <2>3, <2>4, <2>5 DEF Turn, Served
  <2> QED
    BY <2>4, <2>6, OneTurn
<1>3. CASE TimeOut(t)
  <2>1. PICK k \in Kinds : wire' = [wire EXCEPT ![t][k].stage = "lost"]
    BY <1>3 DEF TimeOut
  <2>2. PICK v : v = [wire[t][k] EXCEPT !.stage = "lost"]
    OBVIOUS
  <2>3. v.stage = "lost"
    BY <1>0, <2>2 DEF WireRec
  <2>4. wire' = [wire EXCEPT ![t][k] = v]
    BY <2>1, <2>2
  <2>5. wire'[t][k] = v
    BY <1>0, <2>4
  <2>6. Turn(t, k)
    BY <2>3, <2>5 DEF Turn
  <2> QED
    BY <2>4, <2>6, OneTurn
<1>4. CASE Reload(t)
  <2>1. wire' = [wire EXCEPT ![t] = [kind \in Kinds |-> IdleWire]]
    BY <1>4 DEF Reload
  <2>2. ASSUME NEW u \in Tabs, NEW k \in Kinds PROVE wire'[u][k] = wire[u][k] \/ wire'[u][k] = IdleWire
    BY <1>0, <2>1
  <2> QED
    BY <2>2 DEF Turns, Turn, IdleWire
<1> QED
  BY <1>1, <1>2, <1>3, <1>4

LEMMA RequestTurns ==
    ASSUME Types, UNCHANGED cookie, NEW t \in Tabs, NEW k \in Kinds, Send(t, k) \/ Drop(t, k)
    PROVE  Turns
<1>0. wire \in [Tabs -> [Kinds -> WireRec]]
  BY Parts DEF WiresOK
<1>1. CASE Send(t, k)
  <2>1. PICK v : v = [stage |-> "sent", carried |-> cookie, answer |-> None]
    OBVIOUS
  <2>2. wire' = [wire EXCEPT ![t][k] = v] /\ v.stage = "sent" /\ v.carried = cookie
    BY <1>1, <2>1 DEF Send
  <2>3. wire'[t][k] = v
    BY <1>0, <2>2
  <2>4. Turn(t, k)
    BY <2>2, <2>3 DEF Turn
  <2> QED
    BY <2>2, <2>4, OneTurn
<1>2. CASE Drop(t, k)
  <2>1. wire' = [wire EXCEPT ![t][k] = IdleWire]
    BY <1>2 DEF Drop
  <2>2. wire'[t][k] = IdleWire
    BY <1>0, <2>1
  <2>3. Turn(t, k)
    BY <2>2 DEF Turn, IdleWire
  <2> QED
    BY <2>1, <2>3, OneTurn
<1> QED
  BY <1>1, <1>2

LEMMA RequestsTurn == ASSUME Types, [Next]_vars PROVE Turns
<1>0. ASSUME UNCHANGED wire PROVE Turns
  BY <1>0 DEF Turns, Turn
<1>1. ASSUME NEW t \in Tabs, Refresher(t) \/ SignOut(t) \/ SignIn(t) \/ ChangePassword(t) PROVE Turns
  <2>1. UNCHANGED cookie
    BY <1>1 DEF Refresher, RefreshStart, RefreshHanded, RefreshAnswer, RefreshLook, RefreshAgain,
       SignOut, SignOutQueue, SignOutSend, SignOutAnswer, SignIn, SignInSend, SignInAnswer,
       ChangePassword, browser
  <2>2. UNCHANGED wire \/ \E k \in Kinds : Send(t, k) \/ Drop(t, k)
    <3>1. CASE Refresher(t)
      BY <3>1, ZenonT(60) DEF Refresher, RefreshStart, RefreshHanded, RefreshAnswer, RefreshLook,
         RefreshAgain, Run, Attempt, Kinds
    <3>2. CASE SignOut(t)
      BY <3>2, ZenonT(60) DEF SignOut, SignOutQueue, SignOutSend, SignOutAnswer, Kinds
    <3>3. CASE SignIn(t) \/ ChangePassword(t)
      BY <3>3 DEF SignIn, SignInSend, SignInAnswer, ChangePassword, Kinds
    <3> QED
      BY <1>1, <3>1, <3>2, <3>3
  <2> QED
    BY <1>0, <2>1, <2>2, RequestTurns
<1>2. ASSUME NEW t \in Tabs, \/ HandleSignal(t) \/ RefreshCall(t) \/ UserSignOut(t) \/ SessionRefused(t)
                             \/ RetrySignOut(t) \/ ForgetSession(t) \/ SignInCall(t) \/ LoadUser(t)
                             \/ \E token \in mail[t] : Adopt(t, token)
      PROVE  Turns
  BY <1>0, <1>2 DEF HandleSignal, RefreshCall, UserSignOut, SessionRefused, RetrySignOut, ForgetSession,
     SignInCall, LoadUser, Adopt
<1>3. CASE ServeLate \/ UNCHANGED vars
  BY <1>0, <1>3 DEF ServeLate, vars
<1> QED
  BY <1>1, <1>2, <1>3, ServerTurns, NetTurns DEF Next

LEMMA OnlyLandingSetsCookie ==
    ASSUME [Next]_vars, cookie' # cookie PROVE \E t \in Tabs, k \in Kinds : Land(t, k)
<1>1. ASSUME NEW t \in Tabs, Server(t) \/ Refresher(t) \/ SignOut(t) \/ SignIn(t) PROVE UNCHANGED cookie
  BY <1>1 DEF Server, CheckRefresh, IssueRefresh, ServeLogout, ServeSignIn,
     Refresher, RefreshStart, RefreshHanded, RefreshAnswer, RefreshLook, RefreshAgain,
     SignOut, SignOutQueue, SignOutSend, SignOutAnswer, SignIn, SignInSend, SignInAnswer, browser
<1>2. ASSUME NEW t \in Tabs, \/ HandleSignal(t) \/ RefreshCall(t) \/ UserSignOut(t) \/ SessionRefused(t)
                             \/ RetrySignOut(t) \/ ForgetSession(t) \/ SignInCall(t)
                             \/ ChangePassword(t) \/ LoadUser(t) \/ Fail(t) \/ TimeOut(t) \/ Reload(t)
                             \/ \E token \in mail[t] : Adopt(t, token)
      PROVE  UNCHANGED cookie
  BY <1>2 DEF HandleSignal, RefreshCall, UserSignOut, SessionRefused, RetrySignOut, ForgetSession,
     SignInCall, ChangePassword, LoadUser, Fail, TimeOut, Reload, Adopt, browser
<1>3. ServeLate \/ UNCHANGED vars => UNCHANGED cookie
  BY DEF ServeLate, vars, browser
<1> QED
  BY <1>1, <1>2, <1>3 DEF Next

(***************************************************************************)
(* Where requests come from.                                               *)
(***************************************************************************)
Places ==
    \A t \in Tabs :
        /\ wire[t]["refresh"].stage # "none" => ref[t].pc \in {"first", "second"}
        /\ wire[t]["signIn"].stage # "none" => inn[t] \in {"sent", "changing"}

\* A step that starts no request: it may drop some.
Starts(t, k) == wire'[t][k].stage # "none" /\ wire[t][k].stage = "none"

LEMMA NetStartsNone ==
    ASSUME Types, NEW t \in Tabs, NEW u \in Tabs, NEW k \in Kinds,
           Server(t) \/ (\E j \in Kinds : Land(t, j)) \/ Fail(t) \/ TimeOut(t) \/ Reload(t)
    PROVE  ~Starts(u, k)
<1>0. wire \in [Tabs -> [Kinds -> WireRec]]
  BY Parts DEF WiresOK
<1>1. ASSUME NEW j \in Kinds, NEW v, wire' = [wire EXCEPT ![t][j] = v], wire[t][j].stage # "none"
      PROVE  ~Starts(u, k)
  BY <1>0, <1>1 DEF Starts
<1>2. CASE Server(t)
  <2>1. ASSUME NEW j \in Kinds, NEW a, Answer(t, j, a)
        PROVE  \E v : wire' = [wire EXCEPT ![t][j] = v]
    BY <2>1 DEF Answer
  <2>2. CASE CheckRefresh(t)
    BY <1>1, <2>2 DEF CheckRefresh, Kinds
  <2>3. CASE IssueRefresh(t)
    BY <1>1, <2>1, <2>3 DEF IssueRefresh, Kinds
  <2>4. CASE ServeLogout(t)
    BY <1>1, <2>1, <2>4 DEF ServeLogout, Kinds
  <2>5. CASE ServeSignIn(t)
    BY <1>1, <2>1, <2>5 DEF ServeSignIn, Kinds
  <2> QED
    BY <1>2, <2>2, <2>3, <2>4, <2>5 DEF Server
<1>3. ASSUME NEW j \in Kinds, Land(t, j) PROVE ~Starts(u, k)
  BY <1>1, <1>3 DEF Land
<1>4. CASE Fail(t)
  <2>1. PICK j \in {"refresh", "logout"} : wire[t][j].stage = "sent" /\ Answer(t, j, Busy)
    BY <1>4 DEF Fail
  <2>2. j \in Kinds /\ \E v : wire' = [wire EXCEPT ![t][j] = v]
    BY <2>1, ZenonT(60) DEF Answer, Kinds
  <2> QED
    BY <1>1, <2>1, <2>2
<1>5. CASE TimeOut(t)
  BY <1>1, <1>5 DEF TimeOut
<1>6. CASE Reload(t)
  BY <1>0, <1>6 DEF Reload, Starts, IdleWire
<1> QED
  BY <1>2, <1>3, <1>4, <1>5, <1>6

LEMMA OtherWires ==
    ASSUME Types, NEW t \in Tabs, NEW k \in Kinds, Send(t, k) \/ Drop(t, k)
    PROVE  /\ \A u \in Tabs, j \in Kinds : ~(u = t /\ j = k) => wire'[u][j] = wire[u][j]
           /\ Send(t, k) => wire'[t][k] = [stage |-> "sent", carried |-> cookie, answer |-> None]
           /\ Drop(t, k) => wire'[t][k].stage = "none"
<1>0. wire \in [Tabs -> [Kinds -> WireRec]]
  BY Parts DEF WiresOK
<1>1. CASE Send(t, k)
  BY <1>0, <1>1 DEF Send, Drop, IdleWire
<1>2. CASE Drop(t, k)
  BY <1>0, <1>2 DEF Send, Drop, IdleWire
<1> QED
  BY <1>1, <1>2

LEMMA RefresherPlaces == ASSUME Types, Places, NEW t \in Tabs, Refresher(t) PROVE Places'
<1> USE Parts DEF RefOK
<1>1. UNCHANGED inn
  BY DEF Refresher, RefreshStart, RefreshHanded, RefreshAnswer, RefreshLook, RefreshAgain
<1>2. ASSUME UNCHANGED wire, ref[t].pc \notin {"first", "second"}, \A u \in Tabs : u # t => ref'[u] = ref[u]
      PROVE  Places'
  BY <1>1, <1>2 DEF Places
<1>3. ASSUME Drop(t, "refresh"), \A u \in Tabs : u # t => ref'[u] = ref[u] PROVE Places'
  BY <1>1, <1>3, OtherWires DEF Places, Kinds
<1>4. ASSUME NEW pc \in {"first", "second"}, Attempt(t, pc) PROVE Places'
  <2>1. /\ \A u \in Tabs, j \in Kinds : ~(u = t /\ j = "refresh") => wire'[u][j] = wire[u][j]
    BY <1>4, OtherWires DEF Attempt, Kinds
  <2>2. ref'[t].pc = pc /\ \A u \in Tabs : u # t => ref'[u] = ref[u]
    BY <1>4, ZenonT(60) DEF Attempt, RefRec
  <2> QED
    BY <1>1, <2>1, <2>2 DEF Places, Kinds
<1>5. ASSUME Settle(t) \/ \E pc : Step(t, pc)
      PROVE  \A u \in Tabs : u # t => ref'[u] = ref[u]
  BY <1>5 DEF Settle, Step
<1>6. CASE RefreshStart(t) \/ RefreshHanded(t) \/ RefreshAgain(t)
  <2>1. ref[t].pc \notin {"first", "second"}
    BY <1>6 DEF RefreshStart, RefreshHanded, RefreshAgain
  <2>2. \/ UNCHANGED wire /\ (Settle(t) \/ \E pc : Step(t, pc))
        \/ \E pc \in {"first", "second"} : Attempt(t, pc)
    BY <1>6, ZenonT(60) DEF RefreshStart, RefreshHanded, RefreshAgain, Run
  <2> QED
    BY <1>2, <1>4, <1>5, <2>1, <2>2
<1>7. CASE RefreshAnswer(t)
  BY <1>3, <1>5, <1>7 DEF RefreshAnswer, RefreshSaved, GiveUp
<1>8. CASE RefreshLook(t)
  BY <1>2, <1>5, <1>8 DEF RefreshLook, GiveUp
<1> QED
  BY <1>6, <1>7, <1>8 DEF Refresher

LEMMA NextPlaces == ASSUME Types, Places, [Next]_vars PROVE Places'
<1>1. ASSUME NEW t \in Tabs, Server(t) \/ (\E j \in Kinds : Land(t, j)) \/ Fail(t) \/ TimeOut(t) PROVE Places'
  <2>1. UNCHANGED <<ref, inn>>
    BY <1>1 DEF Server, CheckRefresh, IssueRefresh, ServeLogout, ServeSignIn, Land, Fail, TimeOut, jobs
  <2>2. \A u \in Tabs, k \in Kinds : wire'[u][k].stage # "none" => wire[u][k].stage # "none"
    BY <1>1, NetStartsNone DEF Starts
  <2> QED
    BY <2>1, <2>2 DEF Places, Kinds
<1>2. ASSUME NEW t \in Tabs, Reload(t) PROVE Places'
  <2>1. /\ \A k \in Kinds : wire'[t][k] = IdleWire
        /\ \A u \in Tabs : u # t => wire'[u] = wire[u] /\ ref'[u] = ref[u] /\ inn'[u] = inn[u]
    BY <1>2, Parts DEF Reload, WiresOK, RefOK, MemoryOK
  <2> QED
    BY <2>1 DEF Places, Kinds, IdleWire
<1>3. ASSUME NEW t \in Tabs, SignOut(t) PROVE Places'
  <2>1. UNCHANGED <<ref, inn>>
    BY <1>3 DEF SignOut, SignOutQueue, SignOutSend, SignOutAnswer
  <2>2. UNCHANGED wire \/ Send(t, "logout") \/ Drop(t, "logout")
    BY <1>3 DEF SignOut, SignOutQueue, SignOutSend, SignOutAnswer
  <2>3. \A u \in Tabs, k \in Kinds : k # "logout" => wire'[u][k] = wire[u][k]
    BY <2>2, OtherWires DEF Kinds
  <2> QED
    BY <2>1, <2>3 DEF Places, Kinds
<1>4. ASSUME NEW t \in Tabs, SignIn(t) \/ ChangePassword(t) PROVE Places'
  <2>1. UNCHANGED ref /\ \A u \in Tabs : u # t => inn'[u] = inn[u]
    BY <1>4, Parts DEF SignIn, SignInSend, SignInAnswer, ChangePassword, MemoryOK
  <2>2. Drop(t, "signIn") \/ (Send(t, "signIn") /\ inn'[t] \in {"sent", "changing"})
    BY <1>4, Parts DEF SignIn, SignInSend, SignInAnswer, ChangePassword, MemoryOK
  <2>3. \A u \in Tabs, j \in Kinds : ~(u = t /\ j = "signIn") => wire'[u][j] = wire[u][j]
    BY <2>2, OtherWires DEF Kinds
  <2>4. wire'[t]["signIn"].stage # "none" => inn'[t] \in {"sent", "changing"}
    BY <2>2, OtherWires DEF Kinds
  <2> QED
    BY <2>1, <2>3, <2>4 DEF Places, Kinds
<1>5. ASSUME NEW t \in Tabs, SignInCall(t) PROVE Places'
  BY <1>5, Parts DEF SignInCall, Places, MemoryOK
<1>6. ASSUME NEW t \in Tabs, \/ HandleSignal(t) \/ UserSignOut(t) \/ RefreshCall(t) \/ SessionRefused(t)
                             \/ RetrySignOut(t) \/ ForgetSession(t) \/ LoadUser(t)
                             \/ \E token \in mail[t] : Adopt(t, token)
      PROVE  Places'
  <2>1. UNCHANGED <<wire, inn>>
    BY <1>6 DEF HandleSignal, UserSignOut, RefreshCall, SessionRefused, RetrySignOut, ForgetSession,
       LoadUser, Adopt, jobs
  <2>2. \A u \in Tabs : ref'[u].pc = ref[u].pc \/ ref[u].pc = "idle"
    <3>1. CASE ref' = ref
      BY <3>1
    <3>2. CASE ref' = Stale(t)
      BY <3>2, Parts, ZenonT(60) DEF Stale, RefOK, RefRec
    <3>3. CASE RefreshCall(t)
      BY <3>3, Parts DEF RefreshCall, RefOK
    <3> QED
      BY <1>6, <3>1, <3>2, <3>3 DEF HandleSignal, UserSignOut, SessionRefused, RetrySignOut,
         ForgetSession, LoadUser, Adopt, jobs
  <2> QED
    BY <2>1, <2>2 DEF Places
<1>7. CASE ServeLate \/ UNCHANGED vars
  BY <1>7 DEF ServeLate, vars, jobs, Places
<1> QED
  BY <1>1, <1>2, <1>3, <1>4, <1>5, <1>6, <1>7, RefresherPlaces DEF Next
(***************************************************************************)
(* The hint, the sign-outs and the refreshers.                             *)
(***************************************************************************)
Told(t, k) == wire[t][k].stage \in {"answered", "landed"}

LEMMA InnMoves ==
    ASSUME Types, Places, [Next]_vars, NEW t \in Tabs, Told(t, "signIn")'
    PROVE  inn'[t] = inn[t]
<1>1. ASSUME NEW u \in Tabs, Server(u) \/ (\E j \in Kinds : Land(u, j)) \/ Fail(u) \/ TimeOut(u) PROVE UNCHANGED inn
  BY <1>1 DEF Server, CheckRefresh, IssueRefresh, ServeLogout, ServeSignIn, Land, Fail, TimeOut, jobs
<1>2. ASSUME NEW u \in Tabs, Refresher(u) \/ SignOut(u) PROVE UNCHANGED inn
  BY <1>2 DEF Refresher, RefreshStart, RefreshHanded, RefreshAnswer, RefreshLook, RefreshAgain,
     SignOut, SignOutQueue, SignOutSend, SignOutAnswer
<1>3. ASSUME NEW u \in Tabs, \/ HandleSignal(u) \/ UserSignOut(u) \/ RefreshCall(u) \/ SessionRefused(u)
                             \/ RetrySignOut(u) \/ ForgetSession(u) \/ LoadUser(u)
                             \/ \E token \in mail[u] : Adopt(u, token)
      PROVE  UNCHANGED inn
  BY <1>3 DEF HandleSignal, UserSignOut, RefreshCall, SessionRefused, RetrySignOut, ForgetSession,
     LoadUser, Adopt, jobs
<1>4. ServeLate \/ UNCHANGED vars => UNCHANGED inn
  BY DEF ServeLate, vars, jobs
<1>5. ASSUME NEW u \in Tabs, SignIn(u) \/ ChangePassword(u) PROVE inn'[t] = inn[t]
  <2>1. Send(u, "signIn") \/ Drop(u, "signIn")
    BY <1>5 DEF SignIn, SignInSend, SignInAnswer, ChangePassword
  <2>2. wire'[u]["signIn"].stage \in {"none", "sent"}
    BY <2>1, OtherWires DEF Kinds
  <2>3. u # t
    BY <2>2 DEF Told
  <2> QED
    BY <1>5, <2>3, Parts DEF SignIn, SignInSend, SignInAnswer, ChangePassword, MemoryOK
<1>6. ASSUME NEW u \in Tabs, SignInCall(u) PROVE inn'[t] = inn[t]
  <2>1. wire[t]["signIn"].stage # "none"
    BY <1>6 DEF SignInCall, Told
  <2> QED
    BY <1>6, <2>1, Parts DEF SignInCall, Places, MemoryOK
<1>7. ASSUME NEW u \in Tabs, Reload(u) PROVE inn'[t] = inn[t]
  <2>1. wire'[u]["signIn"] = IdleWire
    BY <1>7, Parts DEF Reload, WiresOK, Kinds
  <2>2. u # t
    BY <2>1 DEF Told, IdleWire
  <2> QED
    BY <1>7, <2>2, Parts DEF Reload, MemoryOK
<1> QED
  BY <1>1, <1>2, <1>3, <1>4, <1>5, <1>6, <1>7 DEF Next

\* A sign-in or a password change of tab t is kept, under a new id.
Drawn(t) ==
    /\ lastId' = lastId + 1 /\ IdOf(hint') = lastId'
    /\ wire[t]["signIn"].stage = "landed" /\ inn[t] \in {"sent", "changing"}
    /\ opened' = [opened EXCEPT ![t] = @ \cup {<<wire[t]["signIn"].answer[1], lastId'>>}]
    /\ Drop(t, "signIn") /\ UNCHANGED <<issued, changed, cookie, ref, out>>

\* The hint goes, keeps its id, or gets a new one.
HintMoves ==
    \/ UNCHANGED <<lastId, opened>> /\ (hint' = None \/ IdOf(hint') = IdOf(hint))
    \/ /\ UNCHANGED <<opened, changed, out>> /\ lastId' = lastId + 1 /\ IdOf(hint') = lastId'
       /\ \E t \in Tabs : ref[t].pc \in {"first", "second"}
    \/ \E t \in Tabs : Drawn(t)

LEMMA HintsMove == ASSUME Types, [Next]_vars PROVE HintMoves
<1>1. ASSUME UNCHANGED <<hint, lastId, opened>> PROVE HintMoves
  BY <1>1 DEF HintMoves
<1>2. ASSUME NEW t \in Tabs, RemoveHint(t) \/ (\E id : ClearHint(t, id)), UNCHANGED <<lastId, opened>> PROVE HintMoves
  BY <1>2, SMTT(60) DEF HintMoves, RemoveHint, ClearHint
<1>3. ASSUME NEW t \in Tabs, \/ Server(t) \/ (\E j \in Kinds : Land(t, j)) \/ Fail(t) \/ TimeOut(t) \/ Reload(t)
                             \/ RefreshStart(t) \/ RefreshHanded(t) \/ RefreshAgain(t) \/ SignOutQueue(t)
                             \/ SignInSend(t)
      PROVE  HintMoves
  BY <1>1, <1>3 DEF Server, CheckRefresh, IssueRefresh, ServeLogout, ServeSignIn, Land, Fail, TimeOut,
     Reload, RefreshStart, RefreshHanded, RefreshAgain, SignOutQueue, SignInSend, browser, jobs
<1>4. ASSUME NEW t \in Tabs, \/ UserSignOut(t) \/ RefreshCall(t) \/ SessionRefused(t) \/ RetrySignOut(t)
                             \/ LoadUser(t) \/ SignInCall(t) \/ ChangePassword(t)
                             \/ \E token \in mail[t] : Adopt(t, token)
      PROVE  HintMoves
  BY <1>1, <1>4 DEF UserSignOut, RefreshCall, SessionRefused, RetrySignOut, LoadUser, SignInCall,
     ChangePassword, Adopt, browser, jobs
<1>5. CASE ServeLate \/ UNCHANGED vars
  BY <1>1, <1>5 DEF ServeLate, vars, browser, jobs
<1>6. ASSUME NEW t \in Tabs, SignOutSend(t) \/ SignOutAnswer(t) \/ ForgetSession(t) PROVE HintMoves
  BY <1>1, <1>2, <1>6 DEF SignOutSend, SignOutAnswer, ForgetSession, SignedOut
<1>7. ASSUME NEW t \in Tabs, HandleSignal(t) PROVE HintMoves
  BY <1>7 DEF HandleSignal, HintMoves
<1>8. ASSUME NEW t \in Tabs, RefreshLook(t) PROVE HintMoves
  BY <1>1, <1>2, <1>8 DEF RefreshLook, GiveUp
<1>9. ASSUME NEW t \in Tabs, RefreshAnswer(t) PROVE HintMoves
  <2>1. UNCHANGED <<server, opened>> /\ ref[t].pc \in {"first", "second"}
    BY <1>9 DEF RefreshAnswer
  <2>2. CASE SaveRefresh /\ UNCHANGED out
    <3>1. CASE hint = None
      <4>1. lastId + 1 \in Nat
        BY Parts
      <4>2. hint' = <<lastId + 1, 1>> /\ lastId' = lastId + 1 /\ hint' \in Nat \X Nat
        BY <2>2, <3>1, <4>1 DEF SaveRefresh
      <4>3. IdOf(hint') = lastId'
        BY <4>2, HintFacts DEF IdOf
      <4> QED
        BY <2>1, <2>2, <4>2, <4>3 DEF HintMoves, server
    <3>2. CASE hint # None
      <4>1. hint[1] \in Nat /\ hint[2] + 1 \in Nat
        BY <3>2, Parts, HintFacts
      <4>2. hint' = <<hint[1], hint[2] + 1>> /\ lastId' = lastId /\ hint' \in Nat \X Nat
        BY <2>2, <3>2, <4>1 DEF SaveRefresh
      <4>3. IdOf(hint') = IdOf(hint)
        BY <3>2, <4>2, HintFacts DEF IdOf
      <4> QED
        BY <2>1, <4>2, <4>3 DEF HintMoves
    <3> QED
      BY <3>1, <3>2
  <2>3. CASE UNCHANGED <<hint, lastId>>
    BY <1>1, <2>1, <2>3
  <2>4. CASE GiveUp(t)
    BY <1>2, <2>1, <2>4 DEF GiveUp
  <2> QED
    BY <1>9, <2>2, <2>3, <2>4 DEF RefreshAnswer, RefreshSaved
<1>10. ASSUME NEW t \in Tabs, SignInAnswer(t) PROVE HintMoves
  <2>1. CASE wire[t]["signIn"].stage = "lost"
    BY <1>1, <1>10, <2>1 DEF SignInAnswer
  <2>2. CASE wire[t]["signIn"].stage # "lost"
    <3>1. /\ SaveSignIn /\ wire[t]["signIn"].stage = "landed" /\ Drop(t, "signIn")
          /\ inn[t] \in {"sent", "changing"} /\ UNCHANGED <<issued, changed, cookie, ref, out>>
          /\ opened' = [opened EXCEPT ![t] = @ \cup {<<wire[t]["signIn"].answer[1], lastId + 1>>}]
      BY <1>10, <2>2 DEF SignInAnswer, Back, server
    <3>2. lastId + 1 \in Nat
      BY Parts
    <3>3. lastId' = lastId + 1 /\ IdOf(hint') = lastId'
      BY <3>1, <3>2, HintFacts DEF SaveSignIn, IdOf
    <3> QED
      BY <3>1, <3>3 DEF Drawn, HintMoves
  <2> QED
    BY <2>1, <2>2
<1> QED
  BY <1>3, <1>4, <1>5, <1>6, <1>7, <1>8, <1>9, <1>10 DEF Next, Refresher, SignOut, SignIn

\* A sign-out goes on under the id it began with, or a new one begins.
OutMove(t) ==
    \/ out'[t].pc = "idle"
    \/ /\ out[t].pc # "idle" /\ out'[t].id = out[t].id /\ out'[t].old = out[t].old
       /\ out'[t].pc = "sent" => out[t].pc = "sent" \/ (~Replaced(t) /\ UNCHANGED <<hint, opened, changed>>)
    \/ /\ out'[t].pc = "settling" /\ out'[t].old = Opened /\ UNCHANGED opened
       /\ IdOf(hint') = out'[t].id

LEMMA OutsMove == ASSUME Types, [Next]_vars, NEW t \in Tabs PROVE OutMove(t)
<1>0. out \in [Tabs -> OutRec]
  BY Parts DEF OutOK
<1>1. ASSUME out'[t] = out[t] PROVE OutMove(t)
  BY <1>1 DEF OutMove
<1>2. ASSUME NEW u \in Tabs, UNCHANGED out \/ out' = [out EXCEPT ![u] = IdleOut] PROVE OutMove(t)
  BY <1>0, <1>1, <1>2 DEF OutMove, IdleOut
<1>3. ASSUME NEW u \in Tabs, NEW byUser, SignOutOf(u, byUser, IdOf(hint')), UNCHANGED opened PROVE OutMove(t)
  <2>1. CASE u = t
    <3>1. out'[t] = [pc |-> "settling", byUser |-> byUser, id |-> IdOf(hint'), old |-> Opened, tries |-> 0]
      BY <1>0, <1>3, <2>1 DEF SignOutOf
    <3> QED
      BY <1>3, <3>1 DEF OutMove
  <2>2. CASE u # t
    BY <1>0, <1>1, <1>3, <2>2 DEF SignOutOf
  <2> QED
    BY <2>1, <2>2
<1>4. ASSUME NEW u \in Tabs, NEW pc, pc # "sent", out[u].pc # "idle", out' = [out EXCEPT ![u].pc = pc] PROVE OutMove(t)
  <2>1. CASE u = t
    <3>1. out'[t] = [out[t] EXCEPT !.pc = pc] /\ out[t] \in OutRec
      BY <1>0, <1>4, <2>1
    <3>2. out'[t].pc = pc /\ out'[t].id = out[t].id /\ out'[t].old = out[t].old
      BY <3>1 DEF OutRec
    <3> QED
      BY <1>4, <2>1, <3>2 DEF OutMove
  <2>2. CASE u # t
    BY <1>0, <1>1, <1>4, <2>2
  <2> QED
    BY <2>1, <2>2
<1>5. ASSUME NEW u \in Tabs, Server(u) \/ (\E j \in Kinds : Land(u, j)) \/ Fail(u) \/ TimeOut(u) PROVE UNCHANGED out
  BY <1>5 DEF Server, CheckRefresh, IssueRefresh, ServeLogout, ServeSignIn, Land, Fail, TimeOut, jobs
<1>6. ASSUME NEW u \in Tabs, \/ RefreshStart(u) \/ RefreshHanded(u) \/ RefreshAgain(u) \/ SignIn(u)
                             \/ HandleSignal(u) \/ RefreshCall(u) \/ SignInCall(u) \/ ChangePassword(u)
                             \/ LoadUser(u) \/ \E token \in mail[u] : Adopt(u, token)
      PROVE  UNCHANGED out
  BY <1>6 DEF RefreshStart, RefreshHanded, RefreshAgain, SignIn, SignInSend, SignInAnswer, HandleSignal,
     RefreshCall, SignInCall, ChangePassword, LoadUser, Adopt, jobs
<1>7. ASSUME NEW u \in Tabs, RefreshAnswer(u) \/ RefreshLook(u) PROVE OutMove(t)
  <2>1. UNCHANGED opened
    BY <1>7 DEF RefreshAnswer, RefreshLook
  <2>2. CASE UNCHANGED out
    BY <1>2, <2>2
  <2>3. CASE GiveUp(u)
    <3>1. IdOf(hint') = None
      BY <2>3 DEF GiveUp, RemoveHint, IdOf
    <3> QED
      BY <1>2, <1>3, <2>1, <2>3, <3>1 DEF GiveUp
  <2> QED
    BY <1>7, <2>2, <2>3 DEF RefreshAnswer, RefreshLook, RefreshSaved
<1>8. ASSUME NEW u \in Tabs, UserSignOut(u) \/ SessionRefused(u) PROVE OutMove(t)
  <2>1. UNCHANGED <<hint, opened>> /\ \E byUser : SignOutOf(u, byUser, IdOf(hint))
    BY <1>8 DEF UserSignOut, SessionRefused, browser
  <2> QED
    BY <1>3, <2>1
<1>9. ASSUME NEW u \in Tabs, \/ SignOutQueue(u) \/ RetrySignOut(u) \/ ForgetSession(u) \/ Reload(u) PROVE OutMove(t)
  BY <1>2, <1>4, <1>9 DEF SignOutQueue, RetrySignOut, ForgetSession, Reload
<1>10. ASSUME NEW u \in Tabs, NEW ok, SignedOut(u, ok), out[u].pc # "idle" PROVE OutMove(t)
  BY <1>2, <1>4, <1>10 DEF SignedOut
<1>11. ASSUME NEW u \in Tabs, SignOutSend(u) PROVE OutMove(t)
  <2>1. CASE Replaced(u)
    BY <1>10, <1>11, <2>1 DEF SignOutSend
  <2>2. CASE ~Replaced(u) /\ u = t
    <3>1. out' = [out EXCEPT ![t].pc = "sent", ![t].tries = 1] /\ out[t].pc = "queued"
          /\ UNCHANGED <<hint, opened, changed>>
      BY <1>11, <2>2 DEF SignOutSend, server
    <3>2. out'[t].pc = "sent" /\ out'[t].id = out[t].id /\ out'[t].old = out[t].old
      BY <1>0, <3>1, ZenonT(60) DEF OutRec
    <3> QED
      BY <2>2, <3>1, <3>2 DEF OutMove
  <2>3. CASE ~Replaced(u) /\ u # t
    <3>1. out' = [out EXCEPT ![u].pc = "sent", ![u].tries = 1]
      BY <1>11, <2>3 DEF SignOutSend
    <3>2. out'[t] = out[t]
      BY <1>0, <2>3, <3>1
    <3> QED
      BY <1>1, <3>2
  <2> QED
    BY <2>1, <2>2, <2>3
<1>12. ASSUME NEW u \in Tabs, SignOutAnswer(u) PROVE OutMove(t)
  <2>1. out[u].pc = "sent"
    BY <1>12 DEF SignOutAnswer
  <2>2. CASE out' = [out EXCEPT ![u].tries = 2]
    <3>1. CASE u = t
      <4>1. out'[t] = [out[t] EXCEPT !.tries = 2] /\ out[t] \in OutRec
        BY <1>0, <2>2, <3>1
      <4>2. out'[t].pc = out[t].pc /\ out'[t].id = out[t].id /\ out'[t].old = out[t].old
        BY <4>1 DEF OutRec
      <4> QED
        BY <2>1, <3>1, <4>2 DEF OutMove
    <3>2. CASE u # t
      BY <1>0, <1>1, <2>2, <3>2
    <3> QED
      BY <3>1, <3>2
  <2>3. CASE \E ok : SignedOut(u, ok)
    BY <1>10, <2>1, <2>3
  <2> QED
    BY <1>12, <2>2, <2>3 DEF SignOutAnswer
<1>13. CASE ServeLate \/ UNCHANGED vars
  BY <1>2, <1>13 DEF ServeLate, vars, jobs
<1> QED
  BY <1>2, <1>5, <1>6, <1>7, <1>8, <1>9, <1>11, <1>12, <1>13 DEF Next, Refresher, SignOut

\* A refresher starts to wait when its first attempt was rejected.
LEMMA RefMoves ==
    ASSUME Types, [Next]_vars, NEW t \in Tabs, ref'[t].pc = "settle"
    PROVE  \/ ref[t].pc = "settle"
           \/ /\ wire[t]["refresh"].stage = "landed" /\ wire[t]["refresh"].answer = Refused
              /\ UNCHANGED <<server, cookie>>
<1> USE Parts DEF RefOK
<1>1. ASSUME UNCHANGED ref PROVE ref[t].pc = "settle"
  BY <1>1
<1>2. ASSUME NEW u \in Tabs, Server(u) \/ (\E j \in Kinds : Land(u, j)) \/ Fail(u) \/ TimeOut(u) PROVE UNCHANGED ref
  BY <1>2 DEF Server, CheckRefresh, IssueRefresh, ServeLogout, ServeSignIn, Land, Fail, TimeOut, jobs
<1>3. ASSUME NEW u \in Tabs, \/ SignIn(u) \/ SignOut(u) \/ SignInCall(u) \/ ChangePassword(u) \/ LoadUser(u)
                             \/ SessionRefused(u) \/ RetrySignOut(u) \/ ForgetSession(u)
                             \/ \E token \in mail[u] : Adopt(u, token)
      PROVE  UNCHANGED ref
  BY <1>3 DEF SignIn, SignInSend, SignInAnswer, SignOut, SignOutQueue, SignOutSend, SignOutAnswer,
     SignInCall, ChangePassword, LoadUser, SessionRefused, RetrySignOut, ForgetSession, Adopt, jobs
<1>4. ASSUME NEW u \in Tabs, UserSignOut(u) \/ HandleSignal(u) \/ RefreshCall(u) \/ Reload(u) PROVE ref[t].pc = "settle"
  <2>1. CASE ref' = Stale(u)
    <3>1. CASE u # t
      BY <2>1, <3>1 DEF Stale
    <3>2. CASE u = t
      <4>1. ref'[t] = [ref[t] EXCEPT !.stale = ref[t].pc # "idle"] /\ ref[t] \in RefRec
        BY <2>1, <3>2 DEF Stale
      <4> QED
        BY <4>1 DEF RefRec
    <3> QED
      BY <3>1, <3>2
  <2>2. CASE RefreshCall(u)
    <3>1. PICK v : v = [IdleRef EXCEPT !.pc = "waiting", !.base = access[u], !.gen = hint]
      OBVIOUS
    <3>2. v.pc # "settle" /\ ref' = [ref EXCEPT ![u] = v]
      BY <2>2, <3>1 DEF RefreshCall, IdleRef
    <3> QED
      BY <3>2
  <2>3. CASE Reload(u)
    BY <2>3 DEF Reload, IdleRef
  <2> QED
    BY <1>1, <1>4, <2>1, <2>2, <2>3 DEF UserSignOut, HandleSignal
<1>5. ASSUME NEW u \in Tabs, NEW pc, pc # "settle", (Settle(u) /\ pc = "idle") \/ Step(u, pc) \/ Attempt(u, pc)
      PROVE  ref[t].pc = "settle"
  <2>1. CASE u # t
    BY <1>5, <2>1 DEF Settle, Step, Attempt
  <2>2. CASE u = t /\ Settle(u)
    BY <2>2 DEF Settle, IdleRef
  <2>3. CASE u = t /\ Step(u, pc)
    BY <1>5, <2>3 DEF Step, RefRec
  <2>4. CASE u = t /\ Attempt(u, pc)
    <3>1. ref'[t] = [ref[t] EXCEPT !.pc = pc, !.before = hint] /\ ref[t] \in RefRec
      BY <2>4 DEF Attempt
    <3>2. ref'[t].pc = pc
      BY <3>1 DEF RefRec
    <3> QED
      BY <1>5, <3>2
  <2> QED
    BY <1>5, <2>1, <2>2, <2>3, <2>4
<1>6. ASSUME NEW u \in Tabs, RefreshStart(u) \/ RefreshHanded(u) \/ RefreshAgain(u) \/ RefreshLook(u)
      PROVE  ref[t].pc = "settle"
  <2>1. PICK pc \in {"idle", "handoff", "first", "second", "again"} :
           (Settle(u) /\ pc = "idle") \/ Step(u, pc) \/ Attempt(u, pc)
    BY <1>6, ZenonT(60) DEF RefreshStart, RefreshHanded, RefreshAgain, RefreshLook, Run, GiveUp
  <2> QED
    BY <1>5, <2>1
<1>7. ASSUME NEW u \in Tabs, RefreshAnswer(u)
      PROVE  \/ ref[t].pc = "settle"
             \/ /\ wire[t]["refresh"].stage = "landed" /\ wire[t]["refresh"].answer = Refused
                /\ UNCHANGED <<server, cookie>>
  <2>1. UNCHANGED <<server, cookie>> /\ wire[u]["refresh"].stage \in {"landed", "lost"}
    BY <1>7 DEF RefreshAnswer, Back
  <2>2. CASE Settle(u)
    BY <1>5, <2>2
  <2>3. CASE Step(u, "again")
    BY <1>5, <2>3
  <2>4. CASE Step(u, "settle") /\ wire[u]["refresh"].stage # "lost" /\ wire[u]["refresh"].answer = Refused
    <3>1. CASE u = t
      BY <2>1, <2>4, <3>1
    <3>2. CASE u # t
      BY <2>4, <3>2 DEF Step
    <3> QED
      BY <3>1, <3>2
  <2> QED
    BY <1>7, <2>2, <2>3, <2>4 DEF RefreshAnswer, RefreshSaved, GiveUp
<1>8. ServeLate \/ UNCHANGED vars => UNCHANGED ref
  BY DEF ServeLate, vars, jobs
<1> QED
  BY <1>1, <1>2, <1>3, <1>4, <1>6, <1>7, <1>8 DEF Next, Refresher

\* A sign-out ends confirmed when it was skipped, or when the server's answer was good.
LEMMA OutEnds ==
    ASSUME Types, Traces, [Next]_vars, NEW t \in Tabs, Confirmed(t)
    PROVE  /\ UNCHANGED <<cookie, spent, revoked>>
           /\ \/ out[t].pc = "queued" /\ Replaced(t)
              \/ out[t].pc = "sent" /\ wire[t]["logout"].stage = "landed" /\ wire[t]["logout"].answer # Busy
<1> DEFINE Goal == /\ UNCHANGED <<cookie, spent, revoked>>
                   /\ \/ out[t].pc = "queued" /\ Replaced(t)
                      \/ out[t].pc = "sent" /\ wire[t]["logout"].stage = "landed" /\ wire[t]["logout"].answer # Busy
<1>0. /\ out[t].byUser /\ out[t].pc \in {"queued", "sent"} /\ out'[t].pc = "idle"
      /\ out[t].pc = "sent" => wire[t]["logout"].stage = "landed"
      /\ faults' = faults /\ faults' # faults + 1 /\ out \in [Tabs -> OutRec]
  BY Parts DEF Confirmed, Traces, OutOK
<1>1. out' # out
  BY <1>0
<1>2. ASSUME NEW u \in Tabs, Server(u) \/ (\E j \in Kinds : Land(u, j)) \/ Fail(u) \/ TimeOut(u) PROVE FALSE
  BY <1>1, <1>2 DEF Server, CheckRefresh, IssueRefresh, ServeLogout, ServeSignIn, Land, Fail, TimeOut, jobs
<1>3. ASSUME NEW u \in Tabs, \/ RefreshStart(u) \/ RefreshHanded(u) \/ RefreshAgain(u) \/ SignIn(u)
                             \/ HandleSignal(u) \/ RefreshCall(u) \/ SignInCall(u) \/ ChangePassword(u)
                             \/ LoadUser(u) \/ \E token \in mail[u] : Adopt(u, token)
      PROVE  FALSE
  BY <1>1, <1>3 DEF RefreshStart, RefreshHanded, RefreshAgain, SignIn, SignInSend, SignInAnswer, HandleSignal,
     RefreshCall, SignInCall, ChangePassword, LoadUser, Adopt, jobs
<1>4. ASSUME NEW u \in Tabs, NEW byUser, NEW id, SignOutOf(u, byUser, id) PROVE FALSE
  BY <1>0, <1>4 DEF SignOutOf
<1>5. ASSUME NEW u \in Tabs, \/ RefreshAnswer(u) \/ RefreshLook(u) \/ UserSignOut(u) \/ SessionRefused(u)
      PROVE  FALSE
  BY <1>1, <1>4, <1>5 DEF RefreshAnswer, RefreshLook, RefreshSaved, GiveUp, UserSignOut, SessionRefused
<1>6. ASSUME NEW u \in Tabs, Reload(u) PROVE FALSE
  BY <1>0, <1>6 DEF Reload, Fault
<1>7. ASSUME NEW u \in Tabs, SignOutQueue(u) \/ RetrySignOut(u) PROVE FALSE
  BY <1>0, <1>7 DEF SignOutQueue, RetrySignOut, OutRec
<1>8. ASSUME NEW u \in Tabs, ForgetSession(u) PROVE FALSE
  BY <1>0, <1>8 DEF ForgetSession
<1>9. ASSUME NEW u \in Tabs, NEW ok, SignedOut(u, ok) PROVE u = t /\ ok
  <2>1. CASE out' = [out EXCEPT ![u].pc = "failed"]
    BY <1>0, <2>1 DEF OutRec
  <2>2. CASE out' = [out EXCEPT ![u] = IdleOut] /\ (out[u].byUser => ok)
    BY <1>0, <2>2
  <2> QED
    BY <1>9, <2>1, <2>2 DEF SignedOut
<1>10. ASSUME NEW u \in Tabs, SignOutSend(u) PROVE Goal
  <2>1. CASE Replaced(u)
    BY <1>9, <1>10, <2>1 DEF SignOutSend, server
  <2>2. CASE ~Replaced(u)
    <3>1. out' = [out EXCEPT ![u].pc = "sent", ![u].tries = 1]
      BY <1>10, <2>2 DEF SignOutSend
    <3>2. out'[t].pc # "idle"
      BY <1>0, <3>1, ZenonT(60) DEF OutRec
    <3> QED
      BY <1>0, <3>2
  <2> QED
    BY <2>1, <2>2
<1>11. ASSUME NEW u \in Tabs, SignOutAnswer(u) PROVE Goal
  <2>1. CASE out' = [out EXCEPT ![u].tries = 2]
    BY <1>0, <2>1 DEF OutRec
  <2>2. CASE SignedOut(u, wire[u]["logout"].stage = "landed" /\ wire[u]["logout"].answer # Busy)
    BY <1>9, <1>11, <2>2 DEF SignOutAnswer, server
  <2> QED
    BY <1>11, <2>1, <2>2 DEF SignOutAnswer
<1>12. ServeLate \/ UNCHANGED vars => FALSE
  BY <1>1 DEF ServeLate, vars, jobs
<1> QED
  BY <1>2, <1>3, <1>5, <1>6, <1>7, <1>8, <1>10, <1>11, <1>12 DEF Next, Refresher, SignOut

(***************************************************************************)
(* The lock, whatever goes wrong.                                          *)
(***************************************************************************)
LogoutsInside == \A t \in Tabs : wire[t]["logout"].stage # "none" => out[t].pc = "sent"
Guarded == Exclusive /\ LogoutsInside

\* Nobody enters and the lock stays where it is.
LEMMA QuietGuard ==
    ASSUME Types, Guarded, NoneEnters, UNCHANGED holder,
           \A u \in Tabs : /\ wire'[u]["logout"].stage # "none" => wire[u]["logout"].stage # "none"
                           /\ out[u].pc = "sent" => out'[u].pc = "sent"
    PROVE  Guarded'
<1>1. Exclusive'
  BY NoneInside, Stayed DEF Guarded
<1> QED
  BY <1>1 DEF Guarded, LogoutsInside

\* Only the refresher of t moves, and no logout.
LEMMA RefresherGuard ==
    ASSUME Types, Guarded, locks, NEW t \in Tabs, NEW pc, UNCHANGED inn,
           \/ Settle(t) /\ pc = "idle" /\ Free(t) /\ ref[t].pc \in InsidePcs
           \/ Settle(t) /\ pc = "idle" /\ UNCHANGED holder /\ ref[t].pc = "waiting"
           \/ (Step(t, pc) \/ Attempt(t, pc)) /\ Take(t) /\ holder = NoTab
           \/ (Step(t, pc) \/ Attempt(t, pc)) /\ holder' = holder /\ ref[t].pc \in InsidePcs
           \/ Attempt(t, pc) /\ Take(t) /\ ref[t].pc \in InsidePcs,
           ref[t].pc \in InsidePcs \cup {"waiting"},
           \/ UNCHANGED out
           \/ ref[t].pc \in InsidePcs /\ \E id : SignOutOf(t, FALSE, id),
           \A u \in Tabs : wire'[u]["logout"] = wire[u]["logout"]
    PROVE  Guarded'
<1>0. ref \in [Tabs -> RefRec] /\ out \in [Tabs -> OutRec]
  BY Parts DEF RefOK, OutOK
<1>1. /\ ref'[t].pc = pc
      /\ \A u \in Tabs : u # t => ref'[u] = ref[u]
  <2>1. CASE Settle(t) /\ pc = "idle"
    BY <1>0, <2>1 DEF Settle, IdleRef
  <2>2. CASE Step(t, pc)
    <3>1. ref'[t] = [ref[t] EXCEPT !.pc = pc] /\ ref[t] \in RefRec
      BY <1>0, <2>2 DEF Step
    <3> QED
      BY <1>0, <2>2, <3>1 DEF Step, RefRec
  <2>3. CASE Attempt(t, pc)
    <3>1. ref'[t] = [ref[t] EXCEPT !.pc = pc, !.before = hint] /\ ref[t] \in RefRec
          /\ \A u \in Tabs : u # t => ref'[u] = ref[u]
      BY <1>0, <2>3, ZenonT(60) DEF Attempt
    <3>2. ref'[t].pc = pc
      BY <3>1 DEF RefRec
    <3> QED
      BY <3>1, <3>2
  <2> QED
    BY <2>1, <2>2, <2>3
<1>2. ASSUME NEW u \in Tabs PROVE (out'[u].pc = "sent") = (out[u].pc = "sent")
  <2>1. CASE UNCHANGED out
    BY <2>1
  <2>2. ASSUME ref[t].pc \in InsidePcs, NEW id, SignOutOf(t, FALSE, id)
        PROVE  (out'[u].pc = "sent") = (out[u].pc = "sent")
    <3>1. Inside(t, "refresh")
      BY <2>2 DEF Inside, InsidePcs
    <3>2. ~Inside(t, "logout")
      BY <3>1 DEF Guarded, Exclusive, Kinds
    <3> QED
      BY <1>0, <2>2, <3>2 DEF SignOutOf, Inside
  <2> QED
    BY <2>1, <2>2
<1>3. LogoutsInside'
  BY <1>2 DEF Guarded, LogoutsInside
<1>4. \A u \in Tabs, j \in Kinds : u # t \/ j # "refresh" => (Inside(u, j)' <=> Inside(u, j))
  BY <1>1, <1>2 DEF Inside
<1>5. ref[t].pc \in InsidePcs <=> Inside(t, "refresh")
  BY DEF Inside, InsidePcs
<1>6. Exclusive'
  <2>1. CASE Settle(t) /\ pc = "idle" /\ ref[t].pc \in InsidePcs
    <3>1. ~Inside(t, "refresh")' /\ Inside(t, "refresh")
      BY <1>1, <1>5, <2>1 DEF Inside
    <3>2. \A u \in Tabs, j \in Kinds : Inside(u, j)' => Inside(u, j)
      BY <1>4, <3>1
    <3> QED
      BY <3>1, <3>2, Left DEF Guarded, Kinds
  <2>2. CASE pc = "idle" /\ UNCHANGED holder
    <3>1. ~Inside(t, "refresh")'
      BY <1>1, <2>2 DEF Inside
    <3>2. \A u \in Tabs, j \in Kinds : Inside(u, j)' => Inside(u, j)
      BY <1>4, <3>1
    <3> QED
      BY <2>2, <3>2, Stayed DEF Guarded
  <2>3. CASE Take(t) /\ holder = NoTab
    <3>1. holder' = t
      BY <2>3 DEF Take
    <3>2. \A u \in Tabs, j \in Kinds : Inside(u, j)' => Inside(u, j) \/ (u = t /\ j = "refresh")
      BY <1>4
    <3> QED
      BY <2>3, <3>1, <3>2, Entered DEF Guarded, Kinds
  <2>4. CASE (holder' = holder \/ Take(t)) /\ ref[t].pc \in InsidePcs
    <3>1. Inside(t, "refresh") /\ holder = t
      BY <1>5, <2>4 DEF Guarded, Exclusive, Kinds
    <3>2. holder' = holder
      BY <2>4, <3>1 DEF Take
    <3>3. \A u \in Tabs, j \in Kinds : Inside(u, j)' => Inside(u, j)
      BY <1>4, <3>1
    <3> QED
      BY <3>2, <3>3, Stayed DEF Guarded
  <2> QED
    BY <2>1, <2>2, <2>3, <2>4
<1> QED
  BY <1>3, <1>6 DEF Guarded

\* The refresher's steps.
LEMMA RefresherGuarded == ASSUME Types, Guarded, locks, NEW t \in Tabs, Refresher(t) PROVE Guarded'
<1>1. UNCHANGED inn /\ \A u \in Tabs : wire'[u]["logout"] = wire[u]["logout"]
  <2>1. UNCHANGED wire \/ Send(t, "refresh") \/ Drop(t, "refresh")
    BY ZenonT(60) DEF Refresher, RefreshStart, RefreshHanded, RefreshAnswer, RefreshLook, RefreshAgain, Run, Attempt
  <2>2. UNCHANGED inn
    BY DEF Refresher, RefreshStart, RefreshHanded, RefreshAnswer, RefreshLook, RefreshAgain
  <2> QED
    BY <2>1, <2>2, OtherWires DEF Kinds
<1>2. CASE RefreshStart(t)
  <2>1. ref[t].pc = "waiting" /\ holder = NoTab /\ UNCHANGED out
    BY <1>2 DEF RefreshStart, CanLock
  <2>2. \/ Settle(t) /\ UNCHANGED holder
        \/ \E pc : (Step(t, pc) \/ Attempt(t, pc)) /\ Take(t)
    <3>1. Free(t) => UNCHANGED holder
      BY <2>1, TokenFacts DEF Free
    <3> QED
      BY <1>2, <3>1 DEF RefreshStart, Run
  <2> QED
    BY <1>1, <2>1, <2>2, RefresherGuard
<1>3. CASE RefreshHanded(t)
  <2>1. ref[t].pc \in InsidePcs /\ UNCHANGED out
    BY <1>3 DEF RefreshHanded, InsidePcs
  <2>2. (Settle(t) /\ Free(t)) \/ (Attempt(t, "first") /\ Take(t))
    BY <1>3 DEF RefreshHanded, Run
  <2>3. CASE Settle(t) /\ Free(t)
    <3>1. PICK pc : pc = "idle"
      OBVIOUS
    <3> QED
      BY <1>1, <2>1, <2>3, <3>1, RefresherGuard
  <2>4. CASE Attempt(t, "first") /\ Take(t)
    BY <1>1, <2>1, <2>4, RefresherGuard
  <2> QED
    BY <2>2, <2>3, <2>4
<1>4. CASE RefreshAgain(t)
  <2>1. ref[t].pc \in InsidePcs /\ UNCHANGED out
    BY <1>4 DEF RefreshAgain, InsidePcs
  <2>2. (Settle(t) /\ Free(t)) \/ (Attempt(t, "second") /\ UNCHANGED holder)
    BY <1>4 DEF RefreshAgain
  <2>3. CASE Settle(t) /\ Free(t)
    <3>1. PICK pc : pc = "idle"
      OBVIOUS
    <3> QED
      BY <1>1, <2>1, <2>3, <3>1, RefresherGuard
  <2>4. CASE Attempt(t, "second") /\ UNCHANGED holder
    BY <1>1, <2>1, <2>4, RefresherGuard
  <2> QED
    BY <2>2, <2>3, <2>4
<1>5. CASE RefreshAnswer(t) \/ RefreshLook(t)
  <2>1. ref[t].pc \in InsidePcs
    BY <1>5 DEF RefreshAnswer, RefreshLook, InsidePcs
  <2>2. \/ Settle(t) /\ Free(t) /\ (UNCHANGED out \/ \E id : SignOutOf(t, FALSE, id))
        \/ UNCHANGED <<out, holder>> /\ \E pc : Step(t, pc)
    BY <1>5 DEF RefreshAnswer, RefreshLook, RefreshSaved, GiveUp
  <2> QED
    BY <1>1, <2>1, <2>2, RefresherGuard
<1> QED
  BY <1>2, <1>3, <1>4, <1>5 DEF Refresher

LEMMA SignOutGuarded == ASSUME Types, Guarded, locks, NEW t \in Tabs, SignOut(t) PROVE Guarded'
<1>0. out \in [Tabs -> OutRec] /\ UNCHANGED <<ref, inn>>
  BY Parts DEF OutOK, SignOut, SignOutQueue, SignOutSend, SignOutAnswer
<1>1. ASSUME UNCHANGED <<wire, holder>>, out[t].pc # "sent", out'[t].pc # "sent",
             \A u \in Tabs : u # t => out'[u] = out[u]
      PROVE  Guarded'
  <2>1. NoneEnters
    BY <1>0, <1>1 DEF NoneEnters
  <2> QED
    BY <1>1, <2>1, QuietGuard
<1>2. CASE SignOutQueue(t)
  <2>1. out' = [out EXCEPT ![t].pc = "queued"] /\ out[t].pc = "settling" /\ UNCHANGED <<wire, holder>>
    BY <1>2 DEF SignOutQueue, browser
  <2>2. out'[t].pc # "sent" /\ \A u \in Tabs : u # t => out'[u] = out[u]
    BY <1>0, <2>1 DEF OutRec
  <2> QED
    BY <1>1, <2>1, <2>2
<1>3. CASE SignOutSend(t) /\ Replaced(t)
  <2>1. out' = [out EXCEPT ![t] = IdleOut] /\ out[t].pc = "queued" /\ UNCHANGED <<wire, holder>>
    BY <1>3 DEF SignOutSend, SignedOut
  <2>2. out'[t].pc # "sent" /\ \A u \in Tabs : u # t => out'[u] = out[u]
    BY <1>0, <2>1 DEF IdleOut
  <2> QED
    BY <1>1, <2>1, <2>2
<1>4. CASE SignOutSend(t) /\ ~Replaced(t)
  <2>1. /\ out' = [out EXCEPT ![t].pc = "sent", ![t].tries = 1] /\ out[t].pc = "queued"
        /\ holder = NoTab /\ holder' = t /\ Send(t, "logout")
    BY <1>4 DEF SignOutSend, CanLock, Take
  <2>2. out'[t].pc = "sent" /\ \A u \in Tabs : u # t => out'[u] = out[u]
    BY <1>0, <2>1, ZenonT(60) DEF OutRec
  <2>3. \A u \in Tabs, j \in Kinds : Inside(u, j)' => Inside(u, j) \/ (u = t /\ j = "logout")
    BY <1>0, <2>2 DEF Inside
  <2>4. Exclusive'
    BY <2>1, <2>3, Entered DEF Guarded, Kinds
  <2>5. \A u \in Tabs : u # t => wire'[u]["logout"] = wire[u]["logout"]
    BY <2>1, OtherWires DEF Kinds
  <2> QED
    BY <2>2, <2>4, <2>5 DEF Guarded, LogoutsInside
<1>5. CASE SignOutAnswer(t)
  <2>1. Inside(t, "logout")
    BY <1>5 DEF SignOutAnswer, Inside
  <2>2. CASE Send(t, "logout") /\ out' = [out EXCEPT ![t].tries = 2] /\ UNCHANGED holder
    <3>1. \A u \in Tabs : out'[u].pc = out[u].pc
      BY <1>0, <2>2 DEF OutRec
    <3>2. \A u \in Tabs, j \in Kinds : Inside(u, j)' => Inside(u, j)
      BY <1>0, <3>1 DEF Inside
    <3>3. Exclusive'
      BY <2>2, <3>2, Stayed DEF Guarded
    <3>4. \A u \in Tabs : u # t => wire'[u]["logout"] = wire[u]["logout"]
      BY <2>2, OtherWires DEF Kinds
    <3> QED
      BY <2>1, <3>1, <3>3, <3>4 DEF Guarded, LogoutsInside, Inside
  <2>3. CASE (\E ok : SignedOut(t, ok)) /\ Free(t) /\ Drop(t, "logout")
    <3>1. out'[t].pc # "sent" /\ \A u \in Tabs : u # t => out'[u] = out[u]
      BY <1>0, <2>3 DEF SignedOut, IdleOut, OutRec
    <3>2. ~Inside(t, "logout")' /\ \A u \in Tabs, j \in Kinds : Inside(u, j)' => Inside(u, j)
      BY <1>0, <3>1 DEF Inside
    <3>3. Exclusive'
      BY <2>1, <3>2, Left DEF Guarded, Kinds
    <3>4. /\ wire'[t]["logout"].stage = "none"
          /\ \A u \in Tabs : u # t => wire'[u]["logout"] = wire[u]["logout"]
      BY <2>3, OtherWires DEF Kinds
    <3> QED
      BY <3>1, <3>3, <3>4 DEF Guarded, LogoutsInside
  <2> QED
    BY <1>5, <2>2, <2>3 DEF SignOutAnswer
<1> QED
  BY <1>2, <1>3, <1>4, <1>5 DEF SignOut

LEMMA SignInGuarded ==
    ASSUME Types, Guarded, locks, NEW t \in Tabs, SignIn(t) \/ ChangePassword(t) PROVE Guarded'
<1>0. /\ inn \in [Tabs -> {"idle", "waiting", "sent", "changing"}] /\ UNCHANGED <<ref, out>>
      /\ Send(t, "signIn") \/ Drop(t, "signIn")
  BY Parts DEF MemoryOK, SignIn, SignInSend, SignInAnswer, ChangePassword
<1>1. LogoutsInside'
  <2>1. \A u \in Tabs : wire'[u]["logout"] = wire[u]["logout"]
    BY <1>0, OtherWires DEF Kinds
  <2> QED
    BY <1>0, <2>1 DEF Guarded, LogoutsInside
<1>2. CASE SignInSend(t)
  <2>1. holder = NoTab /\ holder' = t /\ inn' = [inn EXCEPT ![t] = "sent"]
    BY <1>2 DEF SignInSend, CanLock, Take
  <2>2. \A u \in Tabs, j \in Kinds : Inside(u, j)' => Inside(u, j) \/ (u = t /\ j = "signIn")
    BY <1>0, <2>1 DEF Inside
  <2> QED
    BY <1>1, <2>1, <2>2, Entered DEF Guarded, Kinds
<1>3. CASE ChangePassword(t)
  <2>1. UNCHANGED holder /\ inn' = [inn EXCEPT ![t] = "changing"]
    BY <1>3 DEF ChangePassword, browser
  <2>2. \A u \in Tabs, j \in Kinds : Inside(u, j)' => Inside(u, j)
    BY <1>0, <2>1 DEF Inside
  <2> QED
    BY <1>1, <2>1, <2>2, Stayed DEF Guarded
<1>4. CASE SignInAnswer(t)
  <2>1. inn' = [inn EXCEPT ![t] = "idle"]
    BY <1>4 DEF SignInAnswer
  <2>2. ~Inside(t, "signIn")' /\ \A u \in Tabs, j \in Kinds : Inside(u, j)' => Inside(u, j)
    BY <1>0, <2>1 DEF Inside
  <2>3. CASE inn[t] = "sent"
    BY <1>1, <2>2, <2>3, Left DEF Guarded, Kinds, Inside
  <2>4. CASE UNCHANGED holder
    BY <1>1, <2>2, <2>4, Stayed DEF Guarded
  <2> QED
    BY <1>4, <2>3, <2>4 DEF SignInAnswer
<1> QED
  BY <1>2, <1>3, <1>4 DEF SignIn

LEMMA NextGuarded == ASSUME Types, locks, Guarded, [Next]_vars PROVE Guarded'
<1>1. ASSUME NEW t \in Tabs, Server(t) \/ (\E j \in Kinds : Land(t, j)) \/ Fail(t) \/ TimeOut(t) PROVE Guarded'
  <2>1. UNCHANGED <<ref, out, inn, holder>>
    BY <1>1 DEF Server, CheckRefresh, IssueRefresh, ServeLogout, ServeSignIn, Land, Fail, TimeOut, jobs, browser
  <2>2. \A u \in Tabs : wire'[u]["logout"].stage # "none" => wire[u]["logout"].stage # "none"
    BY <1>1, NetStartsNone DEF Starts, Kinds
  <2>3. NoneEnters
    BY <2>1 DEF NoneEnters
  <2> QED
    BY <2>1, <2>2, <2>3, QuietGuard
<1>2. ASSUME NEW t \in Tabs, Reload(t) PROVE Guarded'
  <2>1. /\ \A u \in Tabs : u # t => /\ wire'[u] = wire[u] /\ ref'[u] = ref[u]
                                   /\ inn'[u] = inn[u] /\ out'[u] = out[u]
        /\ wire'[t]["logout"] = IdleWire /\ ref'[t] = IdleRef /\ out'[t] = IdleOut /\ inn'[t] = "idle"
    BY <1>2, Parts DEF Reload, WiresOK, RefOK, MemoryOK, OutOK, Kinds
  <2>2. \A u \in Tabs, j \in Kinds : Inside(u, j)' => Inside(u, j) /\ u # t
    BY <2>1 DEF Inside, IdleRef, IdleOut
  <2>3. holder # t => holder' = holder
    BY <1>2 DEF Reload, Free
  <2>4. Exclusive'
    BY <2>2, <2>3 DEF Guarded, Exclusive
  <2>5. LogoutsInside'
    BY <2>1 DEF Guarded, LogoutsInside, IdleWire
  <2> QED
    BY <2>4, <2>5 DEF Guarded
<1>3. ASSUME NEW t \in Tabs, \/ HandleSignal(t) \/ UserSignOut(t) \/ RefreshCall(t) \/ SessionRefused(t)
                             \/ RetrySignOut(t) \/ ForgetSession(t) \/ LoadUser(t) \/ SignInCall(t)
                             \/ \E token \in mail[t] : Adopt(t, token)
      PROVE  Guarded'
  <2>1. UNCHANGED <<wire, holder>>
    BY <1>3 DEF HandleSignal, UserSignOut, RefreshCall, SessionRefused, RetrySignOut, ForgetSession,
       LoadUser, SignInCall, Adopt, browser
  <2>2. \A u \in Tabs : out'[u] = out[u] \/ (out[u].pc # "sent" /\ out'[u].pc # "sent")
    BY <1>3, Parts DEF HandleSignal, UserSignOut, RefreshCall, SessionRefused, RetrySignOut, ForgetSession,
       LoadUser, SignInCall, Adopt, jobs, SignOutOf, IdleOut, OutRec, OutOK
  <2>3. \A u \in Tabs : inn'[u] = inn[u] \/ inn'[u] # "sent"
    BY <1>3, Parts DEF HandleSignal, UserSignOut, RefreshCall, SessionRefused, RetrySignOut, ForgetSession,
       LoadUser, SignInCall, Adopt, jobs, MemoryOK
  <2>4. \A u \in Tabs : ref'[u].pc = ref[u].pc \/ ref'[u].pc = "waiting"
    <3>1. CASE ref' = ref
      BY <3>1
    <3>2. CASE ref' = Stale(t)
      <4>1. /\ ref'[t] = [ref[t] EXCEPT !.stale = ref[t].pc # "idle"] /\ ref[t] \in RefRec
            /\ \A u \in Tabs : u # t => ref'[u] = ref[u]
        BY <3>2, Parts DEF Stale, RefOK
      <4> QED
        BY <4>1 DEF RefRec
    <3>3. CASE RefreshCall(t)
      <4>1. PICK v : v = [IdleRef EXCEPT !.pc = "waiting", !.base = access[t], !.gen = hint]
        OBVIOUS
      <4>2. v.pc = "waiting" /\ ref' = [ref EXCEPT ![t] = v]
        BY <3>3, <4>1 DEF RefreshCall, IdleRef
      <4> QED
        BY <4>2, Parts DEF RefOK
    <3> QED
      BY <1>3, <3>1, <3>2, <3>3 DEF HandleSignal, UserSignOut, SessionRefused, RetrySignOut,
         ForgetSession, LoadUser, SignInCall, Adopt, jobs
  <2>5. NoneEnters
    BY <2>2, <2>3, <2>4 DEF NoneEnters, InsidePcs
  <2> QED
    BY <2>1, <2>2, <2>5, QuietGuard
<1>4. CASE ServeLate \/ UNCHANGED vars
  <2>1. UNCHANGED <<wire, holder, ref, out, inn>>
    BY <1>4 DEF ServeLate, vars, jobs, browser
  <2>2. NoneEnters
    BY <2>1 DEF NoneEnters
  <2> QED
    BY <2>1, <2>2, QuietGuard
<1> QED
  BY <1>1, <1>2, <1>3, <1>4, RefresherGuarded, SignOutGuarded, SignInGuarded DEF Next

(***************************************************************************)
(* The story of the hint: which sign-in drew it.                           *)
(***************************************************************************)
\* Sign-in ids are drawn upwards; a sign-in has one session and one id.
Ids ==
    /\ hint # None => hint[1] <= lastId
    /\ \A kept \in Kept : kept[2] <= lastId
    /\ \A a, b \in Kept : a[1] = b[1] \/ a[2] = b[2] => a = b

\* The session a sign-in was answered with is new to the browser.
Answers ==
    \A t \in Tabs : Told(t, "signIn") =>
        LET a == wire[t]["signIn"].answer IN
        /\ a[2] = 1 /\ a[1] \notin Opened /\ (a[1] \in changed <=> inn[t] = "changing")
        /\ \A u \in Tabs : Told(u, "signIn") /\ wire[u]["signIn"].answer[1] = a[1] => u = t

\* What a sign-out compares: the hint it began with was drawn by the last of the
\* sign-ins known then, or by a refresh after it.
SignOuts ==
    \A t \in Tabs : out[t].pc # "idle" =>
        /\ out[t].id # None => out[t].id <= lastId
        /\ out[t].old \subseteq Opened
        /\ \A kept \in Kept : kept[1] \in out[t].old /\ IdOf(hint) = kept[2] => IdOf(hint) = out[t].id
        /\ hint # None /\ hint[1] = out[t].id => Opened \subseteq out[t].old

Story == Ids /\ Answers /\ SignOuts

LEMMA KeptFacts ==
    ASSUME Types
    PROVE  /\ \A kept \in Kept : kept[1] \in 1..Len(issued) /\ kept[2] \in Nat /\ kept = <<kept[1], kept[2]>>
           /\ Opened \subseteq 1..Len(issued)
           /\ None \notin Nat /\ lastId \in Nat /\ Len(issued) \in Nat
           /\ hint # None => hint[1] \in Nat
<1>1. \A kept \in Kept : kept \in (1..Len(issued)) \X Nat
  BY Parts DEF Kept, OpenedOK
<1>2. \A kept \in Kept : kept[1] \in 1..Len(issued) /\ kept[2] \in Nat /\ kept = <<kept[1], kept[2]>>
  BY <1>1
<1> QED
  BY <1>2, Parts, HintFacts, AuthConstants DEF Opened, ServerOK

\* A step keeps at most one more sign-in.
LEMMA KeptMoves ==
    ASSUME Types
    PROVE  /\ UNCHANGED opened => Kept' = Kept /\ Opened' = Opened
           /\ \A t \in Tabs : Drawn(t) =>
                /\ Kept' = Kept \cup {<<wire[t]["signIn"].answer[1], lastId + 1>>}
                /\ Opened' = Opened \cup {wire[t]["signIn"].answer[1]}
<1>1. ASSUME UNCHANGED opened PROVE Kept' = Kept /\ Opened' = Opened
  BY <1>1 DEF Kept, Opened
<1>2. ASSUME NEW t \in Tabs, Drawn(t)
      PROVE  /\ Kept' = Kept \cup {<<wire[t]["signIn"].answer[1], lastId + 1>>}
             /\ Opened' = Opened \cup {wire[t]["signIn"].answer[1]}
  <2>1. PICK x : x = <<wire[t]["signIn"].answer[1], lastId + 1>>
    OBVIOUS
  <2>2. opened' = [opened EXCEPT ![t] = opened[t] \cup {x}] /\ opened \in [Tabs -> SUBSET ((1..Len(issued)) \X Nat)]
    BY <1>2, <2>1, Parts DEF Drawn, OpenedOK
  <2>3. /\ \A u \in Tabs : u # t => opened'[u] = opened[u]
        /\ opened'[t] = opened[t] \cup {x}
    BY <2>2
  <2>4. Kept' = Kept \cup {x}
    <3>1. ASSUME NEW y \in Kept' PROVE y \in Kept \cup {x}
      BY <2>3, <3>1 DEF Kept
    <3>2. ASSUME NEW y \in Kept \cup {x} PROVE y \in Kept'
      <4>1. CASE y = x
        BY <2>3, <4>1 DEF Kept
      <4>2. CASE y \in Kept
        <5>1. PICK u \in Tabs : y \in opened[u]
          BY <4>2 DEF Kept
        <5>2. y \in opened'[u]
          BY <2>3, <5>1
        <5> QED
          BY <5>2 DEF Kept
      <4> QED
        BY <3>2, <4>1, <4>2
    <3> QED
      BY <3>1, <3>2
  <2>5. x[1] = wire[t]["signIn"].answer[1]
    BY <2>1
  <2>6. Opened' = Opened \cup {x[1]}
    <3>1. Opened' = {kept[1] : kept \in Kept'}
      BY DEF Opened
    <3> QED
      BY <2>4, <3>1 DEF Opened
  <2> QED
    BY <2>1, <2>4, <2>5, <2>6
<1> QED
  BY <1>1, <1>2

LEMMA StepKept ==
    ASSUME Types, HintMoves
    PROVE  UNCHANGED opened \/ \E t \in Tabs : Drawn(t)
BY DEF HintMoves

\* A sign-in that was answered keeps its answer; a new answer opens a session.
LEMMA AnswerMoves ==
    ASSUME Types, Turns, NEW t \in Tabs, Told(t, "signIn")'
    PROVE  \/ Told(t, "signIn") /\ wire'[t]["signIn"].answer = wire[t]["signIn"].answer
           \/ Served(t, "signIn")
<1>1. Turn(t, "signIn")
  BY DEF Turns, Kinds
<1> QED
  BY <1>1 DEF Turn, Told

LEMMA AnswersKept == ASSUME Types, Places, Rows, Turns, HintMoves, [Next]_vars, Answers PROVE Answers'
<1> DEFINE a(t) == wire[t]["signIn"].answer
           b(t) == wire'[t]["signIn"].answer
<1>1. ASSUME NEW t \in Tabs, Told(t, "signIn") PROVE a(t)[1] \in 1..Len(issued) /\ a(t) \in Tokens
  <2>1. Fit("signIn", wire[t]["signIn"])
    BY Parts DEF WiresOK, Kinds
  <2> QED
    BY <1>1, <2>1 DEF Fit, Named, Told
<1>2. ASSUME NEW t \in Tabs, Told(t, "signIn")' PROVE inn'[t] = inn[t]
  BY <1>2, InnMoves
<1>3. ASSUME NEW t \in Tabs, Told(t, "signIn")', Told(t, "signIn"), b(t) = a(t)
      PROVE  /\ b(t)[2] = 1 /\ b(t)[1] \notin Opened' /\ (b(t)[1] \in changed' <=> inn'[t] = "changing")
             /\ b(t)[1] \in 1..Len(issued)
  <2>1. a(t)[2] = 1 /\ a(t)[1] \notin Opened /\ (a(t)[1] \in changed <=> inn[t] = "changing")
        /\ \A u \in Tabs : Told(u, "signIn") /\ a(u)[1] = a(t)[1] => u = t
    BY <1>3 DEF Answers
  <2>2. a(t)[1] \in changed' <=> a(t)[1] \in changed
    <3>1. a(t)[1] \in 1..Len(issued) /\ Len(issued) \in Nat
      BY <1>1, <1>3, KeptFacts
    <3>2. ~(a(t)[1] > Len(issued))
      BY <3>1
    <3> QED
      BY <3>2 DEF Rows
  <2>3. a(t)[1] \notin Opened'
    <3>1. CASE UNCHANGED opened
      BY <2>1, <3>1, KeptMoves
    <3>2. ASSUME NEW u \in Tabs, Drawn(u) PROVE a(t)[1] \notin Opened'
      <4>1. Told(u, "signIn") /\ Drop(u, "signIn")
        BY <3>2 DEF Drawn, Told
      <4>2. wire'[u]["signIn"].stage = "none"
        BY <4>1, OtherWires DEF Kinds
      <4>3. u # t
        BY <1>3, <4>2 DEF Told
      <4>4. a(u)[1] # a(t)[1]
        BY <2>1, <4>1, <4>3
      <4> QED
        BY <2>1, <3>2, <4>4, KeptMoves
    <3> QED
      BY <3>1, <3>2, StepKept
  <2> QED
    BY <1>1, <1>2, <1>3, <2>1, <2>2, <2>3
<1>4. ASSUME NEW t \in Tabs, Told(t, "signIn")', Served(t, "signIn")
      PROVE  /\ b(t)[2] = 1 /\ b(t)[1] \notin Opened' /\ (b(t)[1] \in changed' <=> inn'[t] = "changing")
             /\ b(t)[1] = Len(issued) + 1 /\ \A u \in Tabs : u # t => wire'[u]["signIn"] = wire[u]["signIn"]
  <2>1. /\ b(t) = <<Len(issued) + 1, 1>> /\ Len(issued') = Len(issued) + 1
        /\ Len(issued) + 1 \in changed' <=> inn[t] = "changing"
        /\ \A u \in Tabs : u # t => wire'[u]["signIn"] = wire[u]["signIn"]
    BY <1>4, Zenon DEF Served
  <2>2. b(t)[1] = Len(issued) + 1 /\ b(t)[2] = 1
    BY <2>1
  <2>3. UNCHANGED opened
    <3>1. ASSUME NEW u \in Tabs, Drawn(u) PROVE FALSE
      BY <2>1, <3>1, KeptFacts DEF Drawn
    <3> QED
      BY <3>1, StepKept
  <2>4. Len(issued) + 1 \notin Opened'
    BY <2>3, KeptMoves, KeptFacts
  <2> QED
    BY <1>2, <1>4, <2>1, <2>2, <2>4
<1>5. ASSUME NEW t \in Tabs, NEW u \in Tabs, Told(t, "signIn")', Told(u, "signIn")', b(u)[1] = b(t)[1] PROVE u = t
  <2>1. CASE Served(t, "signIn")
    <3>1. SUFFICES ASSUME u # t PROVE FALSE
      OBVIOUS
    <3>2. wire'[u]["signIn"] = wire[u]["signIn"] /\ b(t)[1] = Len(issued) + 1
      BY <1>4, <1>5, <2>1, <3>1
    <3>3. Told(u, "signIn") /\ b(u) = a(u)
      BY <1>5, <3>2 DEF Told
    <3>4. b(u)[1] \in 1..Len(issued)
      BY <1>1, <3>3
    <3> QED
      BY <1>5, <3>2, <3>4, KeptFacts
  <2>2. CASE Served(u, "signIn")
    <3>1. SUFFICES ASSUME u # t PROVE FALSE
      OBVIOUS
    <3>2. wire'[t]["signIn"] = wire[t]["signIn"] /\ b(u)[1] = Len(issued) + 1
      BY <1>4, <1>5, <2>2, <3>1
    <3>3. Told(t, "signIn") /\ b(t) = a(t)
      BY <1>5, <3>2 DEF Told
    <3>4. b(t)[1] \in 1..Len(issued)
      BY <1>1, <3>3
    <3> QED
      BY <1>5, <3>2, <3>4, KeptFacts
  <2>3. CASE Told(t, "signIn") /\ b(t) = a(t) /\ Told(u, "signIn") /\ b(u) = a(u)
    <3>1. a(u)[1] = a(t)[1]
      BY <1>5, <2>3
    <3> QED
      BY <2>3, <3>1 DEF Answers
  <2> QED
    BY <1>5, <2>1, <2>2, <2>3, AnswerMoves
<1>6. ASSUME NEW t \in Tabs, Told(t, "signIn")'
      PROVE  /\ b(t)[2] = 1 /\ b(t)[1] \notin Opened' /\ (b(t)[1] \in changed' <=> inn'[t] = "changing")
             /\ \A u \in Tabs : Told(u, "signIn")' /\ b(u)[1] = b(t)[1] => u = t
  BY <1>3, <1>4, <1>5, <1>6, AnswerMoves
<1>7. \A t \in Tabs : Told(t, "signIn")' =>
        /\ wire'[t]["signIn"].answer[2] = 1 /\ wire'[t]["signIn"].answer[1] \notin Opened'
        /\ (wire'[t]["signIn"].answer[1] \in changed' <=> inn'[t] = "changing")
        /\ \A u \in Tabs : Told(u, "signIn")' /\ wire'[u]["signIn"].answer[1] = wire'[t]["signIn"].answer[1] => u = t
  BY <1>6
<1> HIDE DEF a, b
<1> QED
  BY <1>7 DEF Answers

LEMMA NextHint == ASSUME Types' PROVE lastId' \in Nat /\ (hint' # None => hint'[1] \in Nat /\ IdOf(hint') = hint'[1])
<1>1. hint' \in Hints /\ lastId' \in Nat
  BY DEF Types, BrowserOK
<1> QED
  BY <1>1, HintFacts DEF IdOf

LEMMA IdsKept == ASSUME Types, Types', HintMoves, Ids, Answers PROVE Ids'
<1>1. lastId \in Nat /\ None \notin Nat
  BY KeptFacts
<1>2. hint' # None => hint'[1] \in Nat /\ IdOf(hint') = hint'[1]
  BY NextHint
<1>3. ASSUME UNCHANGED <<lastId, opened>>, hint' = None \/ IdOf(hint') = IdOf(hint) PROVE Ids'
  <2>1. hint' # None => hint # None /\ hint'[1] = hint[1]
    BY <1>1, <1>2, <1>3 DEF IdOf
  <2> QED
    BY <1>3, <2>1, KeptMoves DEF Ids
<1>4. ASSUME UNCHANGED opened, lastId' = lastId + 1, IdOf(hint') = lastId' PROVE Ids'
  <2>1. hint' # None => hint'[1] <= lastId'
    BY <1>1, <1>2, <1>4
  <2>2. \A kept \in Kept' : kept[2] <= lastId'
    BY <1>1, <1>4, KeptFacts, KeptMoves DEF Ids
  <2> QED
    BY <1>4, <2>1, <2>2, KeptMoves DEF Ids
<1>5. ASSUME NEW t \in Tabs, Drawn(t) PROVE Ids'
  <2>1. lastId' = lastId + 1 /\ IdOf(hint') = lastId' /\ Told(t, "signIn")
    BY <1>5 DEF Drawn, Told
  <2>2. PICK x : x = <<wire[t]["signIn"].answer[1], lastId + 1>>
    OBVIOUS
  <2>3. Kept' = Kept \cup {x} /\ x[2] = lastId + 1 /\ x[1] \notin Opened
    BY <1>5, <2>1, <2>2, KeptMoves DEF Answers
  <2>4. hint' # None => hint'[1] <= lastId'
    BY <1>1, <1>2, <2>1
  <2>5. \A kept \in Kept' : kept[2] <= lastId'
    BY <1>1, <2>1, <2>3, KeptFacts DEF Ids
  <2>6. \A kept \in Kept : kept[1] # x[1] /\ kept[2] # x[2]
    <3>1. \A kept \in Kept : kept[1] \in Opened
      BY DEF Opened
    <3> QED
      BY <1>1, <2>3, <3>1, KeptFacts DEF Ids
  <2>7. \A c, d \in Kept' : c[1] = d[1] \/ c[2] = d[2] => c = d
    BY <2>3, <2>6 DEF Ids
  <2> QED
    BY <2>4, <2>5, <2>7 DEF Ids
<1> QED
  BY <1>3, <1>4, <1>5 DEF HintMoves

LEMMA SignOutsKept ==
    ASSUME Types, Types', HintMoves, \A t \in Tabs : OutMove(t), Ids, Ids', Answers, SignOuts PROVE SignOuts'
<1> SUFFICES ASSUME NEW t \in Tabs, out'[t].pc # "idle"
             PROVE  /\ out'[t].id # None => out'[t].id <= lastId'
                    /\ out'[t].old \subseteq Opened'
                    /\ \A kept \in Kept' : kept[1] \in out'[t].old /\ IdOf(hint') = kept[2] => IdOf(hint') = out'[t].id
                    /\ hint' # None /\ hint'[1] = out'[t].id => Opened' \subseteq out'[t].old
  BY DEF SignOuts
<1>1. lastId \in Nat /\ None \notin Nat /\ lastId' \in Nat /\ out[t].id \in Nat \cup {None}
  BY KeptFacts, NextHint, Parts DEF OutOK, OutRec
<1>2. hint' # None => hint'[1] \in Nat /\ IdOf(hint') = hint'[1]
  BY NextHint
<1>3. CASE out'[t].old = Opened /\ UNCHANGED opened /\ IdOf(hint') = out'[t].id
  <2>1. out'[t].id # None => out'[t].id <= lastId'
    BY <1>2, <1>3 DEF Ids, IdOf
  <2> QED
    BY <1>3, <2>1, KeptMoves
<1>4. CASE out[t].pc # "idle" /\ out'[t].id = out[t].id /\ out'[t].old = out[t].old
  <2>1. /\ out[t].id # None => out[t].id <= lastId
        /\ out[t].old \subseteq Opened
        /\ \A kept \in Kept : kept[1] \in out[t].old /\ IdOf(hint) = kept[2] => IdOf(hint) = out[t].id
        /\ hint # None /\ hint[1] = out[t].id => Opened \subseteq out[t].old
    BY <1>4 DEF SignOuts
  <2>2. CASE UNCHANGED <<lastId, opened>> /\ (hint' = None \/ IdOf(hint') = IdOf(hint))
    <3>1. hint' # None => hint # None /\ hint'[1] = hint[1] /\ IdOf(hint') = IdOf(hint)
      BY <1>1, <1>2, <2>2 DEF IdOf
    <3>2. \A kept \in Kept : hint' = None => IdOf(hint') # kept[2]
      BY <1>1, KeptFacts DEF IdOf
    <3> QED
      BY <1>4, <2>1, <2>2, <3>1, <3>2, KeptMoves
  <2>3. CASE UNCHANGED opened /\ lastId' = lastId + 1 /\ IdOf(hint') = lastId'
    <3>1. \A kept \in Kept : IdOf(hint') # kept[2]
      BY <1>1, <2>3, KeptFacts DEF Ids
    <3>2. hint' # None => hint'[1] # out[t].id
      BY <1>1, <1>2, <2>1, <2>3
    <3>3. out[t].id # None => out[t].id <= lastId'
      BY <1>1, <2>1, <2>3
    <3> QED
      BY <1>4, <2>1, <2>3, <3>1, <3>2, <3>3, KeptMoves
  <2>4. ASSUME NEW u \in Tabs, Drawn(u)
        PROVE  /\ out'[t].id # None => out'[t].id <= lastId'
               /\ out'[t].old \subseteq Opened'
               /\ \A kept \in Kept' : kept[1] \in out'[t].old /\ IdOf(hint') = kept[2] => IdOf(hint') = out'[t].id
               /\ hint' # None /\ hint'[1] = out'[t].id => Opened' \subseteq out'[t].old
    <3>1. lastId' = lastId + 1 /\ IdOf(hint') = lastId' /\ Told(u, "signIn")
      BY <2>4 DEF Drawn, Told
    <3>2. PICK x : x = <<wire[u]["signIn"].answer[1], lastId + 1>>
      OBVIOUS
    <3>3. Kept' = Kept \cup {x} /\ x[2] = lastId + 1 /\ x[1] \notin Opened /\ Opened' = Opened \cup {x[1]}
      BY <2>4, <3>1, <3>2, KeptMoves DEF Answers
    <3>4. \A kept \in Kept : IdOf(hint') # kept[2]
      BY <1>1, <3>1, KeptFacts DEF Ids
    <3>5. hint' # None => hint'[1] # out[t].id
      BY <1>1, <1>2, <2>1, <3>1
    <3>6. out[t].id # None => out[t].id <= lastId'
      BY <1>1, <2>1, <3>1
    <3>7. x[1] \notin out[t].old
      BY <2>1, <3>3
    <3> QED
      BY <1>4, <2>1, <3>3, <3>4, <3>5, <3>6, <3>7
  <2> QED
    BY <2>2, <2>3, <2>4 DEF HintMoves
<1> QED
  BY <1>3, <1>4 DEF OutMove

LEMMA NextStory == ASSUME Types, Types', Places, [Next]_vars, Story PROVE Story'
<1>1. Rows /\ Turns /\ HintMoves /\ \A t \in Tabs : OutMove(t)
  BY RowsGrow, RequestsTurn, HintsMove, OutsMove
<1>2. Ids' /\ Answers'
  BY <1>1, IdsKept, AnswersKept DEF Story
<1> QED
  BY <1>1, <1>2, SignOutsKept DEF Story

(***************************************************************************)
(* Rejected refreshes.                                                     *)
(***************************************************************************)
\* The cookie cannot be refreshed any more, or a password change has just set it.
Dead == ~Live(cookie) \/ JustChanged(cookie)

\* A refresh under way carries the cookie, unless a password change has set
\* another; if it was rejected, the cookie is dead.
Rejections ==
    \A t \in Tabs :
        /\ wire[t]["refresh"].stage \in {"sent", "checked"} =>
            wire[t]["refresh"].carried = cookie \/ JustChanged(cookie)
        /\ Told(t, "refresh") /\ wire[t]["refresh"].answer = Refused => Dead
        /\ ref[t].pc = "settle" => Dead

\* While a refresh is inside, only its own answer and a password change set the cookie.
LEMMA CookieUnderRefresh ==
    ASSUME Types, Places, Guarded, Answers, [Next]_vars, NEW t \in Tabs, Inside(t, "refresh"), cookie' # cookie
    PROVE  /\ UNCHANGED <<server, ref>>
           /\ \/ JustChanged(cookie)' /\ wire'[t]["refresh"] = wire[t]["refresh"]
              \/ /\ wire[t]["refresh"].stage = "answered" /\ wire[t]["refresh"].answer \notin {Refused, Busy}
                 /\ wire'[t]["refresh"].stage = "landed" /\ wire'[t]["refresh"].answer = wire[t]["refresh"].answer
<1>1. PICK u \in Tabs, k \in Kinds : Land(u, k)
  BY OnlyLandingSetsCookie
<1>2. /\ UNCHANGED <<server, ref>> /\ wire[u][k].stage = "answered" /\ wire[u][k].answer \notin {Refused, Busy}
      /\ cookie' = wire[u][k].answer /\ wire' = [wire EXCEPT ![u][k].stage = "landed"]
  BY <1>1 DEF Land, jobs
<1>3. wire \in [Tabs -> [Kinds -> WireRec]]
  BY Parts DEF WiresOK
<1>4. PICK v : v = [wire[u][k] EXCEPT !.stage = "landed"]
  OBVIOUS
<1>5. /\ v.stage = "landed" /\ v.answer = wire[u][k].answer /\ wire'[u][k] = v
      /\ \A x \in Tabs, j \in Kinds : ~(x = u /\ j = k) => wire'[x][j] = wire[x][j]
  BY <1>2, <1>3, <1>4 DEF WireRec
<1>6. CASE k = "refresh"
  <2>1. Inside(u, "refresh")
    BY <1>2, <1>6 DEF Places, Inside
  <2>2. u = t
    BY <2>1 DEF Guarded, Exclusive, Kinds
  <2> QED
    BY <1>2, <1>5, <1>6, <2>2
<1>7. CASE k = "logout"
  <2>1. Inside(u, "logout")
    BY <1>2, <1>7 DEF Guarded, LogoutsInside, Inside
  <2> QED
    BY <2>1 DEF Guarded, Exclusive, Kinds
<1>8. CASE k = "signIn"
  <2>1. inn[u] = "changing"
    <3>1. inn[u] \in {"sent", "changing"} /\ ~Inside(u, "signIn")
      BY <1>2, <1>8 DEF Places, Guarded, Exclusive, Kinds
    <3> QED
      BY <3>1 DEF Inside
  <2>2. cookie'[2] = 1 /\ cookie'[1] \in changed
    BY <1>2, <1>8, <2>1 DEF Answers, Told
  <2>3. cookie' \in Tokens
    BY <1>2, <1>8, Parts DEF WiresOK, Fit, Kinds
  <2>4. JustChanged(cookie)'
    BY <1>2, <2>2, <2>3, TokenFacts DEF JustChanged, server
  <2> QED
    BY <1>2, <1>5, <1>8, <2>4 DEF Kinds
<1> QED
  BY <1>6, <1>7, <1>8 DEF Kinds

\* The dead stay dead.
LEMMA StaysDead ==
    ASSUME Rows, UNCHANGED cookie
    PROVE  /\ Dead => Dead'
           /\ JustChanged(cookie) => JustChanged(cookie)'
           /\ ~Live(cookie) => Dead'
BY DEF Rows, Dead, Live, JustChanged

LEMMA RejectionsKept ==
    ASSUME Types, Places, Guarded, Answers, [Next]_vars, Rejections PROVE Rejections'
<1>0. Rows /\ Turns
  BY RowsGrow, RequestsTurn
<1> SUFFICES ASSUME NEW t \in Tabs
             PROVE  /\ wire'[t]["refresh"].stage \in {"sent", "checked"} =>
                        wire'[t]["refresh"].carried = cookie' \/ JustChanged(cookie)'
                    /\ Told(t, "refresh")' /\ wire'[t]["refresh"].answer = Refused => Dead'
                    /\ ref'[t].pc = "settle" => Dead'
  BY DEF Rejections
<1>1. /\ wire[t]["refresh"].stage \in {"sent", "checked"} =>
            wire[t]["refresh"].carried = cookie \/ JustChanged(cookie)
      /\ Told(t, "refresh") /\ wire[t]["refresh"].answer = Refused => Dead
      /\ ref[t].pc = "settle" => Dead
  BY DEF Rejections
<1>2. wire[t]["refresh"].stage # "none" \/ ref[t].pc = "settle" => Inside(t, "refresh")
  BY DEF Places, Inside
<1>3. JustChanged(cookie)' => Dead'
  BY DEF Dead
<1>4. Turn(t, "refresh")
  BY <1>0 DEF Turns, Kinds
<1>5. ASSUME wire'[t]["refresh"].stage \in {"sent", "checked"}
      PROVE  wire'[t]["refresh"].carried = cookie' \/ JustChanged(cookie)'
  <2>1. CASE wire'[t]["refresh"].stage = "sent" /\ wire'[t]["refresh"].carried = cookie /\ cookie' = cookie
    BY <2>1
  <2>2. CASE /\ wire[t]["refresh"].stage \in {"sent", "checked"}
             /\ wire'[t]["refresh"].carried = wire[t]["refresh"].carried
    <3>1. CASE cookie' = cookie
      BY <1>0, <1>1, <2>2, <3>1, StaysDead
    <3>2. CASE cookie' # cookie
      <4>1. Inside(t, "refresh")
        BY <1>2, <2>2
      <4> QED
        BY <2>2, <3>2, <4>1, CookieUnderRefresh
    <3> QED
      BY <3>1, <3>2
  <2> QED
    BY <1>4, <1>5, <2>1, <2>2 DEF Turn
<1>6. ASSUME Told(t, "refresh")', wire'[t]["refresh"].answer = Refused
      PROVE  Dead'
  <2>1. CASE Told(t, "refresh") /\ wire[t]["refresh"].answer = Refused
    <3>1. CASE cookie' = cookie
      BY <1>0, <1>1, <2>1, <3>1, StaysDead
    <3>2. CASE cookie' # cookie
      <4>1. Inside(t, "refresh")
        BY <1>2, <2>1 DEF Told
      <4> QED
        BY <1>3, <2>1, <3>2, <4>1, CookieUnderRefresh
    <3> QED
      BY <3>1, <3>2
  <2>2. CASE Served(t, "refresh")
    <3>1. wire[t]["refresh"].stage \in {"sent", "checked"} /\ ~Live(wire[t]["refresh"].carried)
      BY <1>6, <2>2, TokenFacts, AuthConstants DEF Served
    <3>2. CASE cookie' = cookie
      BY <1>0, <1>1, <1>3, <3>1, <3>2, StaysDead
    <3>3. CASE cookie' # cookie
      <4>1. Inside(t, "refresh")
        BY <1>2, <3>1
      <4> QED
        BY <1>3, <3>1, <3>3, <4>1, CookieUnderRefresh
    <3> QED
      BY <3>2, <3>3
  <2> QED
    BY <1>4, <1>6, <2>1, <2>2 DEF Turn, Told
<1>7. ASSUME ref'[t].pc = "settle" PROVE Dead'
  <2>1. CASE ref[t].pc = "settle"
    <3>1. CASE cookie' = cookie
      BY <1>0, <1>1, <2>1, <3>1, StaysDead
    <3>2. CASE cookie' # cookie
      <4>1. Inside(t, "refresh") /\ wire[t]["refresh"].stage = "none"
        BY <1>2, <2>1 DEF Places
      <4> QED
        BY <1>3, <3>2, <4>1, CookieUnderRefresh
    <3> QED
      BY <3>1, <3>2
  <2>2. CASE /\ wire[t]["refresh"].stage = "landed" /\ wire[t]["refresh"].answer = Refused
             /\ UNCHANGED <<server, cookie>>
    BY <1>0, <1>1, <2>2, StaysDead DEF Told
  <2> QED
    BY <1>7, <2>1, <2>2, RefMoves
<1> QED
  BY <1>5, <1>6, <1>7

(***************************************************************************)
(* Which session the cookie belongs to.                                    *)
(***************************************************************************)
\* No later sign-in than that of session s has been kept.
Latest(s) == \A k \in Opened : k \in changed \/ k <= s
Recent(x) == x \in Tokens => x[1] \in changed \/ Latest(x[1])

\* Leaving password changes aside, the cookie is of the last sign-in kept, and
\* the sign-ins a sign-out did not know are later than those it did.
Newest ==
    /\ Recent(cookie)
    /\ \A t \in Tabs :
        /\ wire[t]["refresh"].stage \in {"sent", "checked"} => Recent(wire[t]["refresh"].carried)
        /\ \A k \in Kinds : Told(t, k) => Recent(wire[t][k].answer)
        /\ inn[t] = "sent" /\ wire[t]["signIn"].stage = "landed" /\ cookie \in Tokens =>
            cookie[1] \in changed \/ wire[t]["signIn"].answer[1] <= cookie[1]
        /\ out[t].pc # "idle" => \A k \in Opened \ out[t].old, j \in out[t].old :
                                    k \in changed \/ j \in changed \/ j < k

\* A sign-out under way is of the session the hint tells of, and once its answer
\* has landed no session it knew has the cookie.
Ending ==
    \A t \in Tabs :
        /\ out[t].pc = "sent" => hint = None \/ hint[1] = out[t].id \/ ~HintOfSignIn
        /\ wire[t]["logout"].stage = "landed" /\ wire[t]["logout"].answer # Busy =>
            cookie = None \/ cookie[1] \notin out[t].old
        /\ Told(t, "logout") => wire[t]["logout"].answer \in {None, Busy}

\* While the server has opened one session only, it is revoked once the cookie
\* is gone.
Single ==
    /\ Len(issued) # 0
    /\ Len(issued) = 1 =>
        /\ cookie = None => 1 \in revoked
        /\ \A t \in Tabs :
            /\ wire[t]["logout"].stage \in {"sent", "checked"} /\ wire[t]["logout"].carried = None => 1 \in revoked
            /\ Told(t, "logout") /\ wire[t]["logout"].answer # Busy => 1 \in revoked

\* While a sign-out or a sign-in is inside, only its own answer and a password
\* change set the cookie.
LEMMA CookieUnderLock ==
    ASSUME Types, Places, Guarded, Answers, [Next]_vars, NEW t \in Tabs, NEW k \in Kinds, Inside(t, k), cookie' # cookie
    PROVE  /\ UNCHANGED <<server, opened, out>>
           /\ \/ wire[t][k].stage = "answered" /\ wire'[t][k].stage = "landed"
              \/ cookie' \in Tokens /\ cookie'[1] \in changed /\ cookie'[1] \notin Opened
<1>1. PICK u \in Tabs, j \in Kinds : Land(u, j)
  BY OnlyLandingSetsCookie
<1>2. /\ UNCHANGED <<server, opened, out>> /\ wire[u][j].stage = "answered"
      /\ cookie' = wire[u][j].answer /\ wire' = [wire EXCEPT ![u][j].stage = "landed"]
  BY <1>1 DEF Land, jobs
<1>3. CASE u = t /\ j = k
  <2>1. wire \in [Tabs -> [Kinds -> WireRec]]
    BY Parts DEF WiresOK
  <2>2. PICK v : v = [wire[t][k] EXCEPT !.stage = "landed"]
    OBVIOUS
  <2>3. v.stage = "landed" /\ wire'[t][k] = v
    BY <1>2, <1>3, <2>1, <2>2 DEF WireRec
  <2> QED
    BY <1>2, <1>3, <2>3
<1>4. CASE ~(u = t /\ j = k)
  <2>1. ~Inside(u, j)
    BY <1>4 DEF Guarded, Exclusive
  <2>2. j = "signIn" /\ inn[u] = "changing"
    <3>1. j # "refresh"
      BY <1>2, <2>1 DEF Places, Inside
    <3>2. j # "logout"
      BY <1>2, <2>1 DEF Guarded, LogoutsInside, Inside
    <3>3. j = "signIn"
      BY <3>1, <3>2 DEF Kinds
    <3>4. inn[u] \in {"sent", "changing"}
      BY <1>2, <3>3 DEF Places
    <3> QED
      BY <2>1, <3>3, <3>4 DEF Inside
  <2>3. cookie'[1] \in changed /\ cookie'[1] \notin Opened
    BY <1>2, <2>2 DEF Answers, Told
  <2>4. cookie' \in Tokens
    BY <1>2, <2>2, Parts DEF WiresOK, Fit, Kinds
  <2> QED
    BY <1>2, <2>3, <2>4
<1> QED
  BY <1>3, <1>4

(***************************************************************************)
(* The cookie is of the last sign-in.                                      *)
(***************************************************************************)
\* A sign-in that is kept is not later than what was recent, unless it is the
\* password change of a tab.
LEMMA RecentStays ==
    ASSUME Types, Rows, HintMoves, Answers,
           NEW x, Recent(x),
           \A t \in Tabs : Drawn(t) /\ inn[t] = "sent" =>
               (x \in Tokens => x[1] \in changed \/ wire[t]["signIn"].answer[1] <= x[1])
    PROVE  Recent(x)'
<1> SUFFICES ASSUME x \in Tokens, x[1] \notin changed' PROVE \A k \in Opened' : k \in changed' \/ k <= x[1]
  BY DEF Recent, Latest
<1>1. changed \subseteq changed' /\ \A k \in Opened : k \in changed \/ k <= x[1]
  BY DEF Rows, Recent, Latest
<1>2. CASE UNCHANGED opened
  BY <1>1, <1>2, KeptMoves
<1>3. ASSUME NEW t \in Tabs, Drawn(t) PROVE \A k \in Opened' : k \in changed' \/ k <= x[1]
  <2>1. Opened' = Opened \cup {wire[t]["signIn"].answer[1]} /\ Told(t, "signIn") /\ inn[t] \in {"sent", "changing"}
    BY <1>3, KeptMoves DEF Drawn, Told
  <2>2. wire[t]["signIn"].answer[1] \in changed \/ wire[t]["signIn"].answer[1] <= x[1]
    BY <1>1, <1>3, <2>1 DEF Answers
  <2> QED
    BY <1>1, <2>1, <2>2
<1> QED
  BY <1>2, <1>3, StepKept

LEMMA NewestKept ==
    ASSUME Types, Places, Guarded, Ids, Answers, SignOuts, [Next]_vars, Newest PROVE Newest'
<1>0. Rows /\ Turns /\ HintMoves /\ \A t \in Tabs : OutMove(t)
  BY RowsGrow, RequestsTurn, HintsMove, OutsMove
<1>1. /\ Recent(cookie)
      /\ \A t \in Tabs : wire[t]["refresh"].stage \in {"sent", "checked"} => Recent(wire[t]["refresh"].carried)
      /\ \A t \in Tabs, k \in Kinds : Told(t, k) => Recent(wire[t][k].answer)
      /\ \A t \in Tabs : inn[t] = "sent" /\ wire[t]["signIn"].stage = "landed" /\ cookie \in Tokens =>
            cookie[1] \in changed \/ wire[t]["signIn"].answer[1] <= cookie[1]
      /\ \A t \in Tabs : out[t].pc # "idle" => \A k \in Opened \ out[t].old, j \in out[t].old :
                                    k \in changed \/ j \in changed \/ j < k
  BY DEF Newest
<1>2. \A k \in Opened : k \in Nat /\ k <= Len(issued)
  BY KeptFacts
\* A request of another kind than a sign-in is not under way when a sign-in is kept.
<1>3. ASSUME NEW t \in Tabs, NEW k \in Kinds, k # "signIn", wire[t][k].stage # "none", NEW x, Recent(x)
      PROVE  Recent(x)'
  <2>1. Inside(t, k)
    BY <1>3 DEF Places, Guarded, LogoutsInside, Inside, Kinds
  <2>2. \A u \in Tabs : inn[u] # "sent"
    BY <1>3, <2>1 DEF Guarded, Exclusive, Inside, Kinds
  <2> QED
    BY <1>0, <1>3, <2>2, RecentStays
\* Nor is an answer to a sign-in of another tab, unless it is a password change's.
<1>4. ASSUME NEW t \in Tabs, Told(t, "signIn"), ~Drawn(t), NEW x, x = wire[t]["signIn"].answer PROVE Recent(x)'
  <2>1. Recent(x) /\ inn[t] \in {"sent", "changing"} /\ (inn[t] = "changing" => x[1] \in changed)
    BY <1>1, <1>4 DEF Kinds, Places, Answers, Told
  <2>2. ASSUME NEW u \in Tabs, Drawn(u), inn[u] = "sent" PROVE inn[t] # "sent"
    BY <1>4, <2>2 DEF Guarded, Exclusive, Inside, Kinds
  <2> QED
    BY <1>0, <2>1, <2>2, RecentStays
<1>5. ASSUME NEW t \in Tabs, NEW k \in Kinds, Told(t, k), wire'[t][k].stage # "none", NEW x, x = wire[t][k].answer
      PROVE  Recent(x)'
  <2>1. CASE k = "signIn"
    <3>1. Drawn(t) => wire'[t]["signIn"].stage = "none"
      BY OtherWires DEF Drawn, Kinds
    <3> QED
      BY <1>4, <1>5, <2>1, <3>1
  <2>2. CASE k # "signIn"
    <3>1. Recent(x) /\ wire[t][k].stage # "none"
      BY <1>1, <1>5 DEF Told
    <3> QED
      BY <1>3, <1>5, <2>2, <3>1
  <2> QED
    BY <2>1, <2>2
<1>6. ASSUME NEW x, x = cookie' PROVE Recent(x)'
  <2>1. CASE cookie' = cookie
    <3>1. Recent(x) /\ \A t \in Tabs : Drawn(t) /\ inn[t] = "sent" =>
                          (x \in Tokens => x[1] \in changed \/ wire[t]["signIn"].answer[1] <= x[1])
      BY <1>1, <1>6, <2>1 DEF Drawn
    <3> QED
      BY <1>0, <3>1, RecentStays
  <2>2. CASE cookie' # cookie
    <3>1. PICK u \in Tabs, j \in Kinds : Land(u, j)
      BY <2>2, OnlyLandingSetsCookie
    <3>2. UNCHANGED <<changed, opened>> /\ Told(u, j) /\ x = wire[u][j].answer
      BY <1>6, <2>2, <3>1 DEF Land, jobs, server, Told
    <3>3. Recent(x) /\ Opened' = Opened
      BY <1>1, <3>2, KeptMoves
    <3> QED
      BY <3>2, <3>3 DEF Recent, Latest
  <2> QED
    BY <2>1, <2>2
<1>7. ASSUME NEW t \in Tabs, wire'[t]["refresh"].stage \in {"sent", "checked"}, NEW x, x = wire'[t]["refresh"].carried
      PROVE  Recent(x)'
  <2>1. Turn(t, "refresh")
    BY <1>0 DEF Turns, Kinds
  <2>2. \/ wire[t]["refresh"].stage \in {"sent", "checked"} /\ x = wire[t]["refresh"].carried
        \/ x = cookie'
    BY <1>7, <2>1 DEF Turn
  <2>3. CASE wire[t]["refresh"].stage \in {"sent", "checked"} /\ x = wire[t]["refresh"].carried
    <3>1. Recent(x)
      BY <1>1, <2>3
    <3> QED
      BY <1>3, <2>3, <3>1 DEF Kinds
  <2> QED
    BY <1>6, <2>2, <2>3
<1>8. ASSUME NEW t \in Tabs, NEW k \in Kinds, Told(t, k)', NEW x, x = wire'[t][k].answer PROVE Recent(x)'
  <2>1. Turn(t, k) /\ wire'[t][k].stage \in {"answered", "landed"}
    BY <1>0, <1>8 DEF Turns, Told
  <2>2. (Told(t, k) /\ x = wire[t][k].answer) \/ Served(t, k)
    BY <1>8, <2>1 DEF Turn, Told
  <2>3. CASE Served(t, k) /\ k = "refresh"
    <3>1. CASE x \notin Tokens
      BY <3>1 DEF Recent
    <3>2. CASE x \in Tokens
      <4>1. PICK y : y = wire[t]["refresh"].carried
        OBVIOUS
      <4>2. y \in Tokens /\ x[1] = y[1] /\ wire[t]["refresh"].stage \in {"sent", "checked"}
        BY <1>8, <2>3, <3>2, <4>1, TokenFacts DEF Served
      <4>3. Recent(y)
        BY <1>1, <4>1, <4>2
      <4>4. Recent(y)'
        BY <1>3, <4>2, <4>3 DEF Kinds
      <4> QED
        BY <4>2, <4>4 DEF Recent
    <3> QED
      BY <3>1, <3>2
  <2>4. CASE Served(t, k) /\ k = "logout"
    <3>1. x \notin Tokens
      BY <1>8, <2>4, TokenFacts DEF Served
    <3> QED
      BY <3>1 DEF Recent
  <2>5. CASE Served(t, k) /\ k = "signIn"
    <3>1. x[1] = Len(issued) + 1 /\ Len(issued') = Len(issued) + 1 /\ Len(issued) \in Nat
      BY <1>8, <2>5, KeptFacts DEF Served
    <3>2. Opened' = Opened
      <4>1. \A u \in Tabs : ~Drawn(u)
        BY <3>1 DEF Drawn
      <4> QED
        BY <1>0, <4>1, StepKept, KeptMoves
    <3>3. \A j \in Opened' : j <= x[1]
      BY <1>2, <3>1, <3>2
    <3> QED
      BY <3>3 DEF Recent, Latest
  <2>6. wire'[t][k].stage # "none"
    BY <2>1
  <2> QED
    BY <1>5, <2>2, <2>3, <2>4, <2>5, <2>6 DEF Kinds
<1>9. ASSUME NEW t \in Tabs, inn'[t] = "sent", wire'[t]["signIn"].stage = "landed", cookie' \in Tokens
       PROVE  cookie'[1] \in changed' \/ wire'[t]["signIn"].answer[1] <= cookie'[1]
  <2>1. Turn(t, "signIn") /\ "signIn" \in Kinds /\ changed \subseteq changed'
    BY <1>0 DEF Turns, Kinds, Rows
  <2>2. inn[t] = "sent"
    <3>1. Told(t, "signIn")'
      BY <1>9 DEF Told
    <3> QED
      BY <1>9, <3>1, InnMoves
  <2>3. Inside(t, "signIn")
    BY <2>2 DEF Inside
  <2>4. CASE wire'[t]["signIn"] = wire[t]["signIn"]
    <3>1. CASE cookie' = cookie
      BY <1>1, <1>9, <2>1, <2>2, <2>4, <3>1
    <3>2. CASE cookie' # cookie
      BY <1>9, <2>1, <2>3, <2>4, <3>2, CookieUnderLock
    <3> QED
      BY <3>1, <3>2
  <2>5. CASE wire'[t]["signIn"] # wire[t]["signIn"]
    <3>1. /\ wire[t]["signIn"].stage = "answered" /\ wire'[t]["signIn"].answer = wire[t]["signIn"].answer
          /\ cookie' = IF wire[t]["signIn"].answer \in {Refused, Busy} THEN cookie ELSE wire[t]["signIn"].answer
      BY <1>9, <2>1, <2>5 DEF Turn
    <3>2. wire[t]["signIn"].answer \in Tokens
      BY <2>1, <3>1, Parts DEF WiresOK, Fit
    <3>3. cookie' = wire'[t]["signIn"].answer
      BY <3>1, <3>2, TokenFacts
    <3>4. cookie'[1] \in Nat
      BY <1>9, TokenFacts
    <3> QED
      BY <3>3, <3>4
  <2> QED
    BY <2>4, <2>5
<1>10. ASSUME NEW t \in Tabs, out'[t].pc # "idle", NEW k \in Opened' \ out'[t].old, NEW j \in out'[t].old
       PROVE  k \in changed' \/ j \in changed' \/ j < k
  <2>1. OutMove(t) /\ changed \subseteq changed'
    BY <1>0 DEF Rows
  <2>2. out[t].pc # "idle" /\ out'[t].old = out[t].old
    BY <1>10, <2>1, KeptMoves DEF OutMove
  <2>3. CASE k \in Opened
    BY <1>1, <1>10, <2>1, <2>2, <2>3
  <2>4. CASE k \notin Opened
    <3>1. PICK u \in Tabs : Drawn(u)
      <4>1. ~UNCHANGED opened
        BY <1>10, <2>4, KeptMoves
      <4> QED
        BY <1>0, <4>1, StepKept
    <3>2. k = wire[u]["signIn"].answer[1]
      BY <1>10, <2>4, <3>1, KeptMoves
    <3>3. Told(u, "signIn")
      BY <3>1 DEF Drawn, Told
    <3>4. PICK x : x = wire[u]["signIn"].answer
      OBVIOUS
    <3>5. Recent(x) /\ x \in Tokens
      <4>1. Fit("signIn", wire[u]["signIn"])
        BY Parts DEF WiresOK, Kinds
      <4> QED
        BY <1>1, <3>3, <3>4, <4>1 DEF Told, Fit, Kinds
    <3>6. k \in changed \/ \A m \in Opened : m \in changed \/ m <= k
      BY <3>2, <3>4, <3>5 DEF Recent, Latest
    <3>7. j \in Opened /\ j \in Nat /\ k \in Nat
      BY <1>2, <1>10, <2>2, <3>2, <3>4, <3>5, TokenFacts DEF SignOuts
    <3> QED
      BY <2>1, <2>4, <3>6, <3>7
  <2> QED
    BY <2>3, <2>4
<1>11. Recent(cookie)'
  <2>1. \A x : x = cookie' => Recent(x)'
    BY <1>6
  <2> QED
    BY <2>1 DEF Recent
<1>12. \A t \in Tabs : wire'[t]["refresh"].stage \in {"sent", "checked"} => Recent(wire[t]["refresh"].carried)'
  <2>1. \A t \in Tabs : wire'[t]["refresh"].stage \in {"sent", "checked"} =>
            \A x : x = wire'[t]["refresh"].carried => Recent(x)'
    BY <1>7
  <2> QED
    BY <2>1 DEF Recent
<1>13. \A t \in Tabs, k \in Kinds : Told(t, k)' => Recent(wire[t][k].answer)'
  <2>1. \A t \in Tabs, k \in Kinds : Told(t, k)' => \A x : x = wire'[t][k].answer => Recent(x)'
    BY <1>8
  <2> QED
    BY <2>1 DEF Recent
<1> QED
  BY <1>9, <1>10, <1>11, <1>12, <1>13 DEF Newest

(***************************************************************************)
(* Sign-outs.                                                              *)
(***************************************************************************)
\* The sign-out of t is under way before and after the step.
LEMMA StillOut ==
    ASSUME Types, Guarded, Guarded', \A t \in Tabs : OutMove(t), [Next]_vars, NEW t \in Tabs,
           wire'[t]["logout"].stage \in {"answered", "landed"}, Turns
    PROVE  /\ wire[t]["logout"].stage # "none" /\ Inside(t, "logout") /\ out[t].pc = "sent" /\ out'[t].pc = "sent"
           /\ out'[t].old = out[t].old /\ out'[t].id = out[t].id
<1>1. out'[t].pc = "sent"
  BY DEF Guarded, LogoutsInside
<1>2. wire[t]["logout"].stage # "none"
  <2>1. Turn(t, "logout")
    BY DEF Turns, Kinds
  <2> QED
    BY <2>1 DEF Turn, Served
<1>3. out[t].pc = "sent"
  BY <1>2 DEF Guarded, LogoutsInside
<1> QED
  BY <1>1, <1>2, <1>3 DEF Inside, OutMove

LEMMA EndingKept ==
    ASSUME Types, Types', Places, Guarded, Guarded', Ids, Answers, SignOuts, [Next]_vars, Ending PROVE Ending'
<1>0. Rows /\ Turns /\ HintMoves /\ \A t \in Tabs : OutMove(t)
  BY RowsGrow, RequestsTurn, HintsMove, OutsMove
<1>1. \A t \in Tabs :
        /\ out[t].pc = "sent" => hint = None \/ hint[1] = out[t].id \/ ~HintOfSignIn
        /\ wire[t]["logout"].stage = "landed" /\ wire[t]["logout"].answer # Busy =>
            cookie = None \/ cookie[1] \notin out[t].old
        /\ Told(t, "logout") => wire[t]["logout"].answer \in {None, Busy}
  BY DEF Ending
<1>2. ASSUME NEW t \in Tabs, out'[t].pc = "sent", hint' # None
      PROVE  hint'[1] = out'[t].id \/ ~HintOfSignIn'
  <2>1. IdOf(hint') = hint'[1] /\ hint'[1] \in Nat /\ lastId \in Nat /\ None \notin Nat
    BY <1>2, NextHint, KeptFacts
  <2>2. out[t].pc # "idle" /\ out'[t].id = out[t].id /\ out'[t].old = out[t].old
    BY <1>0, <1>2 DEF OutMove
  <2>3. CASE out[t].pc # "sent"
    <3>1. ~Replaced(t) /\ hint' = hint
      BY <1>0, <1>2, <2>2, <2>3 DEF OutMove
    <3> QED
      BY <1>2, <2>1, <2>2, <3>1 DEF Replaced
  <2>4. CASE out[t].pc = "sent"
    <3>1. CASE UNCHANGED <<lastId, opened>> /\ IdOf(hint') = IdOf(hint)
      <4>1. hint # None /\ hint[1] = hint'[1]
        BY <1>2, <2>1, <3>1, HintFacts, Parts DEF IdOf
      <4>2. hint[1] = out[t].id \/ ~HintOfSignIn
        BY <1>1, <2>4, <4>1
      <4>3. HintOfSignIn' => HintOfSignIn
        <5>1. Kept' = Kept /\ changed \subseteq changed'
          BY <1>0, <3>1, KeptMoves DEF Rows
        <5>2. ASSUME HintOfSignIn' PROVE HintOfSignIn
          <6>1. PICK kept \in Kept' : kept[1] \notin changed' /\ kept[2] = IdOf(hint')
            BY <5>2 DEF HintOfSignIn
          <6>2. kept \in Kept /\ kept[1] \notin changed /\ kept[2] = IdOf(hint)
            BY <3>1, <5>1, <6>1
          <6> QED
            BY <6>2 DEF HintOfSignIn
        <5> QED
          BY <5>2
      <4> QED
        BY <2>2, <4>1, <4>2, <4>3
    <3>2. CASE \E u \in Tabs : ref[u].pc \in {"first", "second"}
      BY <2>4, <3>2 DEF Guarded, Exclusive, Inside, Kinds
    <3>3. ASSUME NEW u \in Tabs, Drawn(u) PROVE ~HintOfSignIn'
      <4>1. PICK x : x = wire[u]["signIn"].answer[1]
        OBVIOUS
      <4>2. Kept' = Kept \cup {<<x, lastId + 1>>} /\ IdOf(hint') = lastId + 1 /\ changed' = changed
        BY <3>3, <4>1, KeptMoves DEF Drawn
      <4>3. x \in changed
        <5>1. inn[u] = "changing"
          BY <2>4, <3>3 DEF Guarded, Exclusive, Inside, Kinds, Drawn
        <5> QED
          BY <3>3, <4>1, <5>1 DEF Drawn, Answers, Told
      <4>4. \A kept \in Kept : kept[2] # lastId + 1
        BY <2>1, KeptFacts DEF Ids
      <4> QED
        BY <4>2, <4>3, <4>4 DEF HintOfSignIn
    <3> QED
      BY <1>0, <1>2, <3>1, <3>2, <3>3 DEF HintMoves
  <2> QED
    BY <2>3, <2>4
<1>3. ASSUME NEW t \in Tabs, Told(t, "logout")' PROVE wire'[t]["logout"].answer \in {None, Busy}
  <2>1. Turn(t, "logout")
    BY <1>0 DEF Turns, Kinds
  <2>2. (Told(t, "logout") /\ wire'[t]["logout"].answer = wire[t]["logout"].answer) \/ Served(t, "logout")
    BY <1>3, <2>1 DEF Turn, Told
  <2> QED
    BY <1>1, <2>2 DEF Served
<1>4. ASSUME NEW t \in Tabs, wire'[t]["logout"].stage = "landed", wire'[t]["logout"].answer # Busy, cookie' # None
      PROVE  cookie'[1] \notin out'[t].old
  <2>1. Turn(t, "logout")
    BY <1>0 DEF Turns, Kinds
  <2>2. Inside(t, "logout") /\ out'[t].old = out[t].old /\ out[t].pc = "sent"
    BY <1>0, <1>4, StillOut
  <2>3. CASE wire'[t]["logout"] = wire[t]["logout"]
    <3>1. CASE cookie' = cookie
      BY <1>1, <1>4, <2>2, <2>3, <3>1
    <3>2. CASE cookie' # cookie
      <4>1. cookie'[1] \notin Opened
        BY <1>4, <2>2, <2>3, <3>2, CookieUnderLock DEF Kinds
      <4> QED
        BY <2>2, <4>1 DEF SignOuts
    <3> QED
      BY <3>1, <3>2
  <2>4. CASE wire'[t]["logout"] # wire[t]["logout"]
    <3>1. /\ Told(t, "logout") /\ wire'[t]["logout"].answer = wire[t]["logout"].answer
          /\ cookie' = IF wire[t]["logout"].answer \in {Refused, Busy} THEN cookie ELSE wire[t]["logout"].answer
      BY <1>4, <2>1, <2>4 DEF Turn, Told
    <3>2. wire[t]["logout"].answer = None
      BY <1>1, <1>4, <3>1
    <3> QED
      BY <1>4, <3>1, <3>2, TokenFacts
  <2> QED
    BY <2>3, <2>4
<1>5. \A t \in Tabs : out'[t].pc = "sent" => hint' = None \/ hint'[1] = out'[t].id \/ ~HintOfSignIn'
  BY <1>2
<1>6. \A t \in Tabs : wire'[t]["logout"].stage = "landed" /\ wire'[t]["logout"].answer # Busy =>
            cookie' = None \/ cookie'[1] \notin out'[t].old
  BY <1>4
<1> QED
  BY <1>3, <1>5, <1>6 DEF Ending

(***************************************************************************)
(* A single session.                                                       *)
(***************************************************************************)
LEMMA SingleKept == ASSUME Types, Types', [Next]_vars, Single PROVE Single'
<1>1. Rows /\ Turns
  BY RowsGrow, RequestsTurn
<1>2. Len(issued) # 0 /\ Len(issued) \in Nat /\ Len(issued') \in Nat /\ Len(issued) <= Len(issued')
  BY <1>1, Parts DEF Single, Rows, Types, ServerOK
<1> SUFFICES ASSUME Len(issued') = 1
    PROVE  /\ cookie' = None => 1 \in revoked'
           /\ \A t \in Tabs :
                /\ wire'[t]["logout"].stage \in {"sent", "checked"} /\ wire'[t]["logout"].carried = None => 1 \in revoked'
                /\ Told(t, "logout")' /\ wire'[t]["logout"].answer # Busy => 1 \in revoked'
  BY <1>2 DEF Single
<1>3. /\ revoked \subseteq revoked'
      /\ cookie = None => 1 \in revoked
      /\ \A t \in Tabs :
            /\ wire[t]["logout"].stage \in {"sent", "checked"} /\ wire[t]["logout"].carried = None => 1 \in revoked
            /\ Told(t, "logout") /\ wire[t]["logout"].answer # Busy => 1 \in revoked
  <2>1. Len(issued) = 1
    BY <1>2
  <2> QED
    BY <1>1, <2>1 DEF Single, Rows
<1>4. ASSUME cookie' = None PROVE 1 \in revoked'
  <2>1. CASE cookie' = cookie
    BY <1>3, <1>4, <2>1
  <2>2. CASE cookie' # cookie
    <3>1. PICK u \in Tabs, j \in Kinds : Land(u, j)
      BY <2>2, OnlyLandingSetsCookie
    <3>2. Told(u, j) /\ wire[u][j].answer = None /\ Fit(j, wire[u][j])
      BY <1>4, <2>2, <3>1, Parts DEF Land, Told, WiresOK
    <3>3. j = "logout"
      BY <3>2, TokenFacts DEF Fit, Told, Kinds
    <3> QED
      BY <1>3, <3>2, <3>3, TokenFacts
  <2> QED
    BY <2>1, <2>2
<1>5. ASSUME NEW t \in Tabs, wire'[t]["logout"].stage \in {"sent", "checked"}, wire'[t]["logout"].carried = None
      PROVE  1 \in revoked'
  <2>1. Turn(t, "logout")
    BY <1>1 DEF Turns, Kinds
  <2>2. \/ wire[t]["logout"].stage \in {"sent", "checked"} /\ wire[t]["logout"].carried = None
        \/ cookie' = None
    BY <1>5, <2>1 DEF Turn
  <2> QED
    BY <1>3, <1>4, <2>2
<1>6. ASSUME NEW t \in Tabs, Told(t, "logout")', wire'[t]["logout"].answer # Busy PROVE 1 \in revoked'
  <2>1. Turn(t, "logout")
    BY <1>1 DEF Turns, Kinds
  <2>2. (Told(t, "logout") /\ wire'[t]["logout"].answer = wire[t]["logout"].answer) \/ Served(t, "logout")
    BY <1>6, <2>1 DEF Turn, Told
  <2>3. CASE Served(t, "logout")
    <3>1. /\ wire[t]["logout"].stage \in {"sent", "checked"}
          /\ wire[t]["logout"].carried = None \/ wire[t]["logout"].carried[1] \in revoked'
      BY <1>6, <2>3 DEF Served
    <3>2. CASE wire[t]["logout"].carried = None
      BY <1>3, <3>1, <3>2
    <3>3. CASE wire[t]["logout"].carried[1] \in revoked'
      <4>1. \A s \in revoked' : s \in Nat /\ 1 <= s /\ s <= 1
        <5>1. \A s \in revoked' : s \in 1..Len(issued')
          BY DEF Types, ServerOK
        <5> QED
          BY <5>1
      <4>2. PICK s : s = wire[t]["logout"].carried[1]
        OBVIOUS
      <4>3. s \in revoked' /\ s = 1
        BY <3>3, <4>1, <4>2
      <4> QED
        BY <4>3
    <3> QED
      BY <3>1, <3>2, <3>3
  <2> QED
    BY <1>3, <1>6, <2>2, <2>3
<1> QED
  BY <1>4, <1>5, <1>6

(***************************************************************************)
(* Two tabs that race without Web Locks.                                   *)
(***************************************************************************)
\* The server turned down a token it would still turn down.
Refusals ==
    \A t \in Tabs : Told(t, "refresh") /\ wire[t]["refresh"].answer = Refused =>
        ~Live(wire[t]["refresh"].carried)

\* With one session, no sign-in has been answered.
Unanswered == Len(issued) = 1 => \A t \in Tabs : ~Told(t, "signIn")

\* No tab signs out, no refresh is to be dropped, and the hint is there.
Undisturbed == hint # None /\ \A t \in Tabs : out[t] = IdleOut /\ ~ref[t].stale

\* The next token is in the hands of tab t: the cookie is set, its script has
\* still to run.
Wins(t) == wire[t]["refresh"].stage = "landed" /\ wire[t]["refresh"].answer \in Tokens
Winner(t) == \E u \in Tabs : u # t /\ Wins(u)

\* While the hint has not moved, the cookie tab t sent is the browser's, or its
\* successor is in another tab's hands.
Contest(t) ==
    LET w == wire[t]["refresh"] IN
    /\ ref[t].pc \in {"first", "settle"} => ref[t].before \in Nat \X Nat /\ ref[t].before[2] <= hint[2]
    /\ hint = ref[t].before =>
        /\ ref[t].pc = "first" /\ (w.stage \in {"sent", "checked"} \/ (Told(t, "refresh") /\ w.answer = Refused)) =>
              w.carried = cookie \/ Winner(t)
        /\ ref[t].pc = "settle" => ~Live(cookie) \/ Winner(t)

Race == Undisturbed /\ \A t \in Tabs : Contest(t)

LEMMA RefusalsKept == ASSUME Types, Types', Refusals, [Next]_vars PROVE Refusals'
<1>1. Rows /\ Turns
  BY RowsGrow, RequestsTurn
<1> SUFFICES ASSUME NEW t \in Tabs, Told(t, "refresh")', wire'[t]["refresh"].answer = Refused
             PROVE  ~Live(wire[t]["refresh"].carried)'
  BY DEF Refusals
<1>2. Turn(t, "refresh")
  BY <1>1 DEF Turns, Kinds
<1>3. ASSUME NEW x, x = wire[t]["refresh"].carried, ~Live(x), wire'[t]["refresh"].carried = x
      PROVE  ~Live(wire[t]["refresh"].carried)'
  BY <1>1, <1>3 DEF Rows, Live
<1>4. CASE /\ Told(t, "refresh") /\ wire[t]["refresh"].answer = Refused
           /\ wire'[t]["refresh"].carried = wire[t]["refresh"].carried
  BY <1>3, <1>4 DEF Refusals
<1>5. CASE Served(t, "refresh")
  <2>1. ~Live(wire[t]["refresh"].carried) /\ wire'[t]["refresh"].carried = wire[t]["refresh"].carried
    BY <1>5, TokenFacts, AuthConstants DEF Served
  <2> QED
    BY <1>3, <2>1
<1> QED
  BY <1>2, <1>4, <1>5 DEF Turn, Told

LEMMA UnansweredKept == ASSUME Types, Types', Single, Unanswered, [Next]_vars PROVE Unanswered'
<1>1. Rows /\ Turns
  BY RowsGrow, RequestsTurn
<1>2. Len(issued) \in Nat /\ Len(issued') \in Nat /\ Len(issued) <= Len(issued') /\ Len(issued) # 0
  BY <1>1 DEF Rows, Types, ServerOK, Single
<1> SUFFICES ASSUME Len(issued') = 1, NEW t \in Tabs, Told(t, "signIn")' PROVE FALSE
  BY DEF Unanswered
<1>3. Told(t, "signIn") \/ Served(t, "signIn")
  BY <1>1, AnswerMoves
<1>4. CASE Served(t, "signIn")
  BY <1>2, <1>4 DEF Served
<1>5. Len(issued) = 1
  BY <1>2
<1>6. ~Told(t, "signIn")
  BY <1>5 DEF Unanswered
<1> QED
  BY <1>3, <1>4, <1>6

\* What a step does in a race: nothing to the refreshers ...
Onlookers ==
    /\ UNCHANGED <<hint, ref, out>>
    /\ \A u \in Tabs : wire[u]["refresh"].stage = "landed" => wire'[u]["refresh"] = wire[u]["refresh"]

\* ... or one of them moves: it sends, it is turned down, it saves the next token
\* it holds, or it does something else and holds none.
Racer(u) ==
    /\ UNCHANGED <<cookie, out>> /\ ~ref'[u].stale
    /\ \A v \in Tabs : v # u => ref'[v] = ref[v] /\ wire'[v]["refresh"] = wire[v]["refresh"]
    /\ \/ UNCHANGED hint /\ ~Wins(u) /\ ref'[u].pc \notin {"first", "settle"}
       \/ /\ UNCHANGED hint /\ ~Wins(u) /\ ref'[u].pc = "first" /\ ref'[u].before = hint
          /\ wire'[u]["refresh"].carried = cookie /\ wire'[u]["refresh"].stage = "sent"
       \/ /\ UNCHANGED hint /\ ~Wins(u) /\ ref'[u].pc = "settle" /\ ref'[u].before = ref[u].before
          /\ ref[u].pc = "first" /\ Told(u, "refresh") /\ wire[u]["refresh"].answer = Refused
       \/ /\ ref'[u].pc = "idle"
          /\ hint' \in Nat \X Nat /\ hint'[2] = hint[2] + 1

LEMMA RefSettled ==
    ASSUME Types, NEW u \in Tabs, Settle(u)
    PROVE  ref'[u] = IdleRef /\ \A v \in Tabs : v # u => ref'[v] = ref[v]
BY Parts DEF RefOK, Settle

LEMMA RefStepped ==
    ASSUME Types, NEW u \in Tabs, NEW pc, Step(u, pc)
    PROVE  /\ ref'[u].pc = pc /\ ref'[u].before = ref[u].before /\ ref'[u].stale = ref[u].stale
           /\ \A v \in Tabs : v # u => ref'[v] = ref[v]
<1>1. ref \in [Tabs -> RefRec]
  BY Parts DEF RefOK
<1>2. PICK r : r = [ref[u] EXCEPT !.pc = pc]
  OBVIOUS
<1>3. ref' = [ref EXCEPT ![u] = r]
  BY <1>2 DEF Step
<1>4. r.pc = pc /\ r.before = ref[u].before /\ r.stale = ref[u].stale
  BY <1>1, <1>2 DEF RefRec
<1> QED
  BY <1>1, <1>3, <1>4

LEMMA RefAttempted ==
    ASSUME Types, NEW u \in Tabs, NEW pc, Attempt(u, pc)
    PROVE  /\ ref'[u].pc = pc /\ ref'[u].before = hint /\ ref'[u].stale = ref[u].stale
           /\ \A v \in Tabs : v # u => ref'[v] = ref[v]
           /\ wire'[u]["refresh"].carried = cookie /\ wire'[u]["refresh"].stage = "sent"
           /\ \A v \in Tabs : v # u => wire'[v]["refresh"] = wire[v]["refresh"]
<1>1. ref \in [Tabs -> RefRec]
  BY Parts DEF RefOK
<1>2. PICK r : r = [ref[u] EXCEPT !.pc = pc, !.before = hint]
  OBVIOUS
<1>3. ref' = [ref EXCEPT ![u] = r]
  BY <1>2 DEF Attempt
<1>4. r.pc = pc /\ r.before = hint /\ r.stale = ref[u].stale
  BY <1>1, <1>2, ZenonT(60) DEF RefRec
<1>5. Send(u, "refresh")
  BY DEF Attempt
<1>6. /\ wire'[u]["refresh"] = [stage |-> "sent", carried |-> cookie, answer |-> None]
      /\ \A v \in Tabs : v # u => wire'[v]["refresh"] = wire[v]["refresh"]
  BY <1>5, OtherWires DEF Kinds
<1> QED
  BY <1>1, <1>3, <1>4, <1>6

\* Giving up ends the tab's session here, unless the user's sign-out is at work.
LEMMA GivingUpEnds ==
    ASSUME Types, Undisturbed, NEW u \in Tabs, GiveUp(u) PROVE ended'[u]
<1>1. ~out[u].byUser
  BY DEF Undisturbed, IdleOut
<1>2. EndHere(u)
  BY <1>1 DEF GiveUp
<1> QED
  BY <1>2, Parts DEF EndHere, MemoryOK

LEMMA RefresherRaces ==
    ASSUME Types, Places, Undisturbed, NEW u \in Tabs, Refresher(u), ~ended'[u],
           wire[u]["refresh"].stage # "lost"
    PROVE  Racer(u)
<1>1. UNCHANGED cookie /\ ~ref[u].stale /\ out[u] = IdleOut
  BY DEF Refresher, RefreshStart, RefreshHanded, RefreshAnswer, RefreshLook, RefreshAgain, Undisturbed
<1>2. ref[u].pc \notin {"first", "second"} => ~Wins(u)
  BY DEF Places, Wins
<1>3. ~IdleRef.stale /\ IdleRef.pc = "idle"
  BY DEF IdleRef
<1>4. ASSUME Settle(u), ~Wins(u), UNCHANGED <<hint, out>>,
             \A v \in Tabs : v # u => wire'[v]["refresh"] = wire[v]["refresh"]
      PROVE  Racer(u)
  BY <1>1, <1>3, <1>4, RefSettled DEF Racer
<1>5. ASSUME NEW pc \in {"again", "handoff"}, Step(u, pc), ~Wins(u), UNCHANGED <<hint, out>>,
             \A v \in Tabs : v # u => wire'[v]["refresh"] = wire[v]["refresh"]
      PROVE  Racer(u)
  BY <1>1, <1>5, RefStepped DEF Racer
<1>6. ASSUME NEW pc \in {"first", "second"}, Attempt(u, pc), ~Wins(u), UNCHANGED <<hint, out>> PROVE Racer(u)
  BY <1>1, <1>6, RefAttempted DEF Racer
<1>7. CASE RefreshStart(u) \/ RefreshHanded(u) \/ RefreshAgain(u)
  <2>1. UNCHANGED <<hint, out>> /\ ~Wins(u)
    BY <1>2, <1>7 DEF RefreshStart, RefreshHanded, RefreshAgain
  <2>2. \/ UNCHANGED wire /\ (Settle(u) \/ \E pc \in {"again", "handoff"} : Step(u, pc))
        \/ \E pc \in {"first", "second"} : Attempt(u, pc)
    BY <1>7, ZenonT(60) DEF RefreshStart, RefreshHanded, RefreshAgain, Run
  <2> QED
    BY <1>4, <1>5, <1>6, <2>1, <2>2
<1>8. CASE RefreshLook(u)
  <2>1. ~Wins(u) /\ UNCHANGED wire
    BY <1>2, <1>8 DEF RefreshLook
  <2>2. Step(u, "again") /\ UNCHANGED <<hint, out>>
    BY <1>1, <1>8, GivingUpEnds DEF RefreshLook
  <2> QED
    BY <1>5, <2>1, <2>2
<1>9. CASE RefreshAnswer(u)
  <2>1. /\ Drop(u, "refresh") /\ ref[u].pc \in {"first", "second"} /\ wire[u]["refresh"].stage = "landed"
        /\ wire[u]["refresh"].answer \in Tokens \cup {Refused, Busy}
    <3>1. Drop(u, "refresh") /\ ref[u].pc \in {"first", "second"} /\ wire[u]["refresh"].stage = "landed"
      BY <1>9 DEF RefreshAnswer, Back
    <3>2. wire[u]["refresh"] \in WireRec /\ Fit("refresh", wire[u]["refresh"])
      BY Parts DEF WiresOK, Kinds
    <3> QED
      BY <3>1, <3>2 DEF WireRec, Fit, Cookies
  <2>2. \A v \in Tabs : v # u => wire'[v]["refresh"] = wire[v]["refresh"]
    BY <2>1, OtherWires DEF Kinds
  <2>3. CASE wire[u]["refresh"].answer \in {Refused, Busy}
    <3>1. ~Wins(u)
      BY <2>3, TokenFacts, AuthConstants DEF Wins, Tokens
    <3>2. \/ Settle(u) /\ UNCHANGED <<hint, out>>
          \/ Step(u, "again") /\ UNCHANGED <<hint, out>>
          \/ Step(u, "settle") /\ ref[u].pc = "first" /\ wire[u]["refresh"].answer = Refused /\ UNCHANGED <<hint, out>>
      BY <1>9, <2>3, GivingUpEnds DEF RefreshAnswer
    <3>3. CASE Step(u, "settle") /\ ref[u].pc = "first" /\ wire[u]["refresh"].answer = Refused /\ UNCHANGED <<hint, out>>
      BY <1>1, <2>1, <2>2, <3>1, <3>3, RefStepped DEF Racer, Told
    <3> QED
      BY <1>4, <1>5, <2>2, <3>1, <3>2, <3>3
  <2>4. CASE wire[u]["refresh"].answer \notin {Refused, Busy}
    <3>1. RefreshSaved(u, wire[u]["refresh"].answer)
      BY <1>1, <1>9, <2>1, <2>4 DEF RefreshAnswer
    <3>2. Settle(u) /\ UNCHANGED out /\ hint' = <<hint[1], hint[2] + 1>>
      BY <3>1 DEF RefreshSaved, SaveRefresh, Undisturbed
    <3>3. hint[1] \in Nat /\ hint[2] \in Nat
      BY Parts, HintFacts DEF Undisturbed
    <3>4. hint' \in Nat \X Nat /\ hint'[2] = hint[2] + 1
      BY <3>2, <3>3
    <3> QED
      BY <1>1, <1>3, <2>2, <3>2, <3>4, RefSettled DEF Racer
  <2> QED
    BY <2>3, <2>4
<1> QED
  BY <1>7, <1>8, <1>9 DEF Refresher

\* No sign-in comes to an end, while the session is the only one and nothing is lost.
LEMMA NoSignInAnswered ==
    ASSUME Types, Traces, Places, Unanswered, Len(issued) = 1, faults = 0, NEW u \in Tabs
    PROVE  ~SignInAnswer(u)
<1>1. wire[u]["signIn"].stage \notin {"landed", "lost"}
  BY DEF Unanswered, Told, Traces, Kinds
<1> QED
  BY <1>1 DEF SignInAnswer, Back

\* A browser that is quiet after a step was quiet before it.
LEMMA QuietBefore ==
    ASSUME Types, Traces, Traces', Places, Ended, Unanswered, Single, [Next]_vars, OneQuietSession'
    PROVE  OneQuietSession
<1>1. Len(issued) = 1
  <2>1. Len(issued) \in Nat
    BY Parts DEF ServerOK
  <2> QED
    BY <2>1, RowsGrow DEF Rows, Single, OneQuietSession
<1>2. faults = 0
  <2>1. faults \in Nat /\ faults' = 0
    BY DEF Traces, OneQuietSession
  <2>2. ASSUME NEW u \in Tabs, Fail(u) \/ TimeOut(u) \/ Reload(u) PROVE FALSE
    BY <2>1, <2>2 DEF Fail, TimeOut, Reload, Fault
  <2>3. ASSUME NEW u \in Tabs, Server(u) \/ Refresher(u) \/ SignOut(u) \/ SignIn(u) PROVE UNCHANGED faults
    BY <2>3 DEF Server, CheckRefresh, IssueRefresh, ServeLogout, ServeSignIn,
       Refresher, RefreshStart, RefreshHanded, RefreshAnswer, RefreshLook, RefreshAgain,
       SignOut, SignOutQueue, SignOutSend, SignOutAnswer, SignIn, SignInSend, SignInAnswer
  <2>4. ASSUME NEW u \in Tabs, \/ HandleSignal(u) \/ RefreshCall(u) \/ UserSignOut(u) \/ SessionRefused(u)
                               \/ RetrySignOut(u) \/ ForgetSession(u) \/ SignInCall(u)
                               \/ ChangePassword(u) \/ LoadUser(u) \/ (\E j \in Kinds : Land(u, j))
                               \/ \E token \in mail[u] : Adopt(u, token)
        PROVE  UNCHANGED faults
    BY <2>4 DEF HandleSignal, RefreshCall, UserSignOut, SessionRefused, RetrySignOut, ForgetSession,
       SignInCall, ChangePassword, LoadUser, Land, Adopt
  <2>5. ServeLate \/ UNCHANGED vars => UNCHANGED faults
    BY DEF ServeLate, vars
  <2> QED
    BY <2>1, <2>2, <2>3, <2>4, <2>5 DEF Next
<1>3. ASSUME NEW t \in Tabs, ended[t] PROVE FALSE
  <2> USE Parts DEF MemoryOK
  <2>1. ~ended'[t]
    BY DEF OneQuietSession
  <2>2. \A u \in Tabs : ~Reload(u) /\ ~SignInAnswer(u)
    <3>1. ASSUME NEW u \in Tabs, Reload(u) PROVE FALSE
      BY <1>2, <3>1 DEF Reload, Fault, OneQuietSession
    <3> QED
      BY <1>1, <1>2, <3>1, NoSignInAnswered
  <2>3. ASSUME NEW u \in Tabs, RefreshAnswer(u) PROVE ended'[t]
    <3>1. CASE ref[u].stale
      BY <1>3, <2>3, <3>1 DEF RefreshAnswer, memory
    <3>2. CASE ~ref[u].stale
      <4>1. u # t
        BY <1>3, <2>3, <3>2 DEF Ended, RefreshAnswer
      <4> QED
        BY <1>3, <2>3, <4>1 DEF RefreshAnswer, RefreshSaved, GiveUp, EndHere, memory
    <3> QED
      BY <3>1, <3>2
  <2>4. ASSUME NEW u \in Tabs, \/ Server(u) \/ RefreshStart(u) \/ RefreshHanded(u) \/ RefreshLook(u)
                               \/ RefreshAgain(u) \/ SignOut(u) \/ SignInSend(u) \/ Fail(u) \/ TimeOut(u)
        PROVE  ended'[t]
    BY <1>3, <2>4 DEF Server, CheckRefresh, IssueRefresh, ServeLogout, ServeSignIn,
       RefreshStart, RefreshHanded, RefreshLook, RefreshAgain, GiveUp, EndHere,
       SignOut, SignOutQueue, SignOutSend, SignOutAnswer, SignedOut, SignInSend, Fail, TimeOut, memory
  <2>5. ASSUME NEW u \in Tabs, \/ HandleSignal(u) \/ RefreshCall(u) \/ UserSignOut(u) \/ SessionRefused(u)
                               \/ RetrySignOut(u) \/ ForgetSession(u) \/ SignInCall(u)
                               \/ ChangePassword(u) \/ LoadUser(u) \/ (\E j \in Kinds : Land(u, j))
                               \/ \E token \in mail[u] : Adopt(u, token)
        PROVE  ended'[t]
    BY <1>3, <2>5 DEF HandleSignal, RefreshCall, UserSignOut, SessionRefused, RetrySignOut, ForgetSession,
       SignInCall, ChangePassword, LoadUser, Land, Adopt, EndHere, memory
  <2>6. ServeLate \/ UNCHANGED vars => ended'[t]
    BY <1>3 DEF ServeLate, vars, memory
  <2> QED
    BY <2>1, <2>2, <2>3, <2>4, <2>5, <2>6 DEF Next, Refresher, SignIn
<1> QED
  BY <1>1, <1>2, <1>3 DEF OneQuietSession

LEMMA RaceSteps ==
    ASSUME Types, Traces, Places, Unanswered, Undisturbed, OneQuietSession, OneQuietSession', [Next]_vars
    PROVE  Onlookers \/ \E u \in Tabs : Racer(u)
<1> USE Parts DEF MemoryOK
<1>0. /\ Len(issued) = 1 /\ faults = 0 /\ faults' = 0 /\ \A u \in Tabs : ~ended[u] /\ ~ended'[u]
      /\ \A u \in Tabs : out[u].pc = "idle" /\ ~out[u].byUser
  BY DEF OneQuietSession, Undisturbed, IdleOut
<1>1. wire \in [Tabs -> [Kinds -> WireRec]]
  BY DEF WiresOK
<1>2. ASSUME NEW t \in Tabs, Refresher(t) PROVE Racer(t)
  <2>1. wire[t]["refresh"].stage # "lost"
    BY <1>0 DEF Traces, Kinds
  <2> QED
    BY <1>0, <1>2, <2>1, RefresherRaces
<1>3. ASSUME NEW t \in Tabs, RefreshCall(t) PROVE Racer(t)
  <2>1. PICK r : r = [IdleRef EXCEPT !.pc = "waiting", !.base = access[t], !.gen = hint]
    OBVIOUS
  <2>2. r.pc = "waiting" /\ ~r.stale
    BY <2>1 DEF IdleRef
  <2>3. ref' = [ref EXCEPT ![t] = r] /\ ref[t].pc = "idle" /\ UNCHANGED <<hint, cookie, out, wire>>
    BY <1>3, <2>1 DEF RefreshCall, browser
  <2>4. ~Wins(t)
    BY <2>3 DEF Wins, Places
  <2> QED
    BY <2>2, <2>3, <2>4 DEF Racer, RefOK
<1>4. ASSUME NEW t \in Tabs, Fail(t) \/ TimeOut(t) \/ Reload(t) PROVE FALSE
  BY <1>0, <1>4 DEF Fail, TimeOut, Reload, Fault
<1>5. ASSUME NEW t \in Tabs, UserSignOut(t) \/ SessionRefused(t) PROVE FALSE
  BY <1>0, <1>5 DEF UserSignOut, SessionRefused, EndHere
<1>6. ASSUME NEW t \in Tabs, HandleSignal(t) PROVE Onlookers
  BY <1>0, <1>6 DEF HandleSignal, EndHere, Onlookers, jobs
<1>7. ASSUME NEW t \in Tabs, SignOut(t) \/ RetrySignOut(t) \/ ForgetSession(t) PROVE FALSE
  BY <1>0, <1>7 DEF SignOut, SignOutQueue, SignOutSend, SignOutAnswer, RetrySignOut, ForgetSession
<1>8. ASSUME NEW t \in Tabs, SignIn(t) \/ ChangePassword(t) PROVE Onlookers
  <2>1. SignInSend(t) \/ ChangePassword(t)
    BY <1>0, <1>8, NoSignInAnswered DEF SignIn
  <2>2. UNCHANGED <<hint, ref, out>> /\ Send(t, "signIn")
    BY <2>1 DEF SignInSend, ChangePassword, browser
  <2> QED
    BY <2>2, OtherWires DEF Onlookers, Kinds
<1>9. ASSUME NEW t \in Tabs, SignInCall(t) \/ LoadUser(t) \/ (\E token \in mail[t] : Adopt(t, token)) PROVE Onlookers
  BY <1>9 DEF SignInCall, LoadUser, Adopt, Onlookers, browser, jobs
<1>10. ASSUME NEW t \in Tabs, NEW j \in Kinds, Land(t, j) PROVE Onlookers
  <2>1. wire' = [wire EXCEPT ![t][j].stage = "landed"] /\ wire[t][j].stage = "answered" /\ UNCHANGED <<hint, ref, out>>
    BY <1>10 DEF Land, jobs
  <2>2. \A u \in Tabs : ~(u = t /\ j = "refresh") => wire'[u]["refresh"] = wire[u]["refresh"]
    BY <1>1, <2>1 DEF Kinds
  <2> QED
    BY <2>1, <2>2 DEF Onlookers
<1>11. ASSUME NEW t \in Tabs, Server(t) PROVE Onlookers
  <2>1. PICK j \in Kinds : wire[t][j].stage \in {"sent", "checked"} /\ \E w : wire' = [wire EXCEPT ![t][j] = w]
    <3>1. ASSUME NEW k \in Kinds, NEW a, Answer(t, k, a) PROVE \E w : wire' = [wire EXCEPT ![t][k] = w]
      <4>1. wire' = [wire EXCEPT ![t][k] = [wire[t][k] EXCEPT !.stage = "answered", !.answer = a]]
        BY <1>1, <3>1, ZenonT(60) DEF Answer
      <4> QED
        BY <4>1
    <3>2. CASE CheckRefresh(t)
      BY <3>2 DEF CheckRefresh, Kinds
    <3>3. CASE IssueRefresh(t)
      BY <3>1, <3>3 DEF IssueRefresh, Kinds
    <3>4. CASE ServeLogout(t)
      BY <3>1, <3>4 DEF ServeLogout, Kinds
    <3>5. CASE ServeSignIn(t)
      BY <3>1, <3>5 DEF ServeSignIn, Kinds
    <3> QED
      BY <1>11, <3>2, <3>3, <3>4, <3>5 DEF Server
  <2>2. UNCHANGED <<hint, ref, out>>
    BY <1>11 DEF Server, CheckRefresh, IssueRefresh, ServeLogout, ServeSignIn, browser, jobs
  <2>3. \A u \in Tabs : ~(u = t /\ j = "refresh") => wire'[u]["refresh"] = wire[u]["refresh"]
    BY <1>1, <2>1 DEF Kinds
  <2> QED
    BY <2>1, <2>2, <2>3 DEF Onlookers
<1>12. CASE ServeLate \/ UNCHANGED vars
  BY <1>12 DEF ServeLate, vars, browser, jobs, Onlookers
<1> QED
  BY <1>2, <1>3, <1>4, <1>5, <1>6, <1>7, <1>8, <1>9, <1>10, <1>11, <1>12 DEF Next

\* No sign-out is sent.
NoLogouts == \A t \in Tabs : wire[t]["logout"].stage = "none"

LEMMA LogoutsRest ==
    ASSUME Types, Undisturbed, NoLogouts, [Next]_vars PROVE NoLogouts'
<1>1. ASSUME NEW t \in Tabs, Refresher(t) PROVE NoLogouts'
  <2>1. UNCHANGED wire \/ Send(t, "refresh") \/ Drop(t, "refresh")
    BY <1>1, ZenonT(60) DEF Refresher, RefreshStart, RefreshHanded, RefreshAnswer, RefreshLook, RefreshAgain, Run, Attempt
  <2> QED
    BY <2>1, OtherWires DEF NoLogouts, Kinds
<1>2. ASSUME NEW t \in Tabs, SignIn(t) \/ ChangePassword(t) PROVE NoLogouts'
  <2>1. Send(t, "signIn") \/ Drop(t, "signIn")
    BY <1>2 DEF SignIn, SignInSend, SignInAnswer, ChangePassword
  <2> QED
    BY <2>1, OtherWires DEF NoLogouts, Kinds
<1>3. ASSUME NEW t \in Tabs, SignOut(t) PROVE FALSE
  <2>1. out[t].pc = "idle"
    BY DEF Undisturbed, IdleOut
  <2> QED
    BY <1>3, <2>1 DEF SignOut, SignOutQueue, SignOutSend, SignOutAnswer
<1>4. ASSUME NEW t \in Tabs, Server(t) \/ (\E j \in Kinds : Land(t, j)) \/ Fail(t) \/ TimeOut(t) \/ Reload(t) PROVE NoLogouts'
  BY <1>4, NetStartsNone DEF NoLogouts, Starts, Kinds
<1>5. ASSUME NEW t \in Tabs, \/ HandleSignal(t) \/ RefreshCall(t) \/ UserSignOut(t) \/ SessionRefused(t)
                             \/ RetrySignOut(t) \/ ForgetSession(t) \/ SignInCall(t) \/ LoadUser(t)
                             \/ \E token \in mail[t] : Adopt(t, token)
      PROVE  NoLogouts'
  BY <1>5 DEF HandleSignal, RefreshCall, UserSignOut, SessionRefused, RetrySignOut, ForgetSession,
     SignInCall, LoadUser, Adopt, NoLogouts
<1>6. CASE ServeLate \/ UNCHANGED vars
  BY <1>6 DEF ServeLate, vars, NoLogouts
<1> QED
  BY <1>1, <1>2, <1>3, <1>4, <1>5, <1>6 DEF Next

\* Whoever holds the next token keeps it until its script runs ...
LEMMA OnlookersRace ==
    ASSUME Types, Places, NoLogouts, \A t \in Tabs : ~Told(t, "signIn"), [Next]_vars, Onlookers,
           NEW t \in Tabs, Contest(t)
    PROVE  Contest(t)'
<1>0. Turn(t, "refresh") /\ Rows
  BY RequestsTurn, RowsGrow DEF Turns, Kinds
<1>1. Winner(t) => Winner(t)'
  BY DEF Winner, Wins, Onlookers
<1>2. ASSUME cookie' # cookie
      PROVE  (wire[t]["refresh"].stage = "answered" /\ wire[t]["refresh"].answer \in Tokens) \/ Winner(t)'
  <2>1. PICK u \in Tabs, k \in Kinds : Land(u, k)
    BY <1>2, OnlyLandingSetsCookie
  <2>2. /\ wire[u][k].stage = "answered" /\ wire[u][k].answer \notin {Refused, Busy}
        /\ wire' = [wire EXCEPT ![u][k].stage = "landed"]
    BY <1>2, <2>1 DEF Land
  <2>3. k = "refresh"
    BY <2>2 DEF NoLogouts, Told, Kinds
  <2>4. wire[u]["refresh"] \in WireRec /\ Fit("refresh", wire[u]["refresh"])
    BY Parts DEF WiresOK, Kinds
  <2>5. wire[u]["refresh"].answer \in Tokens
    BY <2>2, <2>3, <2>4 DEF WireRec, Fit, Cookies
  <2>6. PICK v : v = [wire[u]["refresh"] EXCEPT !.stage = "landed"]
    OBVIOUS
  <2>7. v.stage = "landed" /\ v.answer = wire[u]["refresh"].answer
    BY <2>4, <2>6 DEF WireRec
  <2>8. wire'[u]["refresh"] = v
    BY <2>2, <2>3, <2>6, Parts DEF WiresOK, Kinds
  <2> QED
    BY <2>2, <2>3, <2>5, <2>7, <2>8 DEF Winner, Wins
<1>3. ref' = ref /\ hint' = hint
  BY DEF Onlookers
<1>4. ASSUME hint = ref[t].before, ref[t].pc = "first",
             wire'[t]["refresh"].stage \in {"sent", "checked"} \/ (Told(t, "refresh")' /\ wire'[t]["refresh"].answer = Refused)
      PROVE  wire'[t]["refresh"].carried = cookie' \/ Winner(t)'
  <2>1. CASE wire'[t]["refresh"].stage = "sent" /\ wire'[t]["refresh"].carried = cookie /\ cookie' = cookie
    BY <2>1
  <2>2. CASE /\ wire'[t]["refresh"].carried = wire[t]["refresh"].carried
             /\ \/ wire[t]["refresh"].stage \in {"sent", "checked"}
                \/ Told(t, "refresh") /\ wire[t]["refresh"].answer = Refused
    <3>1. wire[t]["refresh"].carried = cookie \/ Winner(t)
      BY <1>4, <2>2 DEF Contest
    <3>2. ~(wire[t]["refresh"].stage = "answered" /\ wire[t]["refresh"].answer \in Tokens)
      BY <2>2, TokenFacts, AuthConstants DEF Tokens
    <3> QED
      BY <1>1, <1>2, <2>2, <3>1, <3>2
  <2> QED
    BY <1>0, <1>4, <2>1, <2>2 DEF Turn, Served, Told
<1>5. ASSUME hint = ref[t].before, ref[t].pc = "settle" PROVE ~Live(cookie)' \/ Winner(t)'
  <2>1. ~Live(cookie) \/ Winner(t)
    BY <1>5 DEF Contest
  <2>2. wire[t]["refresh"].stage = "none"
    BY <1>5 DEF Places
  <2>3. CASE cookie' = cookie
    BY <1>0, <1>1, <2>1, <2>3 DEF Live, Rows
  <2> QED
    BY <1>2, <2>2, <2>3
<1> QED
  BY <1>3, <1>4, <1>5 DEF Contest

\* ... and then the hint moves.
LEMMA RacerRaces ==
    ASSUME Types, Refusals, Undisturbed, [Next]_vars, NEW u \in Tabs, Racer(u), NEW t \in Tabs, Contest(t)
    PROVE  Contest(t)'
<1>1. Rows /\ hint \in Nat \X Nat
  BY RowsGrow, Parts DEF Undisturbed, Hints
<1>2. ~Live(cookie) => ~Live(cookie)'
  BY <1>1 DEF Racer, Rows, Live
<1>3. ASSUME ~Wins(u) \/ t = u, Winner(t) PROVE Winner(t)'
  BY <1>3 DEF Winner, Wins, Racer
<1>4. CASE t = u
  <2>1. CASE ref'[u].pc \notin {"first", "settle"}
    BY <1>4, <2>1 DEF Contest
  <2>2. CASE /\ UNCHANGED hint /\ ref'[u].pc = "first" /\ ref'[u].before = hint
             /\ wire'[u]["refresh"].carried = cookie
    <3>1. cookie' = cookie /\ hint[2] \in Nat
      BY <1>1 DEF Racer
    <3> QED
      BY <1>1, <1>4, <2>2, <3>1 DEF Contest
  <2>3. CASE /\ UNCHANGED hint /\ ref'[u].pc = "settle" /\ ref'[u].before = ref[u].before
             /\ ref[u].pc = "first" /\ Told(u, "refresh") /\ wire[u]["refresh"].answer = Refused
    <3>1. ~Live(wire[u]["refresh"].carried)
      BY <2>3 DEF Refusals
    <3>2. hint = ref[u].before => ~Live(cookie) \/ Winner(t)
      BY <1>4, <2>3, <3>1 DEF Contest
    <3>3. ref'[t].before \in Nat \X Nat /\ ref'[t].before[2] <= hint'[2]
      BY <1>4, <2>3 DEF Contest
    <3>4. hint' = ref'[t].before => ~Live(cookie)' \/ Winner(t)'
      BY <1>2, <1>3, <1>4, <2>3, <3>2
    <3> QED
      BY <1>4, <2>3, <3>3, <3>4 DEF Contest
  <2> QED
    BY <2>1, <2>2, <2>3 DEF Racer
<1>5. CASE t # u
  <2>1. ref'[t] = ref[t] /\ wire'[t]["refresh"] = wire[t]["refresh"] /\ cookie' = cookie
    BY <1>5 DEF Racer
  <2>2. CASE UNCHANGED hint /\ ~Wins(u)
    BY <1>2, <1>3, <2>1, <2>2 DEF Contest, Told
  <2>3. CASE hint' \in Nat \X Nat /\ hint'[2] = hint[2] + 1
    <3>1. ASSUME ref[t].pc \in {"first", "settle"}
          PROVE  ref[t].before \in Nat \X Nat /\ ref[t].before[2] < hint'[2]
      <4>1. ref[t].before \in Nat \X Nat /\ ref[t].before[2] <= hint[2]
        BY <3>1 DEF Contest
      <4>2. hint[2] \in Nat /\ ref[t].before[2] \in Nat
        BY <1>1, <4>1
      <4> QED
        BY <2>3, <4>1, <4>2
    <3>2. ASSUME ref[t].pc \in {"first", "settle"}
          PROVE  ref[t].before[2] <= hint'[2] /\ hint' # ref[t].before
      <4>1. ref[t].before[2] \in Nat /\ hint'[2] \in Nat /\ ref[t].before[2] < hint'[2]
        BY <2>3, <3>1, <3>2
      <4> QED
        BY <4>1
    <3> QED
      BY <2>1, <3>1, <3>2 DEF Contest
  <2> QED
    BY <2>2, <2>3 DEF Racer
<1> QED
  BY <1>4, <1>5

LEMMA StaysUndisturbed ==
    ASSUME Types, Undisturbed, Onlookers \/ \E u \in Tabs : Racer(u) PROVE Undisturbed'
<1>1. CASE Onlookers
  BY <1>1 DEF Onlookers, Undisturbed
<1>2. ASSUME NEW u \in Tabs, Racer(u) PROVE Undisturbed'
  <2>1. hint' # None
    BY <1>2, AuthConstants DEF Racer, Undisturbed
  <2> QED
    BY <1>2, <2>1 DEF Racer, Undisturbed
<1> QED
  BY <1>1, <1>2

\* A quiet browser, and what makes it so.
QuietRace == OneQuietSession => Race /\ NoLogouts
Contested == Refusals /\ Unanswered /\ Ended /\ QuietRace

LEMMA NextContested ==
    ASSUME Types, Types', Traces, Traces', Places, Single, Contested, [Next]_vars PROVE Contested'
<1>1. Refusals' /\ Unanswered' /\ Ended'
  BY RefusalsKept, UnansweredKept, NextEnded DEF Contested
<1>2. ASSUME OneQuietSession' PROVE Race' /\ NoLogouts'
  <2>1. OneQuietSession
    BY <1>2, QuietBefore DEF Contested
  <2>2. Undisturbed /\ NoLogouts /\ (\A t \in Tabs : Contest(t) /\ ~Told(t, "signIn"))
    BY <2>1 DEF Contested, QuietRace, Race, OneQuietSession, Unanswered
  <2>3. Onlookers \/ \E u \in Tabs : Racer(u)
    BY <1>2, <2>1, <2>2, RaceSteps DEF Contested
  <2>4. Undisturbed'
    BY <2>2, <2>3, StaysUndisturbed
  <2>5. NoLogouts'
    BY <2>2, LogoutsRest
  <2>6. \A t \in Tabs : Contest(t)'
    BY <2>2, <2>3, OnlookersRace, RacerRaces DEF Contested
  <2> QED
    BY <2>4, <2>5, <2>6 DEF Race
<1> QED
  BY <1>1, <1>2 DEF Contested, QuietRace

LEMMA InitContested == Init => Contested
<1> SUFFICES ASSUME Init PROVE Contested
  OBVIOUS
<1>1. /\ \A t \in Tabs, k \in Kinds : wire[t][k] = IdleWire
      /\ \A t \in Tabs : ref[t] = IdleRef /\ out[t] = IdleOut /\ ~ended[t]
      /\ hint = <<1, 0>>
  BY DEF Init
<1>2. hint # None
  BY <1>1, HintFacts
<1>3. Refusals /\ Unanswered /\ Ended /\ NoLogouts
  BY <1>1 DEF Refusals, Unanswered, Ended, NoLogouts, Told, IdleWire, Kinds
<1>4. Race
  BY <1>1, <1>2 DEF Race, Undisturbed, Contest, IdleRef
<1> QED
  BY <1>3, <1>4 DEF Contested, QuietRace

\* Nobody gives up in a quiet race over a cookie that lives.
LEMMA QuietGivingUp ==
    ASSUME Types, Contested, Places, [Next]_vars, OneQuietSession, NEW t \in Tabs, GivesUp(t), ref[t].pc # "second"
    PROVE  ~Live(cookie)
<1>0. Undisturbed /\ Contest(t)
  BY DEF Contested, QuietRace, Race
<1>1. /\ ref[t].pc \in {"first", "settle"} /\ ref'[t].pc = "idle" /\ faults' = faults /\ ~ref[t].stale
      /\ ref[t].pc = "first" => wire[t]["refresh"].stage = "landed" /\ wire[t]["refresh"].answer = Refused
  BY DEF GivesUp
<1>2. ASSUME ref'[t].pc = ref[t].pc PROVE FALSE
  BY <1>1, <1>2
<1>3. ASSUME NEW u \in Tabs, u # t, Settle(u) \/ (\E pc : Step(u, pc) \/ Attempt(u, pc)) PROVE FALSE
  BY <1>2, <1>3, RefSettled, RefStepped, RefAttempted
<1>4. ASSUME NEW u \in Tabs, RefreshStart(u) \/ RefreshHanded(u) \/ RefreshAgain(u) PROVE FALSE
  <2>1. u # t
    BY <1>1, <1>4 DEF RefreshStart, RefreshHanded, RefreshAgain
  <2>2. Settle(u) \/ (\E pc : Step(u, pc) \/ Attempt(u, pc))
    BY <1>4, ZenonT(60) DEF RefreshStart, RefreshHanded, RefreshAgain, Run
  <2> QED
    BY <1>3, <2>1, <2>2
<1>5. ASSUME NEW u \in Tabs, u # t, RefreshAnswer(u) \/ RefreshLook(u) PROVE FALSE
  BY <1>3, <1>5 DEF RefreshAnswer, RefreshLook, RefreshSaved, GiveUp
<1>6. ASSUME UNCHANGED ref PROVE FALSE
  BY <1>1, <1>6
<1>7. ASSUME NEW u \in Tabs, Server(u) \/ (\E j \in Kinds : Land(u, j)) \/ Fail(u) \/ TimeOut(u) PROVE UNCHANGED ref
  BY <1>7 DEF Server, CheckRefresh, IssueRefresh, ServeLogout, ServeSignIn, Land, Fail, TimeOut, jobs
<1>8. ASSUME NEW u \in Tabs, \/ SignIn(u) \/ SignOut(u) \/ SignInCall(u) \/ ChangePassword(u) \/ LoadUser(u)
                             \/ SessionRefused(u) \/ RetrySignOut(u) \/ ForgetSession(u)
                             \/ \E token \in mail[u] : Adopt(u, token)
      PROVE  UNCHANGED ref
  BY <1>8 DEF SignIn, SignInSend, SignInAnswer, SignOut, SignOutQueue, SignOutSend, SignOutAnswer,
     SignInCall, ChangePassword, LoadUser, SessionRefused, RetrySignOut, ForgetSession, Adopt, jobs
<1>9. ASSUME NEW u \in Tabs, ref' = Stale(u) PROVE FALSE
  <2>1. ref'[t].pc = ref[t].pc
    <3>1. ref \in [Tabs -> RefRec]
      BY Parts DEF RefOK
    <3>2. PICK r : r = [ref[u] EXCEPT !.stale = ref[u].pc # "idle"]
      OBVIOUS
    <3>3. ref' = [ref EXCEPT ![u] = r]
      BY <1>9, <3>2 DEF Stale
    <3>4. r.pc = ref[u].pc
      BY <3>1, <3>2 DEF RefRec
    <3> QED
      BY <3>1, <3>3, <3>4
  <2> QED
    BY <1>2, <2>1
<1>10. ASSUME NEW u \in Tabs, UserSignOut(u) \/ HandleSignal(u) PROVE FALSE
  BY <1>6, <1>9, <1>10 DEF UserSignOut, HandleSignal
<1>11. ASSUME NEW u \in Tabs, RefreshCall(u) PROVE FALSE
  <2>1. u # t /\ \E r : ref' = [ref EXCEPT ![u] = r]
    BY <1>1, <1>11 DEF RefreshCall
  <2> QED
    BY <1>2, <2>1, Parts DEF RefOK
<1>12. ASSUME NEW u \in Tabs, Reload(u) PROVE FALSE
  BY <1>1, <1>12 DEF Reload, Fault, OneQuietSession
<1>13. ServeLate \/ UNCHANGED vars => UNCHANGED ref
  BY DEF ServeLate, vars, jobs
<1>14. ASSUME RefreshAnswer(t) PROVE FALSE
  <2>1. wire[t]["refresh"].stage = "landed" /\ wire[t]["refresh"].answer = Refused /\ ref[t].pc = "first"
    BY <1>1, <1>14 DEF RefreshAnswer
  <2>2. Step(t, "again") \/ Step(t, "settle")
    BY <1>0, <1>1, <1>14, <2>1, AuthConstants DEF RefreshAnswer, Undisturbed
  <2> QED
    BY <1>1, <2>2, RefStepped
<1>15. ASSUME RefreshLook(t) PROVE ~Live(cookie)
  <2>1. hint = ref[t].before
    <3>1. ~Step(t, "again")
      BY <1>1, RefStepped
    <3> QED
      BY <1>1, <1>15, <3>1 DEF RefreshLook
  <2>2. ref[t].pc = "settle" /\ ~Winner(t)
    BY <1>15 DEF RefreshLook, Winner, Wins, Kinds
  <2> QED
    BY <1>0, <2>1, <2>2 DEF Contest
<1> QED
  BY <1>4, <1>5, <1>6, <1>7, <1>8, <1>10, <1>11, <1>12, <1>13, <1>14, <1>15 DEF Next, Refresher

(***************************************************************************)
(* The invariant, and the three properties of a step from a state where it  *)
(* holds.                                                                  *)
(***************************************************************************)
LockFacts == Guarded /\ Rejections /\ Newest /\ Ending
Lasting == Types /\ Traces /\ Places /\ Story /\ Single /\ (locks => LockFacts)

LEMMA InitLasting == Init => Lasting
<1> SUFFICES ASSUME Init PROVE Traces /\ Places /\ Story /\ Single /\ LockFacts
  BY InitTypes DEF Lasting
<1>1. /\ \A t \in Tabs, k \in Kinds : wire[t][k] = IdleWire
      /\ \A t \in Tabs : ref[t].pc = "idle" /\ out[t].pc = "idle" /\ inn[t] = "idle"
  BY DEF Init, IdleRef, IdleOut
<1>2. Traces /\ Places
  BY <1>1 DEF Init, Traces, Places, IdleWire, Kinds
<1>3. /\ Kept \subseteq {<<1, 1>>} /\ Opened \subseteq {1}
      /\ hint[1] = 1 /\ lastId = 1 /\ Len(issued) = 1 /\ cookie[1] = 1 /\ cookie # None
  <2>1. Kept \subseteq {<<1, 1>>}
    BY DEF Init, Kept
  <2>2. cookie # None
    BY TokenFacts DEF Init
  <2> QED
    BY <2>1, <2>2 DEF Init, Opened
<1>4. Story
  <2>1. Ids
    BY <1>3 DEF Ids
  <2> QED
    BY <1>1, <2>1 DEF Story, Answers, SignOuts, Told, IdleWire, Kinds
<1>5. Single
  BY <1>1, <1>3 DEF Single, Told, IdleWire, Kinds
<1>6. Guarded /\ Rejections /\ Ending
  BY <1>1 DEF Guarded, Exclusive, Inside, LogoutsInside, Rejections, Ending, Told, IdleWire, Kinds
<1>7. Newest
  <2>1. Recent(cookie)
    BY <1>3 DEF Recent, Latest
  <2> QED
    BY <1>1, <2>1 DEF Newest, Told, IdleWire, Kinds
<1> QED
  BY <1>2, <1>4, <1>5, <1>6, <1>7 DEF LockFacts

LEMMA NextLasting == Lasting /\ [Next]_vars => Lasting'
<1> SUFFICES ASSUME Lasting, [Next]_vars PROVE Lasting'
  OBVIOUS
<1>1. Types /\ Types' /\ Traces /\ Traces' /\ Places /\ Places' /\ Story /\ Story'
  BY NextTypes, NextTraces, NextPlaces, NextStory DEF Lasting
<1>2. Single'
  BY <1>1, SingleKept DEF Lasting
<1>3. ASSUME locks' PROVE LockFacts'
  <2>1. locks /\ Guarded /\ Rejections /\ Newest /\ Ending
    <3>1. setting' = setting
      BY <1>1, RowsGrow DEF Rows
    <3> QED
      BY <1>3, <3>1 DEF locks, Lasting, LockFacts
  <2>2. Ids /\ Answers /\ SignOuts
    BY <1>1 DEF Story
  <2>3. Guarded'
    BY <1>1, <2>1, NextGuarded
  <2>4. Rejections'
    BY <1>1, <2>1, <2>2, RejectionsKept
  <2>5. Newest'
    BY <1>1, <2>1, <2>2, NewestKept
  <2>6. Ending'
    BY <1>1, <2>1, <2>2, <2>3, EndingKept
  <2> QED
    BY <2>3, <2>4, <2>5, <2>6 DEF LockFacts
<1> QED
  BY <1>1, <1>2, <1>3 DEF Lasting

\* A refresher that is turned down and gives up, and so ends the session of every
\* tab, does so over a cookie the server would refuse.  With Web Locks that holds
\* whatever the other tabs did meanwhile and whichever answers were lost, and also
\* of the second rejection; the cookie may also be one a password change has just
\* set.  Without them, while the tabs of one session only refresh, it holds of the
\* first rejection, for every number of tabs and every order of their answers
\* (createRefresher's run(): the changed hint, settleMs, the second attempt).
THEOREM RejectionEndsDeadSession == Spec => RejectedRefreshEndsDeadSession
<1> DEFINE Safe(t) == GivesUp(t) /\ (locks \/ (ref[t].pc # "second" /\ OneQuietSession)) =>
                          ~Live(cookie) \/ JustChanged(cookie)
<1>1. Lasting /\ Contested /\ [Next]_vars => \A t \in Tabs : Safe(t)
  <2> SUFFICES ASSUME Lasting, Contested, [Next]_vars, NEW t \in Tabs, GivesUp(t),
                      locks \/ (ref[t].pc # "second" /\ OneQuietSession)
               PROVE  ~Live(cookie) \/ JustChanged(cookie)
    OBVIOUS
  <2>1. CASE locks
    <3>1. Rejections
      BY <2>1 DEF Lasting, LockFacts
    <3> QED
      BY <3>1 DEF Rejections, GivesUp, Told, Dead
  <2>2. CASE ref[t].pc # "second" /\ OneQuietSession
    BY <2>2, QuietGivingUp DEF Lasting
  <2> QED
    BY <2>1, <2>2
<1>2. Lasting /\ Contested /\ [Next]_vars => Contested'
  BY NextLasting, NextContested DEF Lasting
<1>3. Lasting /\ Contested /\ [Next]_vars => [\A t \in Tabs : Safe(t)]_vars
  BY <1>1
<1> QED
  BY <1>2, <1>3, InitLasting, NextLasting, InitContested, PTL DEF Spec, RejectedRefreshEndsDeadSession

\* The user is told the sign-out is complete only when no usable cookie is left
\* of a session the browser knew as it began, for every number of tabs,
\* sessions and faults (endOnServer, revoke_refresh_token: the whole chain).
\* Without Web Locks that is claimed for a browser that has known one session.
THEOREM SignOutLeavesNoCookie == Spec => ConfirmedSignOutLeavesNoCookie
<1> DEFINE Good(t) ==
             \/ ~Live(cookie) \/ cookie[1] \notin out[t].old
             \/ out[t].pc = "queued" /\ (HintOfSignIn => cookie[1] \in changed)
<1>1. ASSUME Lasting, [Next]_vars, NEW t \in Tabs, Confirmed(t), locks \/ Len(issued) = 1 PROVE Good(t)
  <2>1. /\ Types /\ Traces /\ Ids /\ SignOuts /\ Single /\ (locks => Newest /\ Ending)
        /\ cookie \in Cookies /\ Named(cookie)
    BY <1>1, Parts DEF Lasting, LockFacts, Story, BrowserOK
  <2>2. \/ out[t].pc = "queued" /\ Replaced(t)
        \/ out[t].pc = "sent" /\ wire[t]["logout"].stage = "landed" /\ wire[t]["logout"].answer # Busy
    BY <1>1, <2>1, OutEnds
  <2> SUFFICES ASSUME cookie \in Tokens, cookie[1] \in out[t].old, cookie[1] \notin revoked
               PROVE  out[t].pc = "queued" /\ (HintOfSignIn => cookie[1] \in changed)
    BY <2>1 DEF Live, Cookies
  <2>3. CASE out[t].pc = "sent" /\ wire[t]["logout"].stage = "landed" /\ wire[t]["logout"].answer # Busy
    <3>1. CASE locks
      BY <2>1, <2>3, <3>1, TokenFacts DEF Ending
    <3>2. CASE Len(issued) = 1
      <4>1. 1 \in revoked
        BY <2>1, <2>3, <3>2 DEF Single, Told
      <4>2. cookie[1] = 1
        BY <2>1, <3>2 DEF Named
      <4> QED
        BY <4>1, <4>2
    <3> QED
      BY <1>1, <3>1, <3>2
  <2>4. CASE out[t].pc = "queued" /\ Replaced(t)
    <3> SUFFICES ASSUME HintOfSignIn, cookie[1] \notin changed PROVE FALSE
      BY <2>4
    <3>1. PICK kept \in Kept : kept[1] \notin changed /\ kept[2] = IdOf(hint)
      BY DEF HintOfSignIn
    <3>2. kept[1] \in Opened \ out[t].old
      BY <2>1, <2>4, <3>1 DEF SignOuts, Replaced, Opened
    <3>3. kept[1] \in Nat /\ cookie[1] \in Nat /\ cookie[1] \in 1..Len(issued) /\ kept[1] \in 1..Len(issued)
      BY <2>1, <3>1, KeptFacts DEF Named
    <3>4. CASE locks
      <4>1. cookie[1] < kept[1]
        BY <2>1, <2>4, <3>1, <3>2, <3>4 DEF Newest
      <4>2. kept[1] <= cookie[1]
        BY <2>1, <3>1, <3>2, <3>4 DEF Newest, Recent, Latest
      <4> QED
        BY <3>3, <4>1, <4>2
    <3>5. CASE Len(issued) = 1
      <4>1. kept[1] = cookie[1]
        BY <3>3, <3>5
      <4> QED
        BY <3>2, <4>1
    <3> QED
      BY <1>1, <3>4, <3>5
  <2> QED
    BY <2>2, <2>3, <2>4
<1>2. Lasting /\ [Next]_vars =>
        [\A t \in Tabs : Confirmed(t) /\ (locks \/ Len(issued) = 1) => Good(t)]_vars
  BY <1>1
<1> QED
  BY <1>2, InitLasting, NextLasting, PTL DEF Spec, ConfirmedSignOutLeavesNoCookie

\* With Web Locks a sign-out under way, however late it is served, spares the
\* session of a sign-in kept after it began, for every number of tabs (signIn,
\* endOnServer: the sign-in ids are compared under the lock).
THEOREM NewerSignInIsSpared == Spec => SignOutSparesNewerSignIn
<1>1. ASSUME Lasting, [Next]_vars, NEW t \in Tabs, locks, SignOutActs(t), HintOfSignIn
      PROVE  cookie[1] \in out[t].old \/ cookie[1] \notin Opened
  <2>1. Types /\ Guarded /\ Guarded' /\ Ending /\ SignOuts
    BY <1>1, NextGuarded DEF Lasting, LockFacts, Story
  <2>2. out[t].pc = "sent"
    <3>1. Turns /\ \A u \in Tabs : OutMove(u)
      BY <1>1, <2>1, RequestsTurn, OutsMove
    <3> QED
      BY <1>1, <2>1, <3>1, StillOut DEF SignOutActs
  <2>3. hint # None
    <3>1. PICK kept \in Kept : kept[2] = IdOf(hint)
      BY <1>1 DEF HintOfSignIn
    <3> QED
      BY <2>1, <3>1, KeptFacts DEF IdOf
  <2>4. hint[1] = out[t].id
    BY <1>1, <2>1, <2>2, <2>3 DEF Ending
  <2>5. Opened \subseteq out[t].old
    BY <2>1, <2>2, <2>3, <2>4 DEF SignOuts
  <2> QED
    BY <2>5
<1>2. Lasting /\ [Next]_vars =>
        [\A t \in Tabs : locks /\ SignOutActs(t) /\ Live(cookie) /\ HintOfSignIn =>
            \/ cookie' = cookie /\ cookie[1] \notin revoked'
            \/ cookie[1] \in out[t].old
            \/ cookie[1] \notin Opened]_vars
  BY <1>1
<1> QED
  BY <1>2, InitLasting, NextLasting, PTL DEF Spec, SignOutSparesNewerSignIn
=============================================================================
