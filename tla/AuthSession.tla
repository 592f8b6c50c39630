---------------------------- MODULE AuthSession ----------------------------
(***************************************************************************)
(* The sign-in session that every tab of one browser shares:               *)
(* frontend/src/authTokens.js (session store, refresher, cookie calls), the *)
(* wiring in api.js and App.jsx, and the server side in                     *)
(* backend/apps/users/auth_views.py.                                        *)
(*                                                                          *)
(* Shared by the tabs: the refresh cookie, the sign-in hint in localStorage,*)
(* the Web Lock.  Per tab: the access token in memory, and up to one        *)
(* refresh, one sign-out and one sign-in (or password change) in progress.  *)
(* Every request is sent, served, answered and landed in separate steps, so *)
(* all of them interleave.                                                  *)
(*                                                                          *)
(* A refresh token is <<s, n>>: the n-th token of the server session s.     *)
(* The access token that came with it carries the same pair.                *)
(***************************************************************************)
EXTENDS Integers, Sequences, FiniteSets

CONSTANTS
    Tabs,         \* browser tabs of one profile
    NoTab,        \* nobody holds the lock
    None,         \* null: no cookie, no hint, no token
    Refused,      \* answer: 400, 401 or 403
    Busy,         \* answer: any other HTTP failure (429, 5xx)
    Settings      \* what a behaviour starts from, see Setting

\* Whether the browser has Web Locks, and the bounds of the behaviour: sessions
\* the server opens, refreshes started, and faults (lost answers, timeouts, 5xx
\* answers, reloads).
Setting == [locks : BOOLEAN, sessions : Nat \ {0}, refreshes : Nat, faults : Nat]

ASSUME AuthConstants ==
    /\ NoTab \notin Tabs
    /\ Settings \subseteq Setting
    /\ None \notin Nat /\ Refused # None /\ Busy # None /\ Refused # Busy
    /\ {None, Refused, Busy} \cap (Nat \X Nat) = {}

VARIABLES
    setting,  \* the element of Settings this behaviour has (never changes)
    issued,   \* server: issued[s] tokens of session s so far
    revoked,  \* server: RevokedRefreshSession rows
    spent,    \* server: blacklisted tokens
    changed,  \* server: sessions opened by a password change
    late,     \* requests the browser gave up on and the server may still serve
    cookie,   \* browser: the refresh token cookie
    hint,     \* browser: SESSION_HINT_KEY, <<sign-in id, refresh count>>
    lastId,   \* browser: sign-in ids drawn so far (newSignInId)
    holder,   \* browser: tab that holds AUTH_LOCK
    access,   \* per tab: access token in memory
    ended,    \* per tab: endedHere
    user,     \* per tab: App.jsx shows a signed-in user
    signals,  \* per tab: storage events "hint removed" not yet handled
    mail,     \* per tab: access tokens shared over AUTH_CHANNEL, undelivered
    ref,      \* per tab: the refresher
    out,      \* per tab: the sign-out
    inn,      \* per tab: the sign-in or password change
    opened,   \* per tab: <<session, sign-in id>> it kept tokens of (history)
    wire,     \* per tab and kind: the request in flight
    calls,    \* refreshes started
    faults    \* faults so far

server  == <<issued, revoked, spent, changed, late>>
browser == <<cookie, hint, lastId, holder>>
memory  == <<access, ended, user>>
events  == <<signals, mail>>
jobs    == <<ref, out, inn, opened>>
vars    == <<setting, server, browser, memory, events, jobs, wire, calls, faults>>

Kinds == {"refresh", "logout", "signIn"}

Tokens == (Nat \ {0}) \X (Nat \ {0})
locks == setting.locks

\* A token the refresh endpoint would still accept.
Live(token) ==
    token # None /\ token \notin spent /\ token[1] \notin revoked

\* An access token the API refuses: the password changed since (its "pv" claim).
Outdated(token) == \E s \in changed : token[1] < s

IdleRef  == [pc |-> "idle", base |-> None, gen |-> None, before |-> None, stale |-> FALSE]
IdleOut  == [pc |-> "idle", byUser |-> FALSE, id |-> None, old |-> {}, tries |-> 0]
IdleWire == [stage |-> "none", carried |-> None, answer |-> None]

(***************************************************************************)
(* The session store of a tab.                                             *)
(***************************************************************************)
IdOf(h) == IF h = None THEN None ELSE h[1]

HasSession(t) == ~ended[t] /\ (access[t] # None \/ hint # None)

\* remove(): every other tab gets a storage event.
RemoveHint(t) ==
    /\ hint' = None
    /\ signals' = [u \in Tabs |-> IF u = t \/ hint = None THEN signals[u]
                                  ELSE Append(signals[u], hint[1])]

\* clear(id): the hint goes unless a newer sign-in has replaced the one given.
ClearHint(t, id) ==
    IF IdOf(hint) = id THEN RemoveHint(t) ELSE UNCHANGED <<hint, signals>>

\* save(): a refresh counts up (under a new id when the hint was removed
\* meanwhile), a sign-in draws a new id.
SaveRefresh ==
    IF hint = None
    THEN hint' = <<lastId + 1, 1>> /\ lastId' = lastId + 1
    ELSE hint' = <<hint[1], hint[2] + 1>> /\ UNCHANGED lastId
SaveSignIn == hint' = <<lastId + 1, 0>> /\ lastId' = lastId + 1

\* adopt(): a token another tab shared.
Adopt(t, token) ==
    /\ token \in mail[t]
    /\ mail' = [mail EXCEPT ![t] = @ \ {token}]
    /\ access' = IF ~ended[t] /\ hint # None THEN [access EXCEPT ![t] = token] ELSE access
    /\ UNCHANGED <<setting, server, browser, ended, user, signals, jobs, wire, calls, faults>>

(***************************************************************************)
(* The lock and the wire.                                                  *)
(***************************************************************************)
\* Mutant of CanLock: nobody waits for the lock.
CanLockAlways == TRUE

CanLock == locks => holder = NoTab
Take(t) == holder' = IF locks THEN t ELSE holder
\* Mutant of Free: the lock is not released.
FreeNothing(t) == UNCHANGED holder

Free(t) == holder' = IF holder = t THEN NoTab ELSE holder

Send(t, kind) ==
    wire' = [wire EXCEPT ![t][kind] = [stage |-> "sent", carried |-> cookie, answer |-> None]]
Drop(t, kind) == wire' = [wire EXCEPT ![t][kind] = IdleWire]
Back(t, kind) == wire[t][kind].stage \in {"landed", "lost"}
Answer(t, kind, answer) ==
    wire' = [wire EXCEPT ![t][kind].stage = "answered", ![t][kind].answer = answer]

(***************************************************************************)
(* The server: auth_views.py.                                              *)
(***************************************************************************)
\* Mutant of OpenSession: the new session's token is not recorded.
OpenSessionUnrecorded == UNCHANGED issued

OpenSession == issued' = Append(issued, 1)

Issue(token) ==
    /\ spent' = spent \cup {token}
    /\ issued' = [issued EXCEPT ![token[1]] = @ + 1]

\* SafeTokenRefreshSerializer.validate, first half: the revoked row and the
\* blacklist are read.
CheckRefresh(t) ==
    LET w == wire[t]["refresh"] IN
    /\ w.stage = "sent"
    /\ wire' = [wire EXCEPT ![t]["refresh"] =
         IF Live(w.carried) THEN [@ EXCEPT !.stage = "checked"]
         ELSE [@ EXCEPT !.stage = "answered", !.answer = Refused]]
    /\ UNCHANGED <<setting, server, browser, memory, events, jobs, calls, faults>>

\* Second half: the old token is blacklisted and the next one issued, whatever
\* was written since the check.
IssueRefresh(t) ==
    LET w == wire[t]["refresh"] IN
    /\ w.stage = "checked"
    /\ Issue(w.carried)
    /\ Answer(t, "refresh", <<w.carried[1], issued[w.carried[1]] + 1>>)
    /\ UNCHANGED <<setting, revoked, changed, late, browser, memory, events, jobs, calls, faults>>

\* Mutant of Revoke: only the token is revoked, its chain goes on.
RevokeTokenOnly(token) ==
    /\ spent' = IF token = None THEN spent ELSE spent \cup {token}
    /\ UNCHANGED revoked

\* revoke_refresh_token: the session's row, and the token itself.
Revoke(token) ==
    /\ revoked' = IF token = None THEN revoked ELSE revoked \cup {token[1]}
    /\ spent' = IF token = None THEN spent ELSE spent \cup {token}

ServeLogout(t) ==
    /\ wire[t]["logout"].stage = "sent"
    /\ Revoke(wire[t]["logout"].carried)
    /\ Answer(t, "logout", None)
    /\ UNCHANGED <<setting, issued, changed, late, browser, memory, events, jobs, calls, faults>>

\* A sign-in opens a new session; so does a password change.
ServeSignIn(t) ==
    /\ wire[t]["signIn"].stage = "sent"
    /\ OpenSession
    /\ changed' = IF inn[t] = "changing" THEN changed \cup {Len(issued) + 1} ELSE changed
    /\ Answer(t, "signIn", <<Len(issued) + 1, 1>>)
    /\ UNCHANGED <<setting, revoked, spent, late, browser, memory, events, jobs, calls, faults>>

\* The browser receives the answer: the cookie is set or deleted at once, the
\* script runs later.
Land(t, kind) ==
    LET w == wire[t][kind] IN
    /\ w.stage = "answered"
    /\ wire' = [wire EXCEPT ![t][kind].stage = "landed"]
    /\ cookie' = IF w.answer \in {Refused, Busy} THEN cookie ELSE w.answer
    /\ UNCHANGED <<setting, server, hint, lastId, holder, memory, events, jobs, calls, faults>>

(***************************************************************************)
(* Faults: a 5xx or 429, an answer that never arrives, a request the client *)
(* gives up on while the server still works on it.                         *)
(***************************************************************************)
Fault == faults < setting.faults /\ faults' = faults + 1

Fail(t) ==
    \E kind \in {"refresh", "logout"} :
        /\ Fault
        /\ wire[t][kind].stage = "sent"
        /\ Answer(t, kind, Busy)
        /\ UNCHANGED <<setting, server, browser, memory, events, jobs, calls>>

TimeOut(t) ==
    \E kind \in Kinds :
        LET w == wire[t][kind] IN
        /\ Fault
        /\ w.stage \in {"sent", "checked", "answered"}
        /\ wire' = [wire EXCEPT ![t][kind].stage = "lost"]
        /\ late' = IF w.stage = "answered" \/ kind = "signIn" \/ w.carried = None THEN late
                   ELSE late \cup {<<kind, w.carried>>}
        /\ UNCHANGED <<setting, issued, revoked, spent, changed, browser, memory, events, jobs, calls>>

\* The server serves a request nobody waits for any more.
ServeLate ==
    \E r \in late :
        /\ late' = late \ {r}
        /\ IF r[1] = "logout" THEN Revoke(r[2]) /\ UNCHANGED issued
           ELSE IF Live(r[2]) THEN Issue(r[2]) /\ UNCHANGED revoked
           ELSE UNCHANGED <<issued, revoked, spent>>
        /\ UNCHANGED <<setting, changed, browser, memory, events, jobs, wire, calls, faults>>

\* The page is reloaded: memory and calls are gone, the browser drops the lock
\* and the answers, the hint and the cookie stay.
Reload(t) ==
    /\ Fault
    /\ access' = [access EXCEPT ![t] = None]
    /\ ended' = [ended EXCEPT ![t] = FALSE]
    /\ user' = [user EXCEPT ![t] = FALSE]
    /\ signals' = [signals EXCEPT ![t] = <<>>]
    /\ mail' = [mail EXCEPT ![t] = {}]
    /\ ref' = [ref EXCEPT ![t] = IdleRef]
    /\ out' = [out EXCEPT ![t] = IdleOut]
    /\ inn' = [inn EXCEPT ![t] = "idle"]
    /\ wire' = [wire EXCEPT ![t] = [kind \in Kinds |-> IdleWire]]
    /\ late' = late \cup {<<kind, wire[t][kind].carried>> :
                  kind \in {k \in {"refresh", "logout"} : /\ wire[t][k].stage \in {"sent", "checked"}
                                                          /\ wire[t][k].carried # None}}
    /\ Free(t)
    /\ UNCHANGED <<setting, issued, revoked, spent, changed, cookie, hint, lastId, opened, calls>>

(***************************************************************************)
(* The refresher: createRefresher.                                         *)
(***************************************************************************)
Newer(t) == access[t] # None /\ access[t] # ref[t].base

Step(t, pc)    == ref' = [ref EXCEPT ![t].pc = pc]
Settle(t)      == ref' = [ref EXCEPT ![t] = IdleRef]
Attempt(t, pc) ==
    /\ ref' = [ref EXCEPT ![t].pc = pc, ![t].before = hint]
    /\ Send(t, "refresh")

\* endHere(): also drops the refresh in flight (the epoch moves on).
EndHere(t) ==
    /\ access' = [access EXCEPT ![t] = None]
    /\ ended' = [ended EXCEPT ![t] = TRUE]

\* The sign-ins this browser kept the tokens of, and their sessions.
Kept == UNION {opened[u] : u \in Tabs}
Opened == {kept[1] : kept \in Kept}

SignOutOf(t, byUser, id) ==
    out' = [out EXCEPT ![t] = [pc |-> "settling", byUser |-> byUser, id |-> id,
                               old |-> Opened, tries |-> 0]]

\* A request needs a token, or was answered 401: refresh(sentAccess).
RefreshCall(t) ==
    /\ calls < setting.refreshes
    /\ HasSession(t)
    /\ ref[t].pc = "idle"
    /\ ref' = [ref EXCEPT ![t] = [IdleRef EXCEPT !.pc = "waiting", !.base = access[t], !.gen = hint]]
    /\ calls' = calls + 1
    /\ UNCHANGED <<setting, server, browser, memory, events, out, inn, opened, wire, faults>>

\* run(): nothing is sent once this tab has signed out.
Run(t) ==
    IF ref[t].stale THEN Settle(t) /\ Free(t) /\ UNCHANGED wire
    ELSE Attempt(t, "first") /\ Take(t)

RefreshStart(t) ==
    /\ ref[t].pc = "waiting"
    /\ CanLock
    /\ IF Newer(t) THEN Settle(t) /\ UNCHANGED <<holder, wire>>
       ELSE IF locks /\ hint # ref[t].gen /\ hint # None
            THEN Step(t, "handoff") /\ Take(t) /\ UNCHANGED wire
            ELSE Run(t)
    /\ UNCHANGED <<setting, server, cookie, hint, lastId, memory, events, out, inn, opened, calls, faults>>

\* The handoff pause is over.
RefreshHanded(t) ==
    /\ ref[t].pc = "handoff"
    /\ IF Newer(t) THEN Settle(t) /\ Free(t) /\ UNCHANGED wire ELSE Run(t)
    /\ UNCHANGED <<setting, server, cookie, hint, lastId, memory, events, out, inn, opened, calls, faults>>

\* The new token is kept, counted and shared.
RefreshSaved(t, token) ==
    /\ access' = [access EXCEPT ![t] = token]
    /\ ended' = [ended EXCEPT ![t] = FALSE]
    /\ SaveRefresh
    /\ mail' = [u \in Tabs |-> IF u = t THEN mail[u] ELSE mail[u] \cup {token}]
    /\ Settle(t) /\ Free(t)
    /\ UNCHANGED <<user, signals, out>>

\* The session is over: the hint goes for every tab, and the tab (its user, or
\* the page that was loading) ends the session on the server too, unless the
\* user's own sign-out is at work.
GiveUp(t) ==
    /\ RemoveHint(t)
    /\ IF out[t].byUser
       THEN access' = [access EXCEPT ![t] = None] /\ UNCHANGED <<ended, out>>
       ELSE EndHere(t) /\ SignOutOf(t, FALSE, None)
    /\ user' = [user EXCEPT ![t] = FALSE]
    /\ Settle(t) /\ Free(t)
    /\ UNCHANGED <<mail, lastId>>

\* A rejected first answer is not the end when the hint has changed (or is gone)
\* since the request was sent: another tab may have rotated the cookie.
RefreshAnswer(t) ==
    LET w == wire[t]["refresh"]
        first == ref[t].pc = "first"
        dropped == ref[t].stale \/ w.stage = "lost" \/ (first /\ w.answer = Busy)
    IN
    /\ ref[t].pc \in {"first", "second"}
    /\ Back(t, "refresh")
    /\ Drop(t, "refresh")
    /\ \/ /\ dropped
          /\ Settle(t) /\ Free(t)
          /\ UNCHANGED <<memory, events, hint, lastId, out>>
       \/ ~dropped /\ w.answer \notin {Refused, Busy} /\ RefreshSaved(t, w.answer)
       \/ /\ ~dropped /\ first /\ w.answer = Refused
          /\ \/ hint # ref[t].before /\ Step(t, "again")
             \/ hint = ref[t].before /\ hint # None /\ Step(t, "settle")
          /\ UNCHANGED <<memory, events, hint, lastId, holder, out>>
       \/ /\ ~dropped
          /\ \/ first /\ w.answer = Refused /\ hint = None /\ ref[t].before = None
             \/ ~first /\ w.answer \in {Refused, Busy}
          /\ GiveUp(t)
    /\ UNCHANGED <<setting, server, cookie, inn, opened, calls, faults>>

\* Mutant of RefreshLook: the tab looks at once, without the pause.
RefreshLookAtOnce(t) ==
    /\ ref[t].pc = "settle"
    /\ \/ /\ ref[t].stale
          /\ Settle(t) /\ Free(t)
          /\ UNCHANGED <<memory, events, hint, lastId, out>>
       \/ /\ ~ref[t].stale /\ hint # ref[t].before
          /\ Step(t, "again")
          /\ UNCHANGED <<memory, events, hint, lastId, holder, out>>
       \/ ~ref[t].stale /\ hint = ref[t].before /\ GiveUp(t)
    /\ UNCHANGED <<setting, server, cookie, inn, opened, wire, calls, faults>>

\* settleMs later.  The pause is far longer than a browser takes to hand an
\* answer whose cookie is set to the script that waits for it.
RefreshLook(t) ==
    /\ ref[t].pc = "settle"
    /\ \A u \in Tabs \ {t}, kind \in Kinds : wire[u][kind].stage # "landed"
    /\ \/ /\ ref[t].stale
          /\ Settle(t) /\ Free(t)
          /\ UNCHANGED <<memory, events, hint, lastId, out>>
       \/ /\ ~ref[t].stale /\ hint # ref[t].before
          /\ Step(t, "again")
          /\ UNCHANGED <<memory, events, hint, lastId, holder, out>>
       \/ ~ref[t].stale /\ hint = ref[t].before /\ GiveUp(t)
    /\ UNCHANGED <<setting, server, cookie, inn, opened, wire, calls, faults>>

\* The hint changed: another tab's token, or a second attempt.
RefreshAgain(t) ==
    /\ ref[t].pc = "again"
    /\ IF Newer(t) THEN Settle(t) /\ Free(t) /\ UNCHANGED wire
       ELSE Attempt(t, "second") /\ UNCHANGED holder
    /\ UNCHANGED <<setting, server, cookie, hint, lastId, memory, events, out, inn, opened, calls, faults>>

(***************************************************************************)
(* Sign-out: endUserSession, retrySignOut, forgetSession, logout (api.js)   *)
(* and endOnServer (authTokens.js).                                         *)
(***************************************************************************)
\* Mutant of Stale: the refresh in flight is not dropped.
StaleNever(t) == ref

Stale(t) == [ref EXCEPT ![t].stale = ref[t].pc # "idle"]

UserSignOut(t) ==
    /\ user[t] /\ out[t].pc = "idle"
    /\ EndHere(t)
    /\ ref' = Stale(t)
    /\ SignOutOf(t, TRUE, IdOf(hint))
    /\ UNCHANGED <<setting, server, browser, user, events, inn, opened, wire, calls, faults>>

\* The API refuses the tab's token even after a refresh.
SessionRefused(t) ==
    /\ user[t] /\ out[t].pc = "idle" /\ ref[t].pc = "idle"
    /\ access[t] # None /\ Outdated(access[t])
    /\ EndHere(t)
    /\ user' = [user EXCEPT ![t] = FALSE]
    /\ SignOutOf(t, FALSE, IdOf(hint))
    /\ UNCHANGED <<setting, server, browser, events, ref, inn, opened, wire, calls, faults>>

\* The tab's own refresh is awaited before the lock is asked for.
SignOutQueue(t) ==
    /\ out[t].pc = "settling" /\ ref[t].pc = "idle"
    /\ out' = [out EXCEPT ![t].pc = "queued"]
    /\ UNCHANGED <<setting, server, browser, memory, events, ref, inn, opened, wire, calls, faults>>

\* Afterwards the hint goes, unless the user still has to be told of a failure.
SignedOut(t, ok) ==
    IF out[t].byUser /\ ~ok
    THEN out' = [out EXCEPT ![t].pc = "failed"] /\ UNCHANGED <<memory, hint, signals>>
    ELSE /\ access' = [access EXCEPT ![t] = None]
         /\ ClearHint(t, out[t].id)
         /\ out' = [out EXCEPT ![t] = IdleOut]
         /\ user' = IF out[t].byUser THEN [user EXCEPT ![t] = FALSE] ELSE user
         /\ UNCHANGED ended

\* Mutant of Replaced: whatever session the cookie belongs to is ended.
ReplacedNever(t) == FALSE

\* Skipped when a newer sign-in has replaced the session.
Replaced(t) == hint # None /\ IdOf(hint) # out[t].id

SignOutSend(t) ==
    /\ out[t].pc = "queued"
    /\ CanLock
    /\ IF Replaced(t)
       THEN SignedOut(t, TRUE) /\ UNCHANGED <<holder, wire>>
       ELSE /\ out' = [out EXCEPT ![t].pc = "sent", ![t].tries = 1]
            /\ Take(t) /\ Send(t, "logout")
            /\ UNCHANGED <<memory, hint, signals>>
    /\ UNCHANGED <<setting, server, cookie, lastId, mail, ref, inn, opened, calls, faults>>

SignOutAnswer(t) ==
    LET w == wire[t]["logout"]
        ok == w.stage = "landed" /\ w.answer # Busy
    IN
    /\ out[t].pc = "sent"
    /\ Back(t, "logout")
    /\ IF ~ok /\ out[t].tries = 1
       THEN /\ Send(t, "logout")
            /\ out' = [out EXCEPT ![t].tries = 2]
            /\ UNCHANGED <<memory, hint, signals, holder>>
       ELSE SignedOut(t, ok) /\ Free(t) /\ Drop(t, "logout")
    /\ UNCHANGED <<setting, server, cookie, lastId, mail, ref, inn, opened, calls, faults>>

\* The failure dialog: try once more, or end the session on this device only.
RetrySignOut(t) ==
    /\ out[t].pc = "failed"
    /\ out' = [out EXCEPT ![t].pc = "settling"]
    /\ UNCHANGED <<setting, server, browser, memory, events, ref, inn, opened, wire, calls, faults>>

ForgetSession(t) ==
    /\ out[t].pc = "failed"
    /\ access' = [access EXCEPT ![t] = None]
    /\ ClearHint(t, out[t].id)
    /\ out' = [out EXCEPT ![t] = IdleOut]
    /\ user' = [user EXCEPT ![t] = FALSE]
    /\ UNCHANGED <<setting, server, cookie, lastId, holder, ended, mail, ref, inn, opened, wire, calls, faults>>

\* Another tab removed the hint.  Only a tab with a user listens; a sign-out of
\* its own goes on; otherwise the tab ends, and clears whatever hint is there now.
HandleSignal(t) ==
    LET rest == [signals EXCEPT ![t] = Tail(@)]
        mine == out[t].byUser /\ out[t].pc # "idle"
    IN
    /\ signals[t] # <<>>
    /\ user' = [user EXCEPT ![t] = FALSE]
    /\ IF ~user[t] \/ mine
       THEN signals' = rest /\ UNCHANGED <<access, ended, hint, ref>>
       ELSE /\ EndHere(t)
            /\ ref' = Stale(t)
            /\ hint' = None
            /\ signals' = [u \in Tabs |-> IF u = t \/ hint = None THEN rest[u]
                                          ELSE Append(rest[u], hint[1])]
    /\ UNCHANGED <<setting, server, cookie, lastId, holder, mail, out, inn, opened, wire, calls, faults>>

(***************************************************************************)
(* Sign-in and password change (api.login, changePassword).                *)
(***************************************************************************)
RoomForSession == Len(issued) + Cardinality({u \in Tabs : inn[u] # "idle"}) < setting.sessions

SignInCall(t) ==
    /\ RoomForSession
    /\ ~user[t] /\ access[t] = None /\ inn[t] = "idle" /\ ~out[t].byUser
    /\ inn' = [inn EXCEPT ![t] = "waiting"]
    /\ UNCHANGED <<setting, server, browser, memory, events, ref, out, opened, wire, calls, faults>>

\* After this tab's pending sign-out, under the lock.
SignInSend(t) ==
    /\ inn[t] = "waiting" /\ out[t].pc = "idle"
    /\ CanLock
    /\ Take(t)
    /\ inn' = [inn EXCEPT ![t] = "sent"]
    /\ Send(t, "signIn")
    /\ UNCHANGED <<setting, server, cookie, hint, lastId, memory, events, ref, out, opened, calls, faults>>

\* A password change is an ordinary API call: it does not take the lock.
ChangePassword(t) ==
    /\ RoomForSession
    /\ user[t] /\ inn[t] = "idle" /\ out[t].pc = "idle"
    /\ access[t] # None /\ ~Outdated(access[t])
    /\ inn' = [inn EXCEPT ![t] = "changing"]
    /\ Send(t, "signIn")
    /\ UNCHANGED <<setting, server, browser, memory, events, ref, out, opened, calls, faults>>

\* saveTokens(payload).
SignInAnswer(t) ==
    LET w == wire[t]["signIn"] IN
    /\ inn[t] \in {"sent", "changing"}
    /\ Back(t, "signIn")
    /\ Drop(t, "signIn")
    /\ inn' = [inn EXCEPT ![t] = "idle"]
    /\ IF inn[t] = "sent" THEN Free(t) ELSE UNCHANGED holder
    /\ IF w.stage = "lost" THEN UNCHANGED <<access, ended, hint, lastId, opened>>
       ELSE /\ access' = [access EXCEPT ![t] = w.answer]
            /\ ended' = [ended EXCEPT ![t] = FALSE]
            /\ SaveSignIn
            /\ opened' = [opened EXCEPT ![t] = @ \cup {<<w.answer[1], lastId + 1>>}]
    /\ UNCHANGED <<setting, server, cookie, user, events, ref, out, calls, faults>>

\* GET /users/accounts/me/ answered: the workspace opens.
LoadUser(t) ==
    /\ ~user[t] /\ ~ended[t] /\ inn[t] = "idle" /\ out[t].pc = "idle"
    /\ access[t] # None /\ ~Outdated(access[t])
    /\ user' = [user EXCEPT ![t] = TRUE]
    /\ UNCHANGED <<setting, server, browser, access, ended, events, jobs, wire, calls, faults>>

(***************************************************************************)
(* A session is open; every tab has just been loaded.                      *)
(***************************************************************************)
Init ==
    /\ setting \in Settings
    /\ issued = <<1>> /\ revoked = {} /\ spent = {} /\ changed = {} /\ late = {}
    /\ cookie = <<1, 1>> /\ hint = <<1, 0>> /\ lastId = 1 /\ holder = NoTab
    /\ access = [t \in Tabs |-> None]
    /\ ended = [t \in Tabs |-> FALSE]
    /\ user = [t \in Tabs |-> FALSE]
    /\ signals = [t \in Tabs |-> <<>>]
    /\ mail = [t \in Tabs |-> {}]
    /\ ref = [t \in Tabs |-> IdleRef]
    /\ out = [t \in Tabs |-> IdleOut]
    /\ inn = [t \in Tabs |-> "idle"] /\ opened = [t \in Tabs |-> {<<1, 1>>}]
    /\ wire = [t \in Tabs |-> [kind \in Kinds |-> IdleWire]]
    /\ calls = 0 /\ faults = 0

Server(t) == CheckRefresh(t) \/ IssueRefresh(t) \/ ServeLogout(t) \/ ServeSignIn(t)
Refresher(t) ==
    \/ RefreshStart(t) \/ RefreshHanded(t) \/ RefreshAnswer(t)
    \/ RefreshLook(t) \/ RefreshAgain(t)
SignOut(t) == SignOutQueue(t) \/ SignOutSend(t) \/ SignOutAnswer(t)
SignIn(t) == SignInSend(t) \/ SignInAnswer(t)

Next ==
    \/ \E t \in Tabs :
        \/ Server(t) \/ Refresher(t) \/ SignOut(t) \/ SignIn(t)
        \/ \E kind \in Kinds : Land(t, kind)
        \/ \E token \in mail[t] : Adopt(t, token)
        \/ HandleSignal(t)
        \/ RefreshCall(t) \/ UserSignOut(t) \/ SessionRefused(t)
        \/ RetrySignOut(t) \/ ForgetSession(t)
        \/ SignInCall(t) \/ ChangePassword(t) \/ LoadUser(t)
        \/ Fail(t) \/ TimeOut(t) \/ Reload(t)
    \/ ServeLate

Spec == Init /\ [][Next]_vars

\* The server answers, the browser hands answers over, timers fire and a free
\* lock is granted; nobody is obliged to click or to send a request.
Fairness ==
    \A t \in Tabs :
        /\ WF_vars(Server(t))
        /\ \A kind \in Kinds : WF_vars(Land(t, kind))
        /\ WF_vars(Refresher(t)) /\ WF_vars(SignOut(t)) /\ WF_vars(SignIn(t))
FairSpec == Spec /\ Fairness

(***************************************************************************)
(* Properties.                                                             *)
(***************************************************************************)
Cookies == Tokens \cup {None}
Hints == {None} \cup (Nat \X Nat)

\* Types of the server's, the browser's and the tabs' state.
TypeOK ==
    /\ setting \in Settings
    /\ issued \in Seq(Nat) /\ revoked \subseteq 1..Len(issued)
    /\ changed \subseteq 1..Len(issued) /\ spent \subseteq Tokens
    /\ late \subseteq ({"refresh", "logout"} \X Tokens)
    /\ cookie \in Cookies /\ hint \in Hints /\ lastId \in Nat
    /\ holder \in Tabs \cup {NoTab}
    /\ access \in [Tabs -> Cookies]
    /\ ended \in [Tabs -> BOOLEAN] /\ user \in [Tabs -> BOOLEAN]
    /\ signals \in [Tabs -> Seq(Nat)] /\ mail \in [Tabs -> SUBSET Tokens]
    /\ opened \in [Tabs -> SUBSET ((1..Len(issued)) \X Nat)]
    /\ inn \in [Tabs -> {"idle", "waiting", "sent", "changing"}]
    /\ \A t \in Tabs :
        /\ ref[t].pc \in {"idle", "waiting", "handoff", "first", "settle", "again", "second"}
        /\ ref[t].base \in Cookies /\ ref[t].gen \in Hints /\ ref[t].before \in Hints
        /\ out[t].pc \in {"idle", "settling", "queued", "sent", "failed"}
        /\ \A kind \in Kinds :
            /\ wire[t][kind].stage \in {"none", "sent", "checked", "answered", "landed", "lost"}
            /\ wire[t][kind].carried \in Cookies
            /\ wire[t][kind].answer \in Cookies \cup {Refused, Busy}

\* With Web Locks, no tab sends the refresh endpoint a cookie that was already
\* rotated away, unless an answer was lost or a password change (which does not
\* take the lock) set another cookie meanwhile (underLock, endOnServer, signIn).
NoUsedCookieIsSent ==
    locks /\ faults = 0 /\ changed = {} /\ (\A t \in Tabs : inn[t] # "changing") =>
        \A t \in Tabs : wire[t]["refresh"].stage = "sent" =>
            wire[t]["refresh"].carried \notin spent
            \/ wire[t]["refresh"].carried[1] \in revoked

\* Tab t's refresher gives up in this step, on a rejection.
GivesUp(t) ==
    /\ ~ref[t].stale /\ ref'[t].pc = "idle" /\ faults' = faults
    /\ \/ ref[t].pc = "settle"
       \/ /\ ref[t].pc \in {"first", "second"}
          /\ wire[t]["refresh"].stage = "landed" /\ wire[t]["refresh"].answer = Refused

\* The first token of a session that a password change opened.
JustChanged(token) == token # None /\ token[1] \in changed /\ token[2] = 1

\* So far one session, no fault and no tab that ended its session.
OneQuietSession == Len(issued) = 1 /\ faults = 0 /\ \A t \in Tabs : ~ended[t]

\* A rejected refresh ends the session only when the cookie in the browser cannot
\* be refreshed any more: no token a tab has received is thrown away by one that
\* lost the race for it (createRefresher's run()).  With Web Locks this is claimed
\* of every rejection; a password change, which does not take the lock, may set
\* its cookie meanwhile.  Without them it is claimed of the first rejection while
\* the tabs only refresh: the one retry may lose the next race as well.
RejectedRefreshEndsDeadSession ==
    [][\A t \in Tabs : GivesUp(t) /\ (locks \/ (ref[t].pc # "second" /\ OneQuietSession)) =>
          ~Live(cookie) \/ JustChanged(cookie)]_vars

\* Tab t's user is told in this step (no reload) that the sign-out is complete.
Confirmed(t) ==
    /\ faults' = faults
    /\ out[t].byUser /\ out[t].pc \in {"queued", "sent"} /\ out'[t].pc = "idle"
    /\ out[t].pc = "sent" => wire[t]["logout"].stage = "landed"

\* The hint was drawn by a sign-in, and not by a password change or by a refresh
\* that found no hint (save()).
HintOfSignIn == \E kept \in Kept : kept[1] \notin changed /\ kept[2] = IdOf(hint)

\* A sign-out the user was told is complete leaves no usable cookie of a session
\* the browser knew when it began, whatever refresh raced with it (endOnServer,
\* revoke_refresh_token: the whole chain is revoked, not one token).  Where it
\* was skipped because another sign-in has replaced the session, that is claimed
\* if it was a sign-in that drew the hint.  Without Web Locks it is claimed only
\* while the browser has known a single session: there a refresh of the old one
\* can land after a new sign-in.
ConfirmedSignOutLeavesNoCookie ==
    [][\A t \in Tabs : Confirmed(t) /\ (locks \/ Len(issued) = 1) =>
        \/ ~Live(cookie) \/ cookie[1] \notin out[t].old
        \/ out[t].pc = "queued" /\ (HintOfSignIn => cookie[1] \in changed)]_vars

\* Tab t's sign-out is served, or its answer lands, in this step.
SignOutActs(t) ==
    /\ wire[t]["logout"].stage # wire'[t]["logout"].stage
    /\ wire'[t]["logout"].stage \in {"answered", "landed"}

\* With Web Locks, neither serving a sign-out nor landing its answer takes away
\* the live cookie of a session opened by a later sign-in, of this tab or another
\* (signIn, endOnServer: the sign-in id is compared under the lock).  A session
\* counts as opened once its tab has written the hint, and the hint must be a
\* sign-in's.
SignOutSparesNewerSignIn ==
    [][\A t \in Tabs : locks /\ SignOutActs(t) /\ Live(cookie) /\ HintOfSignIn =>
        \/ cookie' = cookie /\ cookie[1] \notin revoked'
        \/ cookie[1] \in out[t].old
        \/ cookie[1] \notin Opened]_vars

\* Once a tab has signed out, only a sign-in (or a password change sent before)
\* gives it a token again: a refresh that lands late is dropped and a token
\* another tab shares is not adopted (endHere's epoch, adopt).
EndedTabGetsNoToken ==
    [][\A t \in Tabs : ended[t] /\ access'[t] # None => inn[t] \in {"sent", "changing"}]_vars

\* Every refresh, sign-out and sign-in comes to an end: no tab waits for ever
\* for a lock, for its own refresh or for its own sign-out.
CallsSettle ==
    \A t \in Tabs :
        /\ ref[t].pc # "idle" ~> ref[t].pc = "idle"
        /\ out[t].pc \in {"settling", "queued", "sent"} ~> out[t].pc \in {"idle", "failed"}
        /\ inn[t] # "idle" ~> inn[t] = "idle"
=============================================================================
