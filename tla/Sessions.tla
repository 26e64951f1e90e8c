------------------------------ MODULE Sessions ------------------------------
(***************************************************************************)
(* Sessions end to end: refresh tokens (auth.service.ts), the cookies of a  *)
(* browser, the retry of the front end (api.ts), its logout (user-menu.tsx, *)
(* pwa.ts), the redirects (proxy.ts) and the responses the service worker   *)
(* keeps (sw.js).                                                           *)
(*                                                                          *)
(* A tab has one request in flight; requests of one page that run in        *)
(* parallel are tabs of the same browser. A cookie travels with a request   *)
(* when it is sent and changes when an answer arrives; the server handles   *)
(* it in between.                                                           *)
(***************************************************************************)
EXTENDS People

CONSTANTS
    Tokens,         \* 1..n, refresh tokens in the order they are issued
    Devices, Tabs,
    DeviceOf,       \* the browser of each tab
    Remembered,     \* the users who ask to be remembered when they log in
    MaxMoves,       \* bound on slow and lost answers, closed browsers, ended tokens, new workers
    NoToken

ASSUME SessionsAssumption ==
    /\ Tokens = 1..Cardinality(Tokens) /\ NoToken \notin Tokens /\ NoUser \notin Users
    /\ DeviceOf \in [Tabs -> Devices] /\ Remembered \subseteq Users
    /\ MaxMoves \in Nat

VARIABLES
    token,      \* refresh_tokens; root (history) is the token of the login it stems from
    ended,      \* history: logins (their roots) that were revoked
    overlapped, \* history: logins in which a check or a logout was outdated
    device,     \* cookies, caches of the service worker; left is history
    tab,
    moves       \* how many outside events there were (the bound only)

sessionVars == <<token, ended, overlapped, device, tab, moves>>
history == <<ended, overlapped>>

-----------------------------------------------------------------------------
Unissued == [status |-> "NONE", user |-> NoUser, remember |-> FALSE, root |-> NoToken]
TokenType == [status : {"NONE", "LIVE", "SPENT", "EXPIRED"}, user : Users \cup {NoUser},
              remember : BOOLEAN, root : Tokens \cup {NoToken}]

\* waiting: answers the service worker still waits for after it served a cached
\* one. left: data stayed behind when its session ended.
DeviceType == [refresh : Tokens \cup {NoToken}, access : Users \cup {NoUser},
               caches : SUBSET Users, waiting : SUBSET Users, left : BOOLEAN]

\* idle and login rest. asked: a GET is in flight. renewing, granted, renewed,
\* refused: POST /auth/refresh, up to its answer. leaving, left: POST
\* /auth/logout. clearing: the caches are about to be emptied.
Resting == {"idle", "login"}
Renewing == {"renewing", "granted", "renewed", "refused"}
Leaving == {"leaving", "served"}
TabType == [pc : Resting \cup {"asked", "clearing"} \cup Renewing \cup Leaving,
            as : Users \cup {NoUser}, tok : Tokens \cup {NoToken}, new : Tokens \cup {NoToken}]

At(pc) == [pc |-> pc, as |-> NoUser, tok |-> NoToken, new |-> NoToken]
Dev(t) == device[DeviceOf[t]]
SetTab(t, state) == tab' = [tab EXCEPT ![t] = state]
SetDevice(t, c) == device' = [device EXCEPT ![DeviceOf[t]] = c]

Live(k) == k # NoToken /\ token[k].status = "LIVE"
Fresh(k) == token[k].status = "NONE" /\ \A j \in Tokens : j < k => token[j].status # "NONE"

\* proxy.ts: either cookie counts as a session.
HasSession(d) == device[d].refresh # NoToken \/ device[d].access # NoUser
SessionUser(c) == IF c.refresh # NoToken THEN token[c.refresh].user ELSE c.access
NoCookies(c) == [c EXCEPT !.refresh = NoToken, !.access = NoUser]
Holding(c, k, u) == [c EXCEPT !.refresh = k, !.access = u]

Outside == moves < MaxMoves /\ moves' = moves + 1

SessionsInit ==
    /\ token = [k \in Tokens |-> Unissued]
    /\ ended = {} /\ overlapped = {}
    /\ device = [d \in Devices |-> [refresh |-> NoToken, access |-> NoUser,
                                    caches |-> {}, waiting |-> {}, left |-> FALSE]]
    /\ tab = [t \in Tabs |-> At("login")]
    /\ moves = 0

-----------------------------------------------------------------------------
\* login and setSession. The login page empties no cache; left is set when
\* another user's data is there already.
Login(t, u, k) ==
    /\ tab[t].pc = "login" /\ Fresh(k)
    /\ token' = [token EXCEPT ![k] = [Unissued EXCEPT !.status = "LIVE", !.user = u,
                                                      !.remember = u \in Remembered, !.root = k]]
    /\ SetDevice(t, [Holding(Dev(t), k, u) EXCEPT
                    !.left = @ \/ (SessionUser(Dev(t)) \notin {u, NoUser} /\ Dev(t).caches # {})])
    /\ SetTab(t, At("idle"))
    /\ UNCHANGED <<history, moves>>

\* api(): the request carries the access cookie of this moment.
Start(t) ==
    /\ tab[t].pc = "idle"
    /\ SetTab(t, [At("asked") EXCEPT !.as = Dev(t).access])
    /\ UNCHANGED <<token, history, device, moves>>

\* What the worker keeps of an answer, whoever is signed in by then.
Cached(c, u) == [c EXCEPT !.caches = @ \cup {u}, !.left = @ \/ SessionUser(c) # u]

\* An answer with data reaches the worker, which caches it, and the page.
Deliver(t) ==
    /\ tab[t].pc = "asked" /\ tab[t].as # NoUser
    /\ SetDevice(t, Cached(Dev(t), tab[t].as))
    /\ SetTab(t, At("idle"))
    /\ UNCHANGED <<token, history, moves>>

\* NetworkFirst serves the cached answer after 4 s and goes on waiting.
TimeOut(t) ==
    /\ tab[t].pc = "asked" /\ Dev(t).caches # {} /\ Outside
    /\ SetDevice(t, [Dev(t) EXCEPT !.waiting = @ \cup ({tab[t].as} \ {NoUser})])
    /\ SetTab(t, At("idle"))
    /\ UNCHANGED <<token, history>>

LateArrives(d) ==
    /\ \E u \in device[d].waiting :
        device' = [device EXCEPT ![d] = [Cached(device[d], u) EXCEPT !.waiting = @ \ {u}]]
    /\ UNCHANGED <<token, history, tab, moves>>

\* The network fails: a GET falls back to the cache or to an error, and a
\* refresh rejects without endSession. The cookies stay as they are.
AnswerLost(t) ==
    /\ tab[t].pc \in {"asked", "renewing", "renewed", "refused"} /\ Outside
    /\ SetTab(t, At("idle"))
    /\ UNCHANGED <<token, history, device>>

\* 401: every request renews by itself, with the refresh cookie of this moment.
Denied(t) ==
    /\ tab[t].pc = "asked" /\ tab[t].as = NoUser
    /\ SetTab(t, [At("renewing") EXCEPT !.tok = Dev(t).refresh])
    /\ UNCHANGED <<token, history, device, moves>>

-----------------------------------------------------------------------------
\* Fault: the revoked or replaced token still passes.
NeverConsumed(k) == FALSE

\* isConsumedRefreshToken
Consumed(k) == token[k].status = "SPENT"

Spend(S) == [k \in Tokens |-> IF k \in S THEN [token[k] EXCEPT !.status = "SPENT"] ELSE token[k]]
OfUser(u) == {k \in Tokens : token[k].user = u}
Roots(S) == {token[k].root : k \in S}

\* readActiveSession
RefreshRead(t) ==
    LET k == tab[t].tok IN
    /\ tab[t].pc = "renewing"
    /\ IF k # NoToken /\ Consumed(k)
         THEN /\ token' = Spend({j \in OfUser(token[k].user) : Live(j)})
              /\ ended' = ended \cup Roots(OfUser(token[k].user))
         ELSE UNCHANGED <<token, ended>>
    /\ SetTab(t, IF k # NoToken /\ ~Consumed(k) /\ token[k].status # "EXPIRED"
                THEN [tab[t] EXCEPT !.pc = "granted"] ELSE At("refused"))
    /\ UNCHANGED <<overlapped, device, moves>>

\* Fault: the old token is left as it was.
IssueBeside(k, j) ==
    [token EXCEPT ![j] = [token[k] EXCEPT !.status = "LIVE"]]

\* The old token is marked when it still is live; how many rows that changed is
\* not looked at, and the new one is created all the same.
Issue(k, j) ==
    [token EXCEPT ![k].status = IF Live(k) THEN "SPENT" ELSE @,
                  ![j] = [token[k] EXCEPT !.status = "LIVE"]]

\* setSession with the token it replaces
RefreshWrite(t, j) ==
    /\ tab[t].pc = "granted" /\ Fresh(j)
    /\ token' = Issue(tab[t].tok, j)
    /\ overlapped' = overlapped \cup (IF Live(tab[t].tok) THEN {} ELSE {token[tab[t].tok].root})
    /\ SetTab(t, [At("renewed") EXCEPT !.new = j])
    /\ UNCHANGED <<ended, device, moves>>

\* refresh answers 401 and clears the cookies whatever the error was.
RefreshFails(t) ==
    /\ tab[t].pc = "granted"
    /\ \/ Outside
       \/ UNCHANGED moves /\ \A j \in Tokens : ~Fresh(j) \* the bound on Tokens
    /\ SetTab(t, At("refused"))
    /\ UNCHANGED <<token, history, device>>

\* The cookies are stored and the request is sent once more.
RefreshArrives(t) ==
    LET j == tab[t].new
        u == token[j].user IN
    /\ tab[t].pc = "renewed"
    /\ SetDevice(t, [Holding(Dev(t), j, u) EXCEPT
                    !.left = @ \/ (SessionUser(Dev(t)) \notin {u, NoUser} /\ Dev(t).caches # {})])
    /\ SetTab(t, [At("asked") EXCEPT !.as = u])
    /\ UNCHANGED <<token, history, moves>>

\* endSession: the answer has cleared the cookies, so its logout carries none.
RefusedArrives(t) ==
    /\ tab[t].pc = "refused"
    /\ SetDevice(t, NoCookies(Dev(t)))
    /\ SetTab(t, At("leaving"))
    /\ UNCHANGED <<token, history, moves>>

-----------------------------------------------------------------------------
\* user-menu.tsx
UserLogout(t) ==
    /\ tab[t].pc = "idle"
    /\ SetTab(t, [At("leaving") EXCEPT !.tok = Dev(t).refresh])
    /\ UNCHANGED <<token, history, device, moves>>

\* logout: revokes the token it was sent, if it is not out already.
LogoutServed(t) ==
    LET k == tab[t].tok IN
    /\ tab[t].pc = "leaving"
    /\ IF k = NoToken \/ token[k].status = "EXPIRED" THEN UNCHANGED <<token, ended, overlapped>>
       ELSE /\ token' = Spend({k})
            /\ overlapped' = overlapped \cup (IF Live(k) THEN {} ELSE {token[k].root})
            /\ ended' = ended \cup {token[k].root}
    /\ SetTab(t, At("served"))
    /\ UNCHANGED <<device, moves>>

LogoutArrives(t) ==
    /\ tab[t].pc = "served"
    /\ SetDevice(t, NoCookies(Dev(t)))
    /\ SetTab(t, At("clearing"))
    /\ UNCHANGED <<token, history, moves>>

\* Without a network the page goes on (catch, finally).
LogoutLost(t) ==
    /\ tab[t].pc \in Leaving /\ Outside
    /\ SetTab(t, At("clearing"))
    /\ UNCHANGED <<token, history, device>>

\* Fault: the page leaves without emptying the caches.
EmptiedLater(c) == c

Emptied(c) == [c EXCEPT !.caches = {}, !.left = FALSE]

\* clearFinancialCaches, then /login, which the proxy answers with the
\* dashboard while a cookie is left.
ClearCaches(t) ==
    /\ tab[t].pc = "clearing"
    /\ SetDevice(t, Emptied(Dev(t)))
    /\ SetTab(t, At(IF HasSession(DeviceOf[t]) THEN "idle" ELSE "login"))
    /\ UNCHANGED <<token, history, moves>>

\* proxy.ts on a navigation
Navigate(t) ==
    /\ \/ tab[t].pc = "idle" /\ ~HasSession(DeviceOf[t]) /\ SetTab(t, At("login"))
       \/ tab[t].pc = "login" /\ HasSession(DeviceOf[t]) /\ SetTab(t, At("idle"))
    /\ UNCHANGED <<token, history, device, moves>>

-----------------------------------------------------------------------------
Dropped(c) == [NoCookies(c) EXCEPT !.left = @ \/ c.caches # {}]

\* cookieMaxAge gives no age to the cookies of a session not to be remembered.
BrowserCloses(d) ==
    /\ \A t \in Tabs : DeviceOf[t] = d => tab[t].pc \in Resting
    /\ HasSession(d) /\ Outside
    /\ device' = [device EXCEPT ![d] =
            IF @.refresh # NoToken /\ token[@.refresh].remember
              THEN [@ EXCEPT !.waiting = {}] ELSE [Dropped(@) EXCEPT !.waiting = {}]]
    /\ tab' = [t \in Tabs |-> IF DeviceOf[t] = d /\ ~(device[d].refresh # NoToken /\ token[device[d].refresh].remember)
                                THEN At("login") ELSE tab[t]]
    /\ UNCHANGED <<token, history>>

AccessExpires(d) ==
    /\ device[d].access # NoUser
    /\ device' = [device EXCEPT ![d].access = NoUser]
    /\ UNCHANGED <<token, history, tab, moves>>

\* A remembered cookie ends with its token; the access cookie is shorter.
TokenExpires(k) ==
    /\ token[k].status \in {"LIVE", "SPENT"} /\ Outside
    /\ token' = [token EXCEPT ![k].status = "EXPIRED"]
    /\ device' = [d \in Devices |->
            IF device[d].refresh # k THEN device[d]
            ELSE IF token[k].remember THEN Dropped(device[d])
            ELSE [device[d] EXCEPT !.access = NoUser]]
    /\ UNCHANGED <<history, tab>>

\* A new version of the worker deletes the caches of the old one.
WorkerActivates(d) ==
    /\ device[d].caches # {} /\ Outside
    /\ device' = [device EXCEPT ![d] = Emptied(@)]
    /\ UNCHANGED <<token, history, tab>>

AllRest == (\A t \in Tabs : tab[t].pc \in Resting) /\ UNCHANGED sessionVars

\* A request under way: its handlers and answers.
Progress(t) ==
    \/ Deliver(t) \/ Denied(t) \/ RefreshRead(t) \/ RefreshFails(t)
    \/ (\E j \in Tokens : RefreshWrite(t, j))
    \/ RefreshArrives(t) \/ RefusedArrives(t)
    \/ LogoutServed(t) \/ LogoutArrives(t) \/ ClearCaches(t)

UserStep(t) ==
    \/ \E u \in Users, k \in Tokens : Login(t, u, k)
    \/ Start(t) \/ UserLogout(t) \/ Navigate(t)

NetworkStep(t) == TimeOut(t) \/ AnswerLost(t) \/ LogoutLost(t)

DeviceStep(d) ==
    LateArrives(d) \/ BrowserCloses(d) \/ AccessExpires(d) \/ WorkerActivates(d)

SessionsNext ==
    \/ \E t \in Tabs : UserStep(t) \/ Progress(t) \/ NetworkStep(t)
    \/ \E d \in Devices : DeviceStep(d)
    \/ \E k \in Tokens : TokenExpires(k)
    \/ AllRest

SessionsSpec == SessionsInit /\ [][SessionsNext]_sessionVars

-----------------------------------------------------------------------------
\* The types.
SessionsTypeOK ==
    /\ token \in [Tokens -> TokenType] /\ ended \subseteq Tokens /\ overlapped \subseteq Tokens
    /\ device \in [Devices -> DeviceType]
    /\ tab \in [Tabs -> TabType]
    /\ moves \in 0..MaxMoves

Promise == INSTANCE SessionTokens WITH
    Requests <- Tabs,
    live <- {k \in Tokens : Live(k)},
    gone <- {k \in Tokens : token[k].status \in {"SPENT", "EXPIRED"}},
    owner <- [k \in Tokens |-> token[k].user],
    grant <- [t \in Tabs |-> IF tab[t].pc = "granted" THEN tab[t].tok ELSE NoToken]

\* Rotation keeps what SessionTokens promises: whatever overlaps, a token that
\* was renewed, revoked or has expired is never allowed to renew again, a
\* renewal takes its token out and a reuse takes out all tokens of the user.
TokensKeepTheirPromise == Promise!TokensSpec

\* A login has at most one live token, and none once it was revoked (logout, or
\* reuse detected), unless a token was written from a check made before the old
\* one went out (setSession does not look at the count of its update) or a
\* logout carried a token already replaced.
OneSessionPerLogin ==
    \A k \in Tokens : Live(k) /\ token[k].root \notin overlapped =>
        /\ \A j \in Tokens : Live(j) /\ token[j].root = token[k].root => j = k
        /\ token[k].root \notin ended

\* The types, and one live token per login.
SessionsSound == SessionsTypeOK /\ OneSessionPerLogin

\* A browser keeps answers of the signed-in user only, and none when nobody is
\* signed in or about to leave, unless a session ended without its page (cookies
\* dropped by the browser), an answer came after the session it was asked in, or
\* another tab changed the user.
ForeignDataOnlyBySlip ==
    \A d \in Devices :
        \/ device[d].left
        \/ \E t \in Tabs : DeviceOf[t] = d /\ tab[t].pc \in Leaving \cup {"clearing"}
        \/ device[d].caches \subseteq {SessionUser(device[d])}
=============================================================================
