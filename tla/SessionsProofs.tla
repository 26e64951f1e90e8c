--------------------------- MODULE SessionsProofs ---------------------------
(***************************************************************************)
(* What Sessions guarantees for every number of tokens, users, browsers and *)
(* tabs: the invariants, and that it implements SessionTokens.              *)
(***************************************************************************)
EXTENDS Sessions, TLAPS

-----------------------------------------------------------------------------
(* The inductive invariant *)

Issued == {k \in Tokens : token[k].status # "NONE"}

\* A token given out stems from a login of its user.
TokensStem ==
    /\ \A k \in Tokens \ Issued : token[k] = Unissued
    /\ \A k \in Issued : /\ token[k].user \in Users /\ token[k].root \in Issued
                         /\ token[token[k].root].user = token[k].user
    /\ ended \subseteq Issued

\* What tabs and browsers carry was given out; the access cookie does not outlive
\* the refresh cookie.
TabSound(s) ==
    /\ s.tok \in Issued \cup {NoToken} /\ s.new \in Issued \cup {NoToken}
    /\ s.pc = "granted" => s.tok # NoToken
    /\ s.pc = "renewed" => s.new # NoToken

DeviceSound(c) ==
    /\ c.refresh \in Issued \cup {NoToken}
    /\ c.refresh = NoToken => c.access = NoUser

CookiesIssued ==
    /\ \A t \in Tabs : TabSound(tab[t])
    /\ \A d \in Devices : DeviceSound(device[d])

SessionsInv == SessionsTypeOK /\ TokensStem /\ CookiesIssued /\ OneSessionPerLogin /\ ForeignDataOnlyBySlip

-----------------------------------------------------------------------------
(* The steps *)

\* The cases of a step.
LEMMA SessionsSteps ==
    ASSUME [SessionsNext]_sessionVars
    PROVE  \/ \E t \in Tabs, u \in Users, k \in Tokens : Login(t, u, k)
           \/ \E t \in Tabs, j \in Tokens : RefreshWrite(t, j)
           \/ \E t \in Tabs : \/ Start(t) \/ UserLogout(t) \/ Navigate(t)
                              \/ Deliver(t) \/ Denied(t) \/ RefreshRead(t) \/ RefreshFails(t)
                              \/ RefreshArrives(t) \/ RefusedArrives(t)
                              \/ LogoutServed(t) \/ LogoutArrives(t) \/ ClearCaches(t)
                              \/ TimeOut(t) \/ AnswerLost(t) \/ LogoutLost(t)
           \/ \E d \in Devices : LateArrives(d) \/ BrowserCloses(d) \/ AccessExpires(d) \/ WorkerActivates(d)
           \/ \E k \in Tokens : TokenExpires(k)
           \/ UNCHANGED sessionVars
BY Zenon DEF SessionsNext, UserStep, Progress, NetworkStep, DeviceStep, AllRest

\* Tabs and browsers as records.
LEMMA TabTypes ==
    /\ \A pc \in Resting \cup {"asked", "clearing"} \cup Renewing \cup Leaving :
          At(pc) \in TabType /\ At(pc).pc = pc /\ At(pc).tok = NoToken /\ At(pc).new = NoToken
    /\ \A s \in TabType, u \in Users \cup {NoUser} :
          /\ [s EXCEPT !.as = u] \in TabType
          /\ [s EXCEPT !.as = u].pc = s.pc /\ [s EXCEPT !.as = u].tok = s.tok /\ [s EXCEPT !.as = u].new = s.new
    /\ \A s \in TabType, k \in Tokens \cup {NoToken} :
          /\ [s EXCEPT !.tok = k] \in TabType /\ [s EXCEPT !.new = k] \in TabType
          /\ [s EXCEPT !.tok = k].pc = s.pc /\ [s EXCEPT !.tok = k].tok = k /\ [s EXCEPT !.tok = k].new = s.new
          /\ [s EXCEPT !.new = k].pc = s.pc /\ [s EXCEPT !.new = k].tok = s.tok /\ [s EXCEPT !.new = k].new = k
<1>1. \A pc \in Resting \cup {"asked", "clearing"} \cup Renewing \cup Leaving :
          At(pc) \in TabType /\ At(pc).pc = pc /\ At(pc).tok = NoToken /\ At(pc).new = NoToken
    BY DEF At, TabType
<1>2. \A s \in TabType, u \in Users \cup {NoUser} :
          /\ [s EXCEPT !.as = u] \in TabType
          /\ [s EXCEPT !.as = u].pc = s.pc /\ [s EXCEPT !.as = u].tok = s.tok /\ [s EXCEPT !.as = u].new = s.new
    BY DEF TabType
<1>3. \A s \in TabType, k \in Tokens \cup {NoToken} :
          /\ [s EXCEPT !.tok = k] \in TabType
          /\ [s EXCEPT !.tok = k].pc = s.pc /\ [s EXCEPT !.tok = k].tok = k /\ [s EXCEPT !.tok = k].new = s.new
    BY DEF TabType
<1>4. \A s \in TabType, k \in Tokens \cup {NoToken} :
          /\ [s EXCEPT !.new = k] \in TabType
          /\ [s EXCEPT !.new = k].pc = s.pc /\ [s EXCEPT !.new = k].tok = s.tok /\ [s EXCEPT !.new = k].new = k
    BY DEF TabType
<1>. QED BY <1>1, <1>2, <1>3, <1>4

\* What a handler makes of the cookies and of the caches.
LEMMA DeviceTypes ==
    ASSUME NEW c \in DeviceType
    PROVE  /\ NoCookies(c) \in DeviceType /\ NoCookies(c).refresh = NoToken /\ NoCookies(c).access = NoUser
           /\ NoCookies(c).caches = c.caches /\ NoCookies(c).left = c.left
           /\ Dropped(c) \in DeviceType /\ Dropped(c).refresh = NoToken /\ Dropped(c).access = NoUser
           /\ Dropped(c).left = (c.left \/ c.caches # {}) /\ Dropped(c).caches = c.caches
           /\ Emptied(c) \in DeviceType /\ Emptied(c).refresh = c.refresh /\ Emptied(c).access = c.access
           /\ Emptied(c).caches = {}
<1>1. /\ NoCookies(c) \in DeviceType /\ NoCookies(c).refresh = NoToken /\ NoCookies(c).access = NoUser
      /\ NoCookies(c).caches = c.caches /\ NoCookies(c).left = c.left
    BY DEF DeviceType, NoCookies
<1>2. /\ Dropped(c) \in DeviceType /\ Dropped(c).refresh = NoToken /\ Dropped(c).access = NoUser
      /\ Dropped(c).left = (c.left \/ c.caches # {}) /\ Dropped(c).caches = c.caches
    BY <1>1 DEF DeviceType, Dropped
<1>3. /\ Emptied(c) \in DeviceType /\ Emptied(c).refresh = c.refresh /\ Emptied(c).access = c.access
      /\ Emptied(c).caches = {}
    BY DEF DeviceType, Emptied
<1>. QED BY <1>1, <1>2, <1>3

\* The cookies of a session.
LEMMA SessionTypes ==
    ASSUME NEW c \in DeviceType, NEW u \in Users, NEW k \in Tokens, NEW b \in BOOLEAN
    PROVE  /\ [Holding(c, k, u) EXCEPT !.left = @ \/ b] \in DeviceType
           /\ [Holding(c, k, u) EXCEPT !.left = @ \/ b].refresh = k
           /\ [Holding(c, k, u) EXCEPT !.left = @ \/ b].caches = c.caches
           /\ [Holding(c, k, u) EXCEPT !.left = @ \/ b].left = (c.left \/ b)
<1>1. /\ Holding(c, k, u) \in DeviceType /\ Holding(c, k, u).refresh = k
      /\ Holding(c, k, u).caches = c.caches /\ Holding(c, k, u).left = c.left
    BY DEF DeviceType, Holding
<1>. QED BY <1>1 DEF DeviceType

\* An answer in the caches, which the worker may have waited for.
LEMMA CachedTypes ==
    ASSUME NEW c \in DeviceType, NEW u \in Users
    PROVE  /\ Cached(c, u) \in DeviceType
           /\ Cached(c, u).refresh = c.refresh /\ Cached(c, u).access = c.access
           /\ Cached(c, u).caches = c.caches \cup {u}
           /\ Cached(c, u).left = (c.left \/ SessionUser(c) # u)
BY DEF DeviceType, Cached

LEMMA WaitingTypes ==
    ASSUME NEW c \in DeviceType, NEW W \in SUBSET Users
    PROVE  /\ [c EXCEPT !.waiting = W] \in DeviceType
           /\ [c EXCEPT !.waiting = W].refresh = c.refresh /\ [c EXCEPT !.waiting = W].access = c.access
           /\ [c EXCEPT !.waiting = W].caches = c.caches /\ [c EXCEPT !.waiting = W].left = c.left
BY DEF DeviceType

-----------------------------------------------------------------------------
(* Tokens *)

\* Rows of refresh_tokens: another status, and a row made for a login.
Restated(v, status) == [v EXCEPT !.status = status]
Made(u, b, k) == [Unissued EXCEPT !.status = "LIVE", !.user = u, !.remember = b, !.root = k]

LEMMA TokenRows ==
    /\ Unissued \in TokenType /\ Unissued.status = "NONE"
    /\ \A v \in TokenType, status \in {"LIVE", "SPENT", "EXPIRED"} :
          /\ Restated(v, status) \in TokenType /\ Restated(v, status).status = status
          /\ Restated(v, status).user = v.user /\ Restated(v, status).root = v.root
    /\ \A u \in Users, k \in Tokens, b \in BOOLEAN :
          /\ Made(u, b, k) \in TokenType /\ Made(u, b, k).status = "LIVE"
          /\ Made(u, b, k).user = u /\ Made(u, b, k).root = k
<1>1. Unissued \in TokenType /\ Unissued.status = "NONE"
    BY DEF Unissued, TokenType
<1>2. \A v \in TokenType, status \in {"LIVE", "SPENT", "EXPIRED"} :
          /\ Restated(v, status) \in TokenType /\ Restated(v, status).status = status
          /\ Restated(v, status).user = v.user /\ Restated(v, status).root = v.root
    BY DEF TokenType, Restated
<1>3. \A u \in Users, k \in Tokens, b \in BOOLEAN :
          /\ Made(u, b, k) \in TokenType /\ Made(u, b, k).status = "LIVE"
          /\ Made(u, b, k).user = u /\ Made(u, b, k).root = k
    BY <1>1 DEF TokenType, Made
<1>. QED BY <1>1, <1>2, <1>3

\* Logins stay apart when tokens keep their user and their login, and a new one
\* begins a login or goes on with one of its user.
LEMMA StemKept ==
    ASSUME TokensStem,
           \A k \in Issued : /\ token'[k].status # "NONE"
                             /\ token'[k].user = token[k].user /\ token'[k].root = token[k].root,
           \A k \in Tokens \ Issued :
               \/ token'[k] = Unissued
               \/ /\ token'[k].status # "NONE" /\ token'[k].user \in Users
                  /\ \/ token'[k].root = k
                     \/ token'[k].root \in Issued /\ token[token'[k].root].user = token'[k].user,
           ended' \subseteq Issued
    PROVE  TokensStem' /\ Issued \subseteq Issued'
<1>1. Issued \subseteq Issued' /\ Issued \subseteq Tokens
    BY DEF Issued
<1>2. \A k \in Tokens \ Issued' : token'[k] = Unissued
    BY <1>1 DEF Issued
<1>3. ASSUME NEW k \in Issued'
      PROVE  token'[k].user \in Users /\ token'[k].root \in Issued' /\ token'[token'[k].root].user = token'[k].user
    <2>1. CASE k \in Issued
        BY <1>1, <2>1 DEF TokensStem
    <2>2. CASE k \notin Issued
        <3>1. k \in Tokens /\ token'[k] # Unissued
            BY <1>3, TokenRows DEF Issued
        <3>2. CASE token'[k].root = k
            BY <1>3, <2>2, <3>1, <3>2
        <3>3. CASE token'[k].root \in Issued /\ token[token'[k].root].user = token'[k].user
            BY <1>1, <2>2, <3>1, <3>3
        <3>. QED BY <2>2, <3>1, <3>2, <3>3
    <2>. QED BY <2>1, <2>2
<1>. QED BY <1>1, <1>2, <1>3 DEF TokensStem

\* What a step does to the tokens.
TokensKept ==
    /\ token' \in [Tokens -> TokenType] /\ ended' \subseteq Tokens /\ overlapped' \subseteq Tokens
    /\ TokensStem' /\ Issued \subseteq Issued'
    /\ \A k \in Issued : token'[k].user = token[k].user /\ token'[k].root = token[k].root

\* Some tokens get another status.
LEMMA StatusKept ==
    ASSUME SessionsTypeOK, TokensStem, NEW S \in SUBSET Issued, NEW status \in {"SPENT", "EXPIRED"},
           token' = [k \in Tokens |-> IF k \in S THEN Restated(token[k], status) ELSE token[k]],
           ended' \subseteq Issued, overlapped' \subseteq Tokens
    PROVE  TokensKept
<1>1. token \in [Tokens -> TokenType] /\ Issued \subseteq Tokens
    BY DEF SessionsTypeOK, Issued
<1>2. token' \in [Tokens -> TokenType]
    BY <1>1, TokenRows
<1>3. \A k \in Issued : /\ token'[k].status # "NONE"
                        /\ token'[k].user = token[k].user /\ token'[k].root = token[k].root
    <2>1. S \subseteq Tokens
        BY <1>1
    <2>2. \A k \in S : token'[k] = Restated(token[k], status) /\ token[k] \in TokenType
        BY <1>1, <2>1
    <2>3. \A k \in Issued \ S : token'[k] = token[k]
        BY <1>1
    <2>4. \A k \in S : token'[k].status = status /\ token'[k].user = token[k].user /\ token'[k].root = token[k].root
        BY <2>2, TokenRows
    <2>. QED BY <2>3, <2>4 DEF Issued
<1>4. \A k \in Tokens \ Issued : token'[k] = Unissued
    BY DEF TokensStem
<1>. QED BY <1>1, <1>2, <1>3, <1>4, StemKept DEF TokensKept

\* Login.
LEMMA LoginTokens ==
    ASSUME SessionsTypeOK, TokensStem, NEW t \in Tabs, NEW u \in Users, NEW k \in Tokens, Login(t, u, k)
    PROVE  /\ TokensKept /\ k \notin Issued /\ UNCHANGED history
           /\ token'[k].status = "LIVE" /\ token'[k].user = u /\ token'[k].root = k
           /\ \A j \in Tokens \ {k} : token'[j] = token[j]
<1>. DEFINE made == Made(u, u \in Remembered, k)
<1>1. made \in TokenType /\ made.status = "LIVE" /\ made.user = u /\ made.root = k
    <2>1. CASE u \in Remembered
        <3>1. (u \in Remembered) = TRUE
            BY <2>1
        <3>2. made = Made(u, TRUE, k)
            BY Zenon, <3>1
        <3>. HIDE DEF made
        <3>. QED BY <3>2, TokenRows
    <2>2. CASE u \notin Remembered
        <3>1. (u \in Remembered) = FALSE
            BY <2>2
        <3>2. made = Made(u, FALSE, k)
            BY Zenon, <3>1
        <3>. HIDE DEF made
        <3>. QED BY <3>2, TokenRows
    <2>. QED BY <2>1, <2>2
<1>2. token' = [token EXCEPT ![k] = made] /\ UNCHANGED history /\ token[k].status = "NONE"
    BY DEF Login, Fresh, Made
<1>. HIDE DEF made
<1>3. token \in [Tokens -> TokenType] /\ ended \subseteq Tokens /\ overlapped \subseteq Tokens
    BY DEF SessionsTypeOK
<1>4. k \notin Issued /\ UNCHANGED <<ended, overlapped>>
    BY <1>2 DEF Issued, history
<1>5. token'[k] = made /\ \A j \in Tokens \ {k} : token'[j] = token[j]
    BY <1>2, <1>3
<1>6. TokensStem' /\ Issued \subseteq Issued'
    <2>1. \A j \in Issued : token'[j] = token[j] /\ token[j].status # "NONE"
        BY <1>4, <1>5 DEF Issued
    <2>2. \A j \in Tokens \ Issued : token'[j] = Unissued \/ j = k
        BY <1>5 DEF TokensStem
    <2>. QED BY <1>1, <1>4, <1>5, <2>1, <2>2, StemKept DEF TokensStem
<1>7. token' \in [Tokens -> TokenType]
    BY <1>1, <1>2, <1>3
<1>8. \A j \in Issued : token'[j] = token[j]
    BY <1>4, <1>5 DEF Issued
<1>. QED BY <1>1, <1>2, <1>3, <1>4, <1>5, <1>6, <1>7, <1>8 DEF TokensKept

\* Renewal: the new token goes on with the login of the old one.
LEMMA RefreshWriteTokens ==
    ASSUME SessionsTypeOK, TokensStem, NEW t \in Tabs, NEW j \in Tokens, RefreshWrite(t, j), TabSound(tab[t])
    PROVE  LET k == tab[t].tok IN
           /\ TokensKept /\ k \in Issued /\ j \notin Issued /\ k # j
           /\ token'[k].status = (IF Live(k) THEN "SPENT" ELSE token[k].status)
           /\ token'[j].status = "LIVE" /\ token'[j].user = token[k].user /\ token'[j].root = token[k].root
           /\ \A i \in Tokens \ {k, j} : token'[i] = token[i]
           /\ ended' = ended /\ overlapped' = overlapped \cup (IF Live(k) THEN {} ELSE {token[k].root})
<1>. DEFINE k == tab[t].tok
            old == [token[k] EXCEPT !.status = IF Live(k) THEN "SPENT" ELSE @]
            made == [token[k] EXCEPT !.status = "LIVE"]
<1>1. k \in Issued /\ token[j].status = "NONE" /\ j \notin Issued /\ Issued \subseteq Tokens
    BY DEF RefreshWrite, TabSound, Fresh, Issued
<1>2. token' = [token EXCEPT ![k] = old, ![j] = made]
    BY DEF RefreshWrite, Issue
<1>3. /\ ended' = ended /\ overlapped' = overlapped \cup (IF Live(k) THEN {} ELSE {token[k].root})
    BY DEF RefreshWrite
<1>4. token \in [Tokens -> TokenType] /\ ended \subseteq Tokens /\ overlapped \subseteq Tokens
    BY DEF SessionsTypeOK
<1>5. /\ made \in TokenType /\ made.status = "LIVE" /\ made.user = token[k].user /\ made.root = token[k].root
      /\ old \in TokenType /\ old.user = token[k].user /\ old.root = token[k].root
      /\ old.status = (IF Live(k) THEN "SPENT" ELSE token[k].status)
    <2>1. token[k] \in TokenType
        BY <1>1, <1>4
    <2>. QED BY <2>1 DEF TokenType
<1>6. token[k].status # "NONE" /\ token[k].user \in Users /\ token[k].root \in Issued
      /\ token[token[k].root].user = token[k].user
    BY <1>1 DEF TokensStem, Issued
<1>. HIDE DEF k, old, made
<1>7. /\ token'[k] = old /\ token'[j] = made /\ \A i \in Tokens \ {k, j} : token'[i] = token[i]
      /\ token' \in [Tokens -> TokenType]
    BY <1>1, <1>2, <1>4, <1>5
<1>8. \A i \in Issued : /\ token'[i].status # "NONE"
                        /\ token'[i].user = token[i].user /\ token'[i].root = token[i].root
    BY <1>1, <1>5, <1>6, <1>7 DEF Issued
<1>9. TokensStem' /\ Issued \subseteq Issued'
    <2>1. \A i \in Tokens \ Issued : token'[i] = Unissued \/ i = j
        BY <1>1, <1>7 DEF TokensStem
    <2>. QED BY <1>1, <1>3, <1>5, <1>6, <1>7, <1>8, <2>1, StemKept DEF TokensStem
<1>10. overlapped' \subseteq Tokens
    BY <1>1, <1>3, <1>4, <1>6
<1>11. TokensKept
    BY <1>3, <1>4, <1>7, <1>8, <1>9, <1>10 DEF TokensKept
<1>. QED BY <1>1, <1>3, <1>5, <1>7, <1>11 DEF k

\* The tokens of a user were given out, and so were their logins.
LEMMA UserTokens ==
    ASSUME TokensStem, NEW u \in Users
    PROVE  OfUser(u) \subseteq Issued /\ Roots(OfUser(u)) \subseteq Issued
<1>1. \A k \in Tokens \ Issued : token[k].user = NoUser
    BY DEF TokensStem, Unissued
<1>2. OfUser(u) \subseteq Issued
    BY <1>1, SessionsAssumption DEF OfUser
<1>. QED BY <1>2 DEF Roots, TokensStem

\* A check that finds the token used takes all live tokens of its user out.
Reuse(t) ==
    LET u == token[tab[t].tok].user IN
    /\ tab[t].tok \in Issued /\ Consumed(tab[t].tok) /\ u \in Users
    /\ token' = Spend({j \in OfUser(u) : Live(j)}) /\ ended' = ended \cup Roots(OfUser(u)) /\ overlapped' = overlapped

LEMMA RefreshReadTokens ==
    ASSUME SessionsTypeOK, TokensStem, NEW t \in Tabs, RefreshRead(t), TabSound(tab[t])
    PROVE  /\ Reuse(t) \/ UNCHANGED <<token, history>>
           /\ Reuse(t) => TokensKept
<1>. DEFINE k == tab[t].tok
            u == token[k].user
            S == {j \in OfUser(u) : Live(j)}
<1>1. k # NoToken /\ Consumed(k) => k \in Issued /\ u \in Users
    BY DEF TabSound, TokensStem
<1>2. Reuse(t) \/ UNCHANGED <<token, history>>
    BY <1>1 DEF RefreshRead, Reuse, history
<1>3. ASSUME Reuse(t)
      PROVE  TokensKept
    <2>1. u \in Users /\ token' = Spend(S) /\ ended' = ended \cup Roots(OfUser(u)) /\ overlapped' = overlapped
        BY <1>3 DEF Reuse
    <2>2. S \in SUBSET Issued /\ ended' \subseteq Issued
        BY <2>1, UserTokens DEF TokensStem
    <2>3. overlapped' \subseteq Tokens
        BY <2>1 DEF SessionsTypeOK
    <2>. HIDE DEF S
    <2>4. token' = [j \in Tokens |-> IF j \in S THEN Restated(token[j], "SPENT") ELSE token[j]]
        BY Zenon, <2>1 DEF Spend, Restated
    <2>. QED BY <2>2, <2>3, <2>4, StatusKept
<1>. QED BY <1>2, <1>3

\* A logout takes out the token it was sent.
LEMMA LogoutTokens ==
    ASSUME SessionsTypeOK, TokensStem, NEW t \in Tabs, LogoutServed(t), TabSound(tab[t])
    PROVE  LET k == tab[t].tok IN
           \/ UNCHANGED <<token, history>>
           \/ /\ k \in Issued /\ token' = Spend({k}) /\ ended' = ended \cup {token[k].root}
              /\ overlapped' = overlapped \cup (IF Live(k) THEN {} ELSE {token[k].root})
              /\ token[k].status # "EXPIRED" /\ TokensKept
<1>. DEFINE k == tab[t].tok
<1>1. ASSUME ~UNCHANGED <<token, history>>
      PROVE  /\ k \in Issued /\ token' = Spend({k}) /\ ended' = ended \cup {token[k].root}
             /\ overlapped' = overlapped \cup (IF Live(k) THEN {} ELSE {token[k].root})
             /\ token[k].status # "EXPIRED"
    BY <1>1 DEF LogoutServed, TabSound, history
<1>2. ASSUME ~UNCHANGED <<token, history>>
      PROVE  TokensKept
    <2>1. k \in Issued /\ token[k].root \in Issued /\ Issued \subseteq Tokens
        BY <1>1, <1>2 DEF TokensStem, Issued
    <2>2. ended' \subseteq Issued /\ overlapped' \subseteq Tokens
        BY <1>1, <1>2, <2>1 DEF TokensStem, SessionsTypeOK
    <2>3. token' = [j \in Tokens |-> IF j \in {k} THEN Restated(token[j], "SPENT") ELSE token[j]]
        <3>1. token' = Spend({k})
            BY <1>1, <1>2
        <3>. QED BY Zenon, <3>1 DEF Spend, Restated
    <2>4. {k} \in SUBSET Issued
        BY <2>1
    <2>. QED BY <2>2, <2>3, <2>4, StatusKept
<1>. QED BY <1>1, <1>2

\* A token ends.
LEMMA ExpiryTokens ==
    ASSUME SessionsTypeOK, TokensStem, NEW k \in Tokens, TokenExpires(k)
    PROVE  /\ k \in Issued /\ UNCHANGED history /\ TokensKept
           /\ token' = [j \in Tokens |-> IF j \in {k} THEN Restated(token[j], "EXPIRED") ELSE token[j]]
<1>1. token[k].status # "NONE" /\ UNCHANGED <<ended, overlapped>> /\ UNCHANGED history
    BY DEF TokenExpires, history
<1>2. k \in Issued /\ ended' \subseteq Issued /\ overlapped' \subseteq Tokens
    BY <1>1 DEF Issued, TokensStem, SessionsTypeOK
<1>3. token \in [Tokens -> TokenType]
    BY DEF SessionsTypeOK
<1>4. token' = [token EXCEPT ![k] = Restated(token[k], "EXPIRED")]
    BY Zenon DEF TokenExpires, Restated
<1>5. token' = [j \in Tokens |-> IF j \in {k} THEN Restated(token[j], "EXPIRED") ELSE token[j]]
    BY <1>3, <1>4
<1>6. {k} \in SUBSET Issued
    BY <1>2
<1>. QED BY <1>1, <1>2, <1>5, <1>6, StatusKept

\* The steps that change the tokens, and what becomes of the others.
LEMMA TokensStep ==
    ASSUME SessionsTypeOK, TokensStem, CookiesIssued, [SessionsNext]_sessionVars
    PROVE  /\ TokensKept
           /\ \/ UNCHANGED <<token, history>>
              \/ \E t \in Tabs, u \in Users, k \in Tokens : Login(t, u, k)
              \/ \E t \in Tabs, j \in Tokens : RefreshWrite(t, j)
              \/ \E t \in Tabs : (RefreshRead(t) /\ Reuse(t)) \/ LogoutServed(t)
              \/ \E k \in Tokens : TokenExpires(k)
<1>1. ASSUME UNCHANGED <<token, history>>
      PROVE  TokensKept
    <2>1. UNCHANGED <<token, ended, overlapped>>
        BY <1>1 DEF history
    <2>2. Issued' = Issued
        BY <2>1 DEF Issued
    <2>. QED BY <2>1, <2>2 DEF TokensKept, TokensStem, SessionsTypeOK
<1>2. \A t \in Tabs : TabSound(tab[t])
    BY DEF CookiesIssued
<1>3. ASSUME NEW t \in Tabs, \/ Start(t) \/ UserLogout(t) \/ Navigate(t) \/ Deliver(t) \/ Denied(t)
                             \/ RefreshFails(t) \/ RefreshArrives(t) \/ RefusedArrives(t) \/ LogoutArrives(t)
                             \/ ClearCaches(t) \/ TimeOut(t) \/ AnswerLost(t) \/ LogoutLost(t)
      PROVE  UNCHANGED <<token, history>>
    BY <1>3 DEF Start, UserLogout, Navigate, Deliver, Denied, RefreshFails, RefreshArrives, RefusedArrives,
                LogoutArrives, ClearCaches, TimeOut, AnswerLost, LogoutLost
<1>4. ASSUME NEW d \in Devices, LateArrives(d) \/ BrowserCloses(d) \/ AccessExpires(d) \/ WorkerActivates(d)
      PROVE  UNCHANGED <<token, history>>
    BY <1>4 DEF LateArrives, BrowserCloses, AccessExpires, WorkerActivates
<1>5. UNCHANGED sessionVars => UNCHANGED <<token, history>>
    BY DEF sessionVars, history
<1>6. ASSUME NEW t \in Tabs, RefreshRead(t)
      PROVE  (Reuse(t) /\ TokensKept) \/ UNCHANGED <<token, history>>
    BY <1>2, <1>6, RefreshReadTokens
<1>7. ASSUME NEW t \in Tabs, LogoutServed(t)
      PROVE  TokensKept \/ UNCHANGED <<token, history>>
    BY <1>2, <1>7, LogoutTokens
<1>8. ASSUME NEW t \in Tabs, NEW u \in Users, NEW k \in Tokens, Login(t, u, k)
      PROVE  TokensKept
    BY <1>8, LoginTokens
<1>9. ASSUME NEW t \in Tabs, NEW j \in Tokens, RefreshWrite(t, j)
      PROVE  TokensKept
    BY <1>2, <1>9, RefreshWriteTokens
<1>10. ASSUME NEW k \in Tokens, TokenExpires(k)
       PROVE  TokensKept
    BY <1>10, ExpiryTokens
<1>. QED BY Zenon, <1>1, <1>3, <1>4, <1>5, <1>6, <1>7, <1>8, <1>9, <1>10, SessionsSteps

\* A login keeps one live token at most, and none once it was revoked.
LEMMA NextOneSession ==
    ASSUME SessionsTypeOK, TokensStem, CookiesIssued, OneSessionPerLogin, [SessionsNext]_sessionVars
    PROVE  OneSessionPerLogin'
<1>. DEFINE LiveNext(k) == token'[k].status = "LIVE"
<1>1. \A k \in Tokens : k # NoToken /\ (Live(k) <=> token[k].status = "LIVE") /\ (Live(k)' <=> LiveNext(k))
    BY SessionsAssumption DEF Live
<1>2. /\ Issued \subseteq Tokens /\ \A k \in Tokens : token[k].status = "LIVE" => k \in Issued
      /\ \A k \in Issued : token[k].user \in Users /\ token[k].root \in Issued /\ token[token[k].root].user = token[k].user
    BY DEF Issued, TokensStem
<1>3. TokensKept /\ \A t \in Tabs : TabSound(tab[t])
    BY TokensStep DEF CookiesIssued
\* fewer live tokens, of logins that were not revoked
<1>4. ASSUME \A k \in Tokens : LiveNext(k) => token[k].status = "LIVE" /\ token'[k].root = token[k].root,
             overlapped \subseteq overlapped',
             \A k \in Tokens : LiveNext(k) /\ token[k].root \in ended' => token[k].root \in ended \cup overlapped'
      PROVE  OneSessionPerLogin'
    BY <1>1, <1>4 DEF OneSessionPerLogin
<1>5. ASSUME UNCHANGED <<token, history>>
      PROVE  OneSessionPerLogin'
    BY <1>5 DEF OneSessionPerLogin, Live, history
<1>6. ASSUME NEW t \in Tabs, NEW u \in Users, NEW k \in Tokens, Login(t, u, k)
      PROVE  OneSessionPerLogin'
    <2>1. /\ k \notin Issued /\ UNCHANGED <<ended, overlapped>>
          /\ token'[k].root = k /\ \A j \in Tokens \ {k} : token'[j] = token[j]
        BY <1>6, LoginTokens DEF history
    <2>2. \A j \in Tokens \ {k} : LiveNext(j) => token'[j].root # k
        BY <1>2, <2>1
    <2>3. k \notin ended
        BY <2>1 DEF TokensStem
    <2>. QED BY <1>1, <2>1, <2>2, <2>3 DEF OneSessionPerLogin
<1>7. ASSUME NEW t \in Tabs, NEW j \in Tokens, RefreshWrite(t, j)
      PROVE  OneSessionPerLogin'
    <2>. DEFINE k == tab[t].tok
    <2>1. /\ k \in Issued /\ j \notin Issued /\ k # j
          /\ token'[k].status = (IF Live(k) THEN "SPENT" ELSE token[k].status)
          /\ token'[j].root = token[k].root /\ \A i \in Tokens \ {k, j} : token'[i] = token[i]
          /\ ended' = ended /\ overlapped' = overlapped \cup (IF Live(k) THEN {} ELSE {token[k].root})
        BY <1>3, <1>7, RefreshWriteTokens
    <2>. HIDE DEF k
    <2>2. ~LiveNext(k)
        BY <1>1, <1>2, <2>1
    <2>3. ASSUME NEW i \in Tokens, LiveNext(i), token'[i].root \notin overlapped'
          PROVE  /\ \A h \in Tokens : LiveNext(h) /\ token'[h].root = token'[i].root => h = i
                 /\ token'[i].root \notin ended'
        <3>1. CASE token'[i].root = token[k].root
            <4>1. Live(k) /\ token[k].root \notin overlapped
                BY <2>1, <2>3, <3>1
            <4>2. token[k].root \notin ended /\ \A h \in Tokens : Live(h) /\ token[h].root = token[k].root => h = k
                BY <1>2, <2>1, <4>1 DEF OneSessionPerLogin
            <4>3. \A h \in Tokens : LiveNext(h) /\ token'[h].root = token[k].root => h = j
                BY <1>1, <2>1, <2>2, <4>2
            <4>. QED BY <2>1, <2>3, <3>1, <4>2, <4>3
        <3>2. CASE token'[i].root # token[k].root
            <4>1. i \in Tokens \ {k, j} /\ Live(i) /\ token[i].root \notin overlapped
                BY <1>1, <2>1, <2>2, <2>3, <3>2
            <4>2. \A h \in Tokens : LiveNext(h) /\ token'[h].root = token[i].root => Live(h) /\ token[h].root = token[i].root
                BY <1>1, <2>1, <2>2, <3>2, <4>1
            <4>. QED BY <2>1, <4>1, <4>2 DEF OneSessionPerLogin
        <3>. QED BY <3>1, <3>2
    <2>. QED BY <1>1, <2>3 DEF OneSessionPerLogin
<1>8. ASSUME NEW t \in Tabs, Reuse(t)
      PROVE  OneSessionPerLogin'
    <2>. DEFINE u == token[tab[t].tok].user
                S == {i \in OfUser(u) : Live(i)}
    <2>1. u \in Users /\ token' = Spend(S) /\ ended' = ended \cup Roots(OfUser(u)) /\ overlapped' = overlapped
        BY <1>8 DEF Reuse
    <2>2. \A k \in Tokens : k \notin S => token'[k] = token[k]
        BY <2>1 DEF Spend
    <2>3. \A k \in S : token'[k].status = "SPENT"
        <3>1. \A k \in S : token'[k] = Restated(token[k], "SPENT") /\ token[k] \in TokenType
            BY <2>1 DEF Spend, Restated, OfUser, SessionsTypeOK
        <3>. QED BY <3>1, TokenRows
    <2>4. \A k \in Tokens : LiveNext(k) => k \notin S /\ token[k].status = "LIVE" /\ token[k].user # u
        BY <1>1, <2>2, <2>3 DEF OfUser
    <2>5. \A r \in Roots(OfUser(u)) : token[r].user = u
        BY <1>2, <2>1, UserTokens DEF Roots, OfUser
    <2>6. \A k \in Tokens : LiveNext(k) => token[k].root \notin Roots(OfUser(u))
        BY <1>2, <2>4, <2>5
    <2>. QED BY <1>4, <2>1, <2>2, <2>4, <2>6
<1>9. ASSUME NEW t \in Tabs, LogoutServed(t), ~UNCHANGED <<token, history>>
      PROVE  OneSessionPerLogin'
    <2>. DEFINE k == tab[t].tok
    <2>1. /\ k \in Issued /\ token' = Spend({k}) /\ ended' = ended \cup {token[k].root}
          /\ overlapped' = overlapped \cup (IF Live(k) THEN {} ELSE {token[k].root})
        BY <1>3, <1>9, LogoutTokens
    <2>. HIDE DEF k
    <2>2. \A i \in Tokens \ {k} : token'[i] = token[i]
        BY <2>1 DEF Spend
    <2>3. ~LiveNext(k)
        <3>1. token'[k] = Restated(token[k], "SPENT") /\ token[k] \in TokenType
            BY <1>2, <2>1 DEF Spend, Restated, SessionsTypeOK
        <3>. QED BY <3>1, TokenRows
    <2>4. ASSUME NEW i \in Tokens, LiveNext(i), token[i].root = token[k].root
          PROVE  token[i].root \in overlapped'
        BY <1>1, <1>2, <2>1, <2>2, <2>3, <2>4 DEF OneSessionPerLogin
    <2>. QED BY <1>4, <2>1, <2>2, <2>3, <2>4
<1>10. ASSUME NEW k \in Tokens, TokenExpires(k)
       PROVE  OneSessionPerLogin'
    <2>1. UNCHANGED <<ended, overlapped>> /\ \A i \in Tokens \ {k} : token'[i] = token[i]
        BY <1>10, ExpiryTokens DEF history
    <2>2. ~LiveNext(k)
        <3>1. token'[k] = Restated(token[k], "EXPIRED") /\ token[k] \in TokenType
            BY <1>10, ExpiryTokens DEF SessionsTypeOK
        <3>. QED BY <3>1, TokenRows
    <2>. QED BY <1>4, <2>1, <2>2
<1>. QED BY <1>5, <1>6, <1>7, <1>8, <1>9, <1>10, TokensStep

-----------------------------------------------------------------------------
(* Tabs *)

Busy == Leaving \cup {"clearing"}

\* A tab is about to empty the caches of its browser.
Going(d) == \E t \in Tabs : DeviceOf[t] = d /\ tab[t].pc \in Busy

\* Tabs stay sound, and one that is about to empty the caches does so.
TabsKept == tab' \in [Tabs -> TabType] /\ (\A t \in Tabs : TabSound(tab[t])')

\* One tab moves on with what was given out.
LEMMA TabMoves ==
    ASSUME SessionsTypeOK, CookiesIssued, Issued \subseteq Issued', NEW t \in Tabs, NEW s \in TabType, SetTab(t, s),
           s.tok \in Issued' \cup {NoToken}, s.new \in Issued' \cup {NoToken},
           s.pc = "granted" => s.tok # NoToken, s.pc = "renewed" => s.new # NoToken
    PROVE  /\ TabsKept
           /\ \A d \in Devices : Going(d) /\ (DeviceOf[t] # d \/ tab[t].pc \notin Busy \/ s.pc \in Busy) => Going(d)'
           /\ s.pc \in Busy => Going(DeviceOf[t])'
<1>1. tab \in [Tabs -> TabType]
    BY DEF SessionsTypeOK
<1>2. tab' \in [Tabs -> TabType] /\ tab'[t] = s /\ \A v \in Tabs \ {t} : tab'[v] = tab[v]
    BY <1>1 DEF SetTab
<1>3. \A v \in Tabs : TabSound(tab[v])'
    BY <1>2 DEF TabSound, CookiesIssued
<1>. QED BY <1>2, <1>3 DEF TabsKept, Going

\* A tab without a token.
LEMMA PlainTabMoves ==
    ASSUME SessionsTypeOK, CookiesIssued, Issued \subseteq Issued', NEW t \in Tabs,
           NEW pc \in Resting \cup {"asked", "clearing", "refused", "leaving", "served", "renewing"},
           NEW u \in Users \cup {NoUser}, NEW k \in Issued' \cup {NoToken},
           SetTab(t, At(pc)) \/ SetTab(t, [At(pc) EXCEPT !.as = u]) \/ SetTab(t, [At(pc) EXCEPT !.tok = k])
    PROVE  /\ TabsKept
           /\ \A d \in Devices : Going(d) /\ (DeviceOf[t] # d \/ tab[t].pc \notin Busy \/ pc \in Busy) => Going(d)'
           /\ pc \in Busy => Going(DeviceOf[t])'
<1>1. pc \in Resting \cup {"asked", "clearing"} \cup Renewing \cup Leaving /\ pc \notin {"granted", "renewed"}
    BY DEF Resting, Renewing, Leaving
<1>2. k \in Tokens \cup {NoToken}
    BY DEF Issued
<1>3. At(pc) \in TabType /\ At(pc).pc = pc /\ At(pc).tok = NoToken /\ At(pc).new = NoToken
    BY <1>1, TabTypes
<1>4. CASE SetTab(t, At(pc))
    BY <1>1, <1>3, <1>4, TabMoves
<1>5. CASE SetTab(t, [At(pc) EXCEPT !.as = u])
    <2>. DEFINE s == [At(pc) EXCEPT !.as = u]
    <2>1. s \in TabType /\ s.pc = pc /\ s.tok = NoToken /\ s.new = NoToken
        BY <1>3, TabTypes
    <2>. HIDE DEF s
    <2>. QED BY <1>1, <1>5, <2>1, TabMoves DEF s
<1>6. CASE SetTab(t, [At(pc) EXCEPT !.tok = k])
    <2>. DEFINE s == [At(pc) EXCEPT !.tok = k]
    <2>1. s \in TabType /\ s.pc = pc /\ s.tok = k /\ s.new = NoToken
        BY <1>2, <1>3, TabTypes
    <2>. HIDE DEF s
    <2>. QED BY <1>1, <1>6, <2>1, TabMoves DEF s
<1>. QED BY <1>4, <1>5, <1>6

\* The tabs that a step leaves alone.
LEMMA SameTabs ==
    ASSUME SessionsTypeOK, CookiesIssued, Issued \subseteq Issued', tab' = tab
    PROVE  TabsKept /\ \A d \in Devices : Going(d) => Going(d)'
BY DEF SessionsTypeOK, CookiesIssued, TabSound, TabsKept, Going

-----------------------------------------------------------------------------
(* Browsers *)

\* Whose data a browser keeps, but by a slip.
Clean(d) == device[d].left \/ device[d].caches \subseteq {SessionUser(device[d])}

DevicesKept == device' \in [Devices -> DeviceType] /\ (\A d \in Devices : DeviceSound(device[d])')

\* A browser that a step leaves alone has the same user.
LEMMA SameDevice ==
    ASSUME CookiesIssued, TokensKept, NEW d \in Devices, device'[d] = device[d]
    PROVE  DeviceSound(device[d])' /\ SessionUser(device[d])' = SessionUser(device[d]) /\ (Clean(d) => Clean(d)')
<1>1. device[d].refresh \in Issued \cup {NoToken}
    BY DEF CookiesIssued, DeviceSound
<1>2. SessionUser(device[d])' = SessionUser(device[d])
    BY <1>1 DEF SessionUser, TokensKept
<1>. QED BY <1>1, <1>2 DEF DeviceSound, CookiesIssued, TokensKept, Clean

\* One browser changes.
LEMMA DeviceChanges ==
    ASSUME SessionsTypeOK, CookiesIssued, TokensKept, NEW d \in Devices, NEW c \in DeviceType,
           device' = [device EXCEPT ![d] = c],
           c.refresh \in Issued' \cup {NoToken}, c.refresh = NoToken => c.access = NoUser
    PROVE  /\ DevicesKept /\ device'[d] = c /\ \A e \in Devices \ {d} : Clean(e) => Clean(e)'
           /\ SessionUser(device[d])' = IF c.refresh # NoToken THEN token'[c.refresh].user ELSE NoUser
<1>1. device \in [Devices -> DeviceType]
    BY DEF SessionsTypeOK
<1>2. device' \in [Devices -> DeviceType] /\ device'[d] = c /\ \A e \in Devices \ {d} : device'[e] = device[e]
    BY <1>1
<1>3. \A e \in Devices \ {d} : DeviceSound(device[e])' /\ (Clean(e) => Clean(e)')
    BY <1>2, SameDevice
<1>4. DeviceSound(device[d])'
    BY <1>2 DEF DeviceSound
<1>5. SessionUser(device[d])' = IF c.refresh # NoToken THEN token'[c.refresh].user ELSE NoUser
    BY <1>2 DEF SessionUser
<1>. QED BY <1>2, <1>3, <1>4, <1>5 DEF DevicesKept

\* No browser changes.
LEMMA SameDevices ==
    ASSUME SessionsTypeOK, CookiesIssued, TokensKept, device' = device
    PROVE  DevicesKept /\ \A e \in Devices : Clean(e) => Clean(e)'
<1>1. \A d \in Devices : DeviceSound(device[d])' /\ (Clean(d) => Clean(d)')
    BY SameDevice
<1>. QED BY <1>1 DEF DevicesKept, SessionsTypeOK

\* The kinds of change: the user it had, no user at all, and a user who signs in.
LEMMA CleanKept ==
    ASSUME SessionsTypeOK, CookiesIssued, TokensKept, NEW d \in Devices, NEW c \in DeviceType,
           device' = [device EXCEPT ![d] = c], c.refresh = device[d].refresh, c.access \in {device[d].access, NoUser}
    PROVE  /\ DevicesKept /\ device'[d] = c /\ \A e \in Devices \ {d} : Clean(e) => Clean(e)'
           /\ SessionUser(device[d])' = SessionUser(device[d])
<1>1. DeviceSound(device[d])
    BY DEF CookiesIssued
<1>2. c.refresh \in Issued' \cup {NoToken} /\ (c.refresh = NoToken => c.access = NoUser)
    BY <1>1 DEF DeviceSound, TokensKept
<1>3. SessionUser(device[d]) = IF c.refresh # NoToken THEN token'[c.refresh].user ELSE NoUser
    BY <1>1 DEF DeviceSound, SessionUser, TokensKept
<1>. QED BY <1>2, <1>3, DeviceChanges

-----------------------------------------------------------------------------
(* Both *)

\* What is kept of every step.
Kept == TabsKept /\ DevicesKept /\ ForeignDataOnlyBySlip'

\* The data in a browser is its user's, or is about to go.
LEMMA ForeignMeans == ForeignDataOnlyBySlip <=> \A d \in Devices : Clean(d) \/ Going(d)
BY Zenon DEF ForeignDataOnlyBySlip, Clean, Going, Busy

\* A step that only moves a tab, which does not leave off emptying the caches.
LEMMA TabOnly ==
    ASSUME SessionsTypeOK, CookiesIssued, ForeignDataOnlyBySlip, TokensKept, device' = device,
           TabsKept, \A d \in Devices : Going(d) => Going(d)'
    PROVE  Kept
<1>1. DevicesKept /\ \A d \in Devices : Clean(d) => Clean(d)'
    BY SameDevices
<1>2. \A d \in Devices : Clean(d)' \/ Going(d)'
    BY <1>1, ForeignMeans
<1>3. ForeignDataOnlyBySlip'
    BY Zenon, <1>2 DEF ForeignDataOnlyBySlip, Clean, Going, Busy
<1>. QED BY <1>1, <1>3 DEF Kept

\* A step that changes one browser.
LEMMA OneDevice ==
    ASSUME ForeignDataOnlyBySlip, NEW d \in Devices, TabsKept, DevicesKept,
           \A e \in Devices \ {d} : Clean(e) => Clean(e)', \A e \in Devices \ {d} : Going(e) => Going(e)',
           (Clean(d) \/ Going(d)) => (Clean(d)' \/ Going(d)')
    PROVE  Kept
<1>1. \A e \in Devices : Clean(e) \/ Going(e)
    BY ForeignMeans
<1>2. \A e \in Devices : Clean(e)' \/ Going(e)'
    BY <1>1
<1>3. ForeignDataOnlyBySlip'
    BY Zenon, <1>2 DEF ForeignDataOnlyBySlip, Clean, Going, Busy
<1>. QED BY <1>3 DEF Kept

\* Sending and handling a request changes no browser.
LEMMA TabSteps ==
    ASSUME SessionsTypeOK, TokensStem, CookiesIssued, ForeignDataOnlyBySlip, TokensKept, NEW t \in Tabs,
           \/ Start(t) \/ UserLogout(t) \/ Navigate(t) \/ Denied(t) \/ RefreshRead(t) \/ RefreshFails(t)
           \/ LogoutServed(t) \/ AnswerLost(t) \/ LogoutLost(t) \/ \E j \in Tokens : RefreshWrite(t, j)
    PROVE  Kept
<1>. DEFINE d == DeviceOf[t]
<1>1. tab[t] \in TabType /\ d \in Devices /\ device[d] \in DeviceType /\ TabSound(tab[t]) /\ DeviceSound(device[d])
    BY SessionsAssumption DEF SessionsTypeOK, CookiesIssued
<1>2. device[d].access \in Users \cup {NoUser} /\ device[d].refresh \in Issued' \cup {NoToken} /\ Issued \subseteq Issued'
    BY <1>1 DEF DeviceType, DeviceSound, TokensKept
<1>3. ASSUME Start(t)
      PROVE  Kept
    <2>1. SetTab(t, [At("asked") EXCEPT !.as = device[d].access]) /\ device' = device /\ tab[t].pc \notin Busy
        BY <1>3 DEF Start, Dev, Busy, Leaving
    <2>. QED BY <1>2, <2>1, PlainTabMoves, TabOnly
<1>4. ASSUME UserLogout(t)
      PROVE  Kept
    <2>1. SetTab(t, [At("leaving") EXCEPT !.tok = device[d].refresh]) /\ device' = device /\ tab[t].pc \notin Busy
        BY <1>4 DEF UserLogout, Dev, Busy, Leaving
    <2>. QED BY <1>2, <2>1, PlainTabMoves, TabOnly
<1>5. ASSUME Navigate(t)
      PROVE  Kept
    <2>1. (SetTab(t, At("login")) \/ SetTab(t, At("idle"))) /\ device' = device /\ tab[t].pc \notin Busy
        BY <1>5 DEF Navigate, Busy, Leaving
    <2>. QED BY <1>2, <2>1, PlainTabMoves, TabOnly DEF Resting
<1>6. ASSUME Denied(t)
      PROVE  Kept
    <2>1. SetTab(t, [At("renewing") EXCEPT !.tok = device[d].refresh]) /\ device' = device /\ tab[t].pc \notin Busy
        BY <1>6 DEF Denied, Dev, Busy, Leaving
    <2>. QED BY <1>2, <2>1, PlainTabMoves, TabOnly
<1>7. ASSUME RefreshRead(t)
      PROVE  Kept
    <2>. DEFINE s == [tab[t] EXCEPT !.pc = "granted"]
    <2>1. device' = device /\ tab[t].pc \notin Busy
        BY <1>7 DEF RefreshRead, Busy, Leaving
    <2>2. CASE SetTab(t, At("refused"))
        BY <1>2, <2>1, <2>2, PlainTabMoves, TabOnly
    <2>3. CASE SetTab(t, s) /\ tab[t].tok # NoToken
        <3>1. s \in TabType /\ s.pc = "granted" /\ s.tok = tab[t].tok /\ s.new = tab[t].new
            BY <1>1 DEF TabType, Renewing
        <3>2. s.tok \in Issued' \cup {NoToken} /\ s.new \in Issued' \cup {NoToken}
            BY <1>1, <1>2, <3>1 DEF TabSound
        <3>. HIDE DEF s
        <3>. QED BY <1>2, <2>1, <2>3, <3>1, <3>2, TabMoves, TabOnly
    <2>. QED BY <1>7, <2>2, <2>3 DEF RefreshRead
<1>8. ASSUME RefreshFails(t)
      PROVE  Kept
    <2>1. SetTab(t, At("refused")) /\ device' = device /\ tab[t].pc \notin Busy
        BY <1>8 DEF RefreshFails, Busy, Leaving
    <2>. QED BY <1>2, <2>1, PlainTabMoves, TabOnly
<1>9. ASSUME LogoutServed(t)
      PROVE  Kept
    <2>1. SetTab(t, At("served")) /\ device' = device /\ "served" \in Busy
        BY <1>9 DEF LogoutServed, Busy, Leaving
    <2>. QED BY <1>2, <2>1, PlainTabMoves, TabOnly
<1>10. ASSUME AnswerLost(t)
       PROVE  Kept
    <2>1. SetTab(t, At("idle")) /\ device' = device /\ tab[t].pc \notin Busy
        BY <1>10 DEF AnswerLost, Busy, Leaving
    <2>. QED BY <1>2, <2>1, PlainTabMoves, TabOnly DEF Resting
<1>11. ASSUME LogoutLost(t)
       PROVE  Kept
    <2>1. SetTab(t, At("clearing")) /\ device' = device /\ "clearing" \in Busy
        BY <1>11 DEF LogoutLost, Busy
    <2>. QED BY <1>2, <2>1, PlainTabMoves, TabOnly
<1>12. ASSUME NEW j \in Tokens, RefreshWrite(t, j)
       PROVE  Kept
    <2>. DEFINE s == [At("renewed") EXCEPT !.new = j]
    <2>1. SetTab(t, s) /\ device' = device /\ tab[t].pc \notin Busy
        BY <1>12 DEF RefreshWrite, Busy, Leaving
    <2>2. At("renewed") \in TabType /\ At("renewed").pc = "renewed" /\ At("renewed").tok = NoToken
        BY TabTypes DEF Renewing
    <2>3. s \in TabType /\ s.pc = "renewed" /\ s.tok = NoToken /\ s.new = j
        BY <2>2, TabTypes
    <2>4. j \in Issued' /\ j # NoToken
        <3>1. token'[j].status = "LIVE"
            BY <1>1, <1>12, RefreshWriteTokens
        <3>. QED BY <3>1, SessionsAssumption DEF Issued
    <2>. HIDE DEF s
    <2>. QED BY <1>2, <2>1, <2>3, <2>4, TabMoves, TabOnly
<1>. QED BY <1>3, <1>4, <1>5, <1>6, <1>7, <1>8, <1>9, <1>10, <1>11, <1>12


\* A step that changes the browser of one tab.
LEMMA BrowserMoves ==
    ASSUME SessionsTypeOK, CookiesIssued, ForeignDataOnlyBySlip, TokensKept, NEW t \in Tabs, TabsKept,
           NEW c \in DeviceType, SetDevice(t, c),
           c.refresh \in Issued' \cup {NoToken}, c.refresh = NoToken => c.access = NoUser,
           \A e \in Devices : Going(e) /\ DeviceOf[t] # e => Going(e)',
           \/ Going(DeviceOf[t])'
           \/ c.left
           \/ c.caches \subseteq {IF c.refresh # NoToken THEN token'[c.refresh].user ELSE NoUser}
           \/ ~(Clean(DeviceOf[t]) \/ Going(DeviceOf[t]))
    PROVE  Kept
<1>. DEFINE d == DeviceOf[t]
<1>1. d \in Devices /\ device' = [device EXCEPT ![d] = c]
    BY SessionsAssumption DEF SetDevice
<1>2. /\ DevicesKept /\ device'[d] = c /\ \A e \in Devices \ {d} : Clean(e) => Clean(e)'
      /\ SessionUser(device[d])' = IF c.refresh # NoToken THEN token'[c.refresh].user ELSE NoUser
    BY <1>1, DeviceChanges
<1>3. (Clean(d) \/ Going(d)) => (Clean(d)' \/ Going(d)')
    BY <1>2 DEF Clean
<1>. HIDE DEF d
<1>. QED BY <1>1, <1>2, <1>3, OneDevice DEF d

\* What is known of a tab and its browser before a step.
LEMMA TabAndBrowser ==
    ASSUME SessionsTypeOK, CookiesIssued, TokensKept, NEW t \in Tabs
    PROVE  /\ tab[t] \in TabType /\ TabSound(tab[t]) /\ Dev(t) \in DeviceType /\ DeviceSound(Dev(t))
           /\ Issued \subseteq Issued' /\ Issued' \subseteq Tokens /\ Dev(t) = device[DeviceOf[t]]
           /\ SessionUser(Dev(t)) = IF Dev(t).refresh # NoToken THEN token[Dev(t).refresh].user ELSE NoUser
           /\ SessionUser(Dev(t)) = NoUser /\ Clean(DeviceOf[t]) => Dev(t).left \/ Dev(t).caches = {}
<1>1. /\ tab[t] \in TabType /\ TabSound(tab[t]) /\ Dev(t) \in DeviceType /\ DeviceSound(Dev(t))
      /\ Dev(t) = device[DeviceOf[t]]
    BY SessionsAssumption DEF SessionsTypeOK, CookiesIssued, Dev
<1>2. Issued \subseteq Issued' /\ Issued' \subseteq Tokens
    BY DEF TokensKept, Issued
<1>3. SessionUser(Dev(t)) = IF Dev(t).refresh # NoToken THEN token[Dev(t).refresh].user ELSE NoUser
    BY <1>1 DEF SessionUser, DeviceSound
<1>4. Dev(t).caches \subseteq Users
    BY <1>1 DEF DeviceType
<1>5. SessionUser(Dev(t)) = NoUser /\ Clean(DeviceOf[t]) => Dev(t).left \/ Dev(t).caches = {}
    BY <1>1, <1>4, SessionsAssumption DEF Clean
<1>. QED BY <1>1, <1>2, <1>3, <1>5

\* The session a browser holds from now on.
LEMMA SessionArrives ==
    ASSUME SessionsTypeOK, CookiesIssued, ForeignDataOnlyBySlip, TokensKept, NEW t \in Tabs, TabsKept,
           NEW k \in Issued', NEW u \in Users, token'[k].user = u,
           SetDevice(t, [Holding(Dev(t), k, u) EXCEPT
                    !.left = @ \/ (SessionUser(Dev(t)) \notin {u, NoUser} /\ Dev(t).caches # {})]),
           \A e \in Devices : Going(e) => Going(e)'
    PROVE  Kept
<1>. DEFINE b == SessionUser(Dev(t)) \notin {u, NoUser} /\ Dev(t).caches # {}
            c == [Holding(Dev(t), k, u) EXCEPT !.left = @ \/ b]
<1>1. /\ Dev(t) \in DeviceType /\ k \in Tokens /\ k # NoToken /\ Dev(t) = device[DeviceOf[t]]
      /\ SessionUser(Dev(t)) = NoUser /\ Clean(DeviceOf[t]) => Dev(t).left \/ Dev(t).caches = {}
    BY TabAndBrowser, SessionsAssumption
<1>2. b \in BOOLEAN /\ SetDevice(t, c)
    OBVIOUS
<1>3. b \/ SessionUser(Dev(t)) \in {u, NoUser} \/ Dev(t).caches = {}
    OBVIOUS
<1>. HIDE DEF b
<1>4. c \in DeviceType /\ c.refresh = k /\ c.caches = Dev(t).caches /\ c.left = (Dev(t).left \/ b)
    BY <1>1, <1>2, SessionTypes
<1>. HIDE DEF c
<1>5. Clean(DeviceOf[t]) => c.left \/ c.caches \subseteq {u}
    BY <1>1, <1>3, <1>4 DEF Clean
<1>6. DeviceOf[t] \in Devices
    BY SessionsAssumption
<1>7. \/ Going(DeviceOf[t])'
      \/ c.left
      \/ c.caches \subseteq {IF c.refresh # NoToken THEN token'[c.refresh].user ELSE NoUser}
      \/ ~(Clean(DeviceOf[t]) \/ Going(DeviceOf[t]))
    BY <1>1, <1>4, <1>5, <1>6
<1>8. c.refresh \in Issued' \cup {NoToken} /\ (c.refresh = NoToken => c.access = NoUser)
    BY <1>1, <1>4
<1>. QED BY <1>2, <1>4, <1>7, <1>8, BrowserMoves

\* Login, and the answer to a renewal.
LEMMA SessionSteps ==
    ASSUME SessionsTypeOK, TokensStem, CookiesIssued, ForeignDataOnlyBySlip, TokensKept, NEW t \in Tabs,
           RefreshArrives(t) \/ \E u \in Users, k \in Tokens : Login(t, u, k)
    PROVE  Kept
<1>1. ASSUME NEW u \in Users, NEW k \in Tokens, Login(t, u, k)
      PROVE  Kept
    <2>1. k \in Issued' /\ token'[k].user = u
        BY <1>1, LoginTokens DEF Issued
    <2>2. SetTab(t, At("idle")) /\ tab[t].pc \notin Busy /\ Issued \subseteq Issued'
        BY <1>1 DEF Login, Busy, Leaving, TokensKept
    <2>3. TabsKept /\ \A e \in Devices : Going(e) => Going(e)'
        BY <2>2, PlainTabMoves DEF Resting
    <2>4. SetDevice(t, [Holding(Dev(t), k, u) EXCEPT
                    !.left = @ \/ (SessionUser(Dev(t)) \notin {u, NoUser} /\ Dev(t).caches # {})])
        BY <1>1 DEF Login
    <2>. QED BY <2>1, <2>3, <2>4, SessionArrives
<1>2. ASSUME RefreshArrives(t)
      PROVE  Kept
    <2>. DEFINE j == tab[t].new
                u == token[j].user
    <2>1. /\ tab[t].pc \notin Busy /\ SetTab(t, [At("asked") EXCEPT !.as = u])
          /\ SetDevice(t, [Holding(Dev(t), j, u) EXCEPT
                    !.left = @ \/ (SessionUser(Dev(t)) \notin {u, NoUser} /\ Dev(t).caches # {})])
        BY <1>2 DEF RefreshArrives, Busy, Leaving
    <2>2. j \in Issued
        BY <1>2, TabAndBrowser DEF RefreshArrives, TabSound
    <2>3. j \in Issued' /\ token'[j].user = u /\ u \in Users /\ Issued \subseteq Issued'
        BY <2>2 DEF TokensKept, TokensStem
    <2>. HIDE DEF j, u
    <2>4. TabsKept /\ \A e \in Devices : Going(e) => Going(e)'
        BY <2>1, <2>3, PlainTabMoves
    <2>. QED BY <2>1, <2>3, <2>4, SessionArrives
<1>. QED BY <1>1, <1>2

\* Answers with data, refusals, logouts, and what leaving the page does.
LEMMA AnswerSteps ==
    ASSUME SessionsTypeOK, CookiesIssued, ForeignDataOnlyBySlip, TokensKept, UNCHANGED token, NEW t \in Tabs,
           Deliver(t) \/ TimeOut(t) \/ RefusedArrives(t) \/ LogoutArrives(t) \/ ClearCaches(t)
    PROVE  Kept
<1>. DEFINE b == Dev(t)
            who == IF b.refresh # NoToken THEN token[b.refresh].user ELSE NoUser
<1>1. /\ tab[t] \in TabType /\ b \in DeviceType /\ DeviceSound(b) /\ b = device[DeviceOf[t]]
      /\ Issued \subseteq Issued' /\ SessionUser(b) = who
    BY TabAndBrowser
<1>2. b.refresh \in Issued' \cup {NoToken} /\ (b.refresh = NoToken => b.access = NoUser)
    BY <1>1 DEF DeviceSound
<1>3. DeviceOf[t] \in Devices
    BY SessionsAssumption
<1>. HIDE DEF b
<1>4. ASSUME Deliver(t)
      PROVE  Kept
    <2>. DEFINE u == tab[t].as
                c == Cached(b, u)
    <2>1. u \in Users /\ SetDevice(t, c) /\ SetTab(t, At("idle")) /\ tab[t].pc \notin Busy
        BY <1>1, <1>4 DEF Deliver, TabType, Busy, Leaving, b
    <2>2. TabsKept /\ \A e \in Devices : Going(e) => Going(e)'
        BY <1>1, <2>1, PlainTabMoves DEF Resting
    <2>3. /\ c \in DeviceType /\ c.refresh = b.refresh /\ c.access = b.access
          /\ c.caches = b.caches \cup {u} /\ c.left = (b.left \/ SessionUser(b) # u)
        BY <1>1, <2>1, CachedTypes
    <2>. HIDE DEF c, u
    <2>4. \/ Going(DeviceOf[t])' \/ c.left \/ c.caches \subseteq {who}
          \/ ~(Clean(DeviceOf[t]) \/ Going(DeviceOf[t]))
        BY <1>1, <1>3, <2>2, <2>3 DEF Clean
    <2>. QED BY <1>2, <2>1, <2>2, <2>3, <2>4, BrowserMoves
<1>5. ASSUME TimeOut(t)
      PROVE  Kept
    <2>. DEFINE W == b.waiting \cup ({tab[t].as} \ {NoUser})
                c == [b EXCEPT !.waiting = W]
    <2>1. SetDevice(t, c) /\ SetTab(t, At("idle")) /\ tab[t].pc \notin Busy /\ W \in SUBSET Users
        BY <1>1, <1>5 DEF TimeOut, TabType, DeviceType, Busy, Leaving, b
    <2>2. TabsKept /\ \A e \in Devices : Going(e) => Going(e)'
        BY <1>1, <2>1, PlainTabMoves DEF Resting
    <2>. HIDE DEF W
    <2>3. /\ c \in DeviceType /\ c.refresh = b.refresh /\ c.access = b.access
          /\ c.caches = b.caches /\ c.left = b.left
        BY <1>1, <2>1, WaitingTypes
    <2>. HIDE DEF c
    <2>4. \/ Going(DeviceOf[t])' \/ c.left \/ c.caches \subseteq {who}
          \/ ~(Clean(DeviceOf[t]) \/ Going(DeviceOf[t]))
        BY <1>1, <1>3, <2>2, <2>3 DEF Clean
    <2>. QED BY <1>2, <2>1, <2>2, <2>3, <2>4, BrowserMoves
<1>6. ASSUME RefusedArrives(t) \/ LogoutArrives(t)
      PROVE  Kept
    <2>. DEFINE c == NoCookies(b)
    <2>1. SetDevice(t, c) /\ \E pc \in {"leaving", "clearing"} : SetTab(t, At(pc))
        BY <1>6 DEF RefusedArrives, LogoutArrives, b
    <2>2. PICK pc \in {"leaving", "clearing"} : SetTab(t, At(pc))
        BY <2>1
    <2>3. pc \in Busy
        BY DEF Busy, Leaving
    <2>4. TabsKept /\ (\A e \in Devices : Going(e) => Going(e)') /\ Going(DeviceOf[t])'
        BY <1>1, <2>2, <2>3, PlainTabMoves
    <2>5. c \in DeviceType /\ c.refresh = NoToken /\ c.access = NoUser
        BY <1>1, DeviceTypes
    <2>. HIDE DEF c
    <2>. QED BY <2>1, <2>4, <2>5, BrowserMoves
<1>7. ASSUME ClearCaches(t)
      PROVE  Kept
    <2>. DEFINE c == Emptied(b)
    <2>1. SetDevice(t, c) /\ (SetTab(t, At("idle")) \/ SetTab(t, At("login")))
        BY <1>7 DEF ClearCaches, b
    <2>2. TabsKept /\ \A e \in Devices : Going(e) /\ DeviceOf[t] # e => Going(e)'
        BY <1>1, <2>1, PlainTabMoves DEF Resting
    <2>3. c \in DeviceType /\ c.refresh = b.refresh /\ c.access = b.access /\ c.caches = {}
        BY <1>1, DeviceTypes
    <2>. HIDE DEF c
    <2>. QED BY <1>2, <2>1, <2>2, <2>3, BrowserMoves
<1>. QED BY <1>4, <1>5, <1>6, <1>7

\* What happens to a browser without its tabs.
LEMMA BrowserSteps ==
    ASSUME SessionsTypeOK, CookiesIssued, ForeignDataOnlyBySlip, TokensKept, NEW d \in Devices,
           LateArrives(d) \/ AccessExpires(d) \/ WorkerActivates(d)
    PROVE  Kept
<1>. DEFINE b == device[d]
<1>1. b \in DeviceType /\ tab' = tab
    BY DEF SessionsTypeOK, LateArrives, AccessExpires, WorkerActivates
<1>2. TabsKept /\ \A e \in Devices : Going(e) => Going(e)'
    BY <1>1, SameTabs DEF TokensKept
<1>3. ASSUME NEW c \in DeviceType, device' = [device EXCEPT ![d] = c],
             c.refresh = b.refresh, c.access \in {b.access, NoUser},
             c.left \/ c.caches = {} \/ (~b.left /\ c.caches \subseteq b.caches \cup {SessionUser(b)})
      PROVE  Kept
    <2>1. /\ DevicesKept /\ device'[d] = c /\ \A e \in Devices \ {d} : Clean(e) => Clean(e)'
          /\ SessionUser(device[d])' = SessionUser(device[d])
        BY <1>3, CleanKept
    <2>2. (Clean(d) \/ Going(d)) => (Clean(d)' \/ Going(d)')
        BY <1>2, <1>3, <2>1 DEF Clean
    <2>. QED BY <1>2, <2>1, <2>2, OneDevice
<1>4. ASSUME LateArrives(d)
      PROVE  Kept
    <2>1. PICK u \in b.waiting : device' = [device EXCEPT ![d] = [Cached(device[d], u) EXCEPT !.waiting = @ \ {u}]]
        BY <1>4 DEF LateArrives
    <2>. DEFINE a == Cached(b, u)
                W == a.waiting \ {u}
                c == [a EXCEPT !.waiting = W]
    <2>2. u \in Users
        BY <1>1 DEF DeviceType
    <2>7. device' = [device EXCEPT ![d] = c]
        BY <2>1
    <2>3. /\ a \in DeviceType /\ a.refresh = b.refresh /\ a.access = b.access
          /\ a.caches = b.caches \cup {u} /\ a.left = (b.left \/ SessionUser(b) # u)
        BY <1>1, <2>2, CachedTypes
    <2>. HIDE DEF a
    <2>4. W \in SUBSET Users
        BY <2>3 DEF DeviceType
    <2>. HIDE DEF W
    <2>5. /\ c \in DeviceType /\ c.refresh = b.refresh /\ c.access = b.access
          /\ c.caches = b.caches \cup {u} /\ c.left = (b.left \/ SessionUser(b) # u)
        BY <2>3, <2>4, WaitingTypes
    <2>. HIDE DEF c
    <2>. QED BY <1>1, <1>3, <2>2, <2>5, <2>7
<1>5. ASSUME AccessExpires(d)
      PROVE  Kept
    <2>. DEFINE c == [b EXCEPT !.access = NoUser]
    <2>1. device' = [device EXCEPT ![d] = c]
        BY <1>5 DEF AccessExpires
    <2>2. c \in DeviceType /\ c.refresh = b.refresh /\ c.access = NoUser /\ c.caches = b.caches /\ c.left = b.left
        BY <1>1 DEF DeviceType
    <2>. HIDE DEF c
    <2>. QED BY <1>1, <1>3, <2>1, <2>2
<1>6. ASSUME WorkerActivates(d)
      PROVE  Kept
    <2>. DEFINE c == Emptied(b)
    <2>1. device' = [device EXCEPT ![d] = c]
        BY <1>6 DEF WorkerActivates
    <2>2. c \in DeviceType /\ c.refresh = b.refresh /\ c.access = b.access /\ c.caches = {}
        BY <1>1, DeviceTypes
    <2>. HIDE DEF c
    <2>. QED BY <1>1, <1>3, <2>1, <2>2
<1>. QED BY <1>4, <1>5, <1>6

\* The end of a token drops the cookies that carry it.
LEMMA ExpirySteps ==
    ASSUME SessionsTypeOK, CookiesIssued, ForeignDataOnlyBySlip, TokensKept, NEW k \in Tokens, TokenExpires(k)
    PROVE  Kept
<1>1. /\ tab' = tab
      /\ device' = [d \in Devices |-> IF device[d].refresh # k THEN device[d]
                                      ELSE IF token[k].remember THEN Dropped(device[d])
                                      ELSE [device[d] EXCEPT !.access = NoUser]]
    BY DEF TokenExpires
<1>2. TabsKept /\ \A e \in Devices : Going(e) => Going(e)'
    BY <1>1, SameTabs DEF TokensKept
<1>3. ASSUME NEW d \in Devices
      PROVE  device'[d] \in DeviceType /\ DeviceSound(device[d])' /\ (Clean(d) => Clean(d)')
    <2>. DEFINE c == [device[d] EXCEPT !.access = NoUser]
    <2>1. device[d] \in DeviceType
        BY DEF SessionsTypeOK
    <2>2. CASE device[d].refresh # k
        <3>1. device'[d] = device[d]
            BY <1>1, <2>2
        <3>. QED BY <2>1, <3>1, SameDevice
    <2>3. CASE device[d].refresh = k /\ device'[d] = Dropped(device[d])
        <3>. DEFINE a == Dropped(device[d])
        <3>1. /\ a \in DeviceType /\ a.refresh = NoToken /\ a.access = NoUser
              /\ a.left = (device[d].left \/ device[d].caches # {}) /\ a.caches = device[d].caches
            BY <2>1, DeviceTypes
        <3>. HIDE DEF a
        <3>2. device'[d] = a
            BY <2>3 DEF a
        <3>3. /\ device'[d] \in DeviceType /\ device'[d].refresh = NoToken /\ device'[d].access = NoUser
              /\ device'[d].left \/ device'[d].caches = {}
            BY <3>1, <3>2
        <3>. QED BY <3>3 DEF DeviceSound, Clean
    <2>4. CASE device[d].refresh = k /\ device'[d] = c
        <3>1. c \in DeviceType /\ c.refresh = k /\ c.caches = device[d].caches /\ c.left = device[d].left
            BY <2>1, <2>4 DEF DeviceType
        <3>2. k # NoToken /\ k \in Issued
            BY <2>4, SessionsAssumption DEF CookiesIssued, DeviceSound
        <3>. HIDE DEF c
        <3>3. SessionUser(device[d])' = token'[k].user /\ SessionUser(device[d]) = token[k].user
            BY <2>4, <3>1, <3>2 DEF SessionUser
        <3>. QED BY <2>4, <3>1, <3>2, <3>3 DEF DeviceSound, Clean, TokensKept
    <2>. QED BY <1>1, <2>2, <2>3, <2>4
<1>4. device' \in [Devices -> DeviceType] /\ DOMAIN device' = Devices
    BY <1>1, <1>3
<1>5. \A e \in Devices : Clean(e)' \/ Going(e)'
    BY <1>2, <1>3, ForeignMeans
<1>6. ForeignDataOnlyBySlip'
    BY Zenon, <1>5 DEF ForeignDataOnlyBySlip, Clean, Going, Busy
<1>. QED BY <1>2, <1>3, <1>4, <1>6 DEF Kept, DevicesKept

\* A closed browser loses the cookies of a session not to be remembered.
LEMMA ClosingSteps ==
    ASSUME SessionsTypeOK, CookiesIssued, ForeignDataOnlyBySlip, TokensKept, NEW d \in Devices, BrowserCloses(d)
    PROVE  Kept
<1>. DEFINE b == device[d]
            kept == [b EXCEPT !.waiting = {}]
            dropped == [Dropped(b) EXCEPT !.waiting = {}]
<1>1. b \in DeviceType /\ tab \in [Tabs -> TabType] /\ \A t \in Tabs : TabSound(tab[t])
    BY DEF SessionsTypeOK, CookiesIssued
<1>2. At("login") \in TabType /\ At("login").pc = "login" /\ At("login").tok = NoToken /\ At("login").new = NoToken
    BY TabTypes DEF Resting
<1>3. /\ \A t \in Tabs : DeviceOf[t] = d => tab[t].pc \notin Busy
      /\ \A t \in Tabs : tab'[t] = tab[t] \/ (DeviceOf[t] = d /\ tab'[t] = At("login"))
      /\ tab' = [t \in Tabs |-> tab'[t]]
    BY DEF BrowserCloses, Resting, Busy, Leaving
<1>4. tab' \in [Tabs -> TabType]
    BY <1>1, <1>2, <1>3
<1>5. \A t \in Tabs : TabSound(tab[t])'
    BY <1>1, <1>2, <1>3 DEF TabSound, TokensKept
<1>6. \A e \in Devices : Going(e) => Going(e)'
    BY <1>3 DEF Going
<1>7. device' = [device EXCEPT ![d] = kept] \/ device' = [device EXCEPT ![d] = dropped]
    BY DEF BrowserCloses
<1>8. /\ kept \in DeviceType /\ kept.refresh = b.refresh /\ kept.access = b.access
      /\ kept.caches = b.caches /\ kept.left = b.left
    BY <1>1, WaitingTypes
<1>9. /\ dropped \in DeviceType /\ dropped.refresh = NoToken /\ dropped.access = NoUser
      /\ dropped.left \/ dropped.caches = {}
    <2>. DEFINE a == Dropped(b)
    <2>1. /\ a \in DeviceType /\ a.refresh = NoToken /\ a.access = NoUser
          /\ a.left = (b.left \/ b.caches # {}) /\ a.caches = b.caches
        BY <1>1, DeviceTypes
    <2>. HIDE DEF a
    <2>2. [a EXCEPT !.waiting = {}] \in DeviceType
        BY <2>1, WaitingTypes
    <2>. QED BY <2>1, <2>2, WaitingTypes DEF a
<1>. HIDE DEF kept, dropped
<1>10. CASE device' = [device EXCEPT ![d] = kept]
    <2>1. /\ DevicesKept /\ device'[d] = kept /\ \A e \in Devices \ {d} : Clean(e) => Clean(e)'
          /\ SessionUser(device[d])' = SessionUser(device[d])
        BY <1>8, <1>10, CleanKept
    <2>2. (Clean(d) \/ Going(d)) => (Clean(d)' \/ Going(d)')
        BY <1>6, <1>8, <2>1 DEF Clean
    <2>. QED BY <1>4, <1>5, <1>6, <2>1, <2>2, OneDevice DEF TabsKept
<1>11. CASE device' = [device EXCEPT ![d] = dropped]
    <2>1. /\ DevicesKept /\ device'[d] = dropped /\ \A e \in Devices \ {d} : Clean(e) => Clean(e)'
        BY <1>9, <1>11, DeviceChanges
    <2>2. Clean(d)'
        BY <1>9, <2>1 DEF Clean
    <2>. QED BY <1>4, <1>5, <1>6, <2>1, <2>2, OneDevice DEF TabsKept
<1>. QED BY <1>7, <1>10, <1>11

-----------------------------------------------------------------------------
(* The invariant *)

\* Every step keeps what tabs and browsers carry, and whose data is kept.
LEMMA NextKept ==
    ASSUME SessionsTypeOK, TokensStem, CookiesIssued, ForeignDataOnlyBySlip, [SessionsNext]_sessionVars
    PROVE  Kept
<1>1. TokensKept
    BY TokensStep
<1>2. ASSUME UNCHANGED sessionVars
      PROVE  Kept
    <2>1. TabsKept /\ \A d \in Devices : Going(d) => Going(d)'
        BY <1>1, <1>2, SameTabs DEF sessionVars, TokensKept
    <2>. QED BY <1>1, <1>2, <2>1, TabOnly DEF sessionVars
<1>3. ASSUME NEW t \in Tabs,
             Deliver(t) \/ TimeOut(t) \/ RefusedArrives(t) \/ LogoutArrives(t) \/ ClearCaches(t)
      PROVE  Kept
    <2>1. UNCHANGED token
        BY <1>3 DEF Deliver, TimeOut, RefusedArrives, LogoutArrives, ClearCaches
    <2>. QED BY <1>1, <1>3, <2>1, AnswerSteps
<1>4. ASSUME NEW t \in Tabs, RefreshArrives(t) \/ \E u \in Users, k \in Tokens : Login(t, u, k)
      PROVE  Kept
    BY <1>1, <1>4, SessionSteps
<1>5. ASSUME NEW t \in Tabs,
             \/ Start(t) \/ UserLogout(t) \/ Navigate(t) \/ Denied(t) \/ RefreshRead(t) \/ RefreshFails(t)
             \/ LogoutServed(t) \/ AnswerLost(t) \/ LogoutLost(t) \/ \E j \in Tokens : RefreshWrite(t, j)
      PROVE  Kept
    BY <1>1, <1>5, TabSteps
<1>6. ASSUME NEW d \in Devices, LateArrives(d) \/ AccessExpires(d) \/ WorkerActivates(d)
      PROVE  Kept
    BY <1>1, <1>6, BrowserSteps
<1>7. ASSUME NEW d \in Devices, BrowserCloses(d)
      PROVE  Kept
    BY <1>1, <1>7, ClosingSteps
<1>8. ASSUME NEW k \in Tokens, TokenExpires(k)
      PROVE  Kept
    BY <1>1, <1>8, ExpirySteps
<1>. QED BY Zenon, <1>2, <1>3, <1>4, <1>5, <1>6, <1>7, <1>8, SessionsSteps

\* The number of outside events stays in its bound.
LEMMA NextMoves ==
    ASSUME SessionsTypeOK, [SessionsNext]_sessionVars
    PROVE  moves' \in 0..MaxMoves
<1>1. moves \in 0..MaxMoves /\ MaxMoves \in Nat
    BY SessionsAssumption DEF SessionsTypeOK
<1>2. Outside => moves' \in 0..MaxMoves
    BY <1>1 DEF Outside
<1>3. moves' = moves \/ Outside
    <2>1. ASSUME NEW t \in Tabs, NEW u \in Users, NEW k \in Tokens, Login(t, u, k)
          PROVE  moves' = moves
        BY <2>1 DEF Login
    <2>2. ASSUME NEW t \in Tabs, NEW j \in Tokens, RefreshWrite(t, j)
          PROVE  moves' = moves
        BY <2>2 DEF RefreshWrite
    <2>3. ASSUME NEW t \in Tabs, \/ Start(t) \/ UserLogout(t) \/ Navigate(t)
                                 \/ Deliver(t) \/ Denied(t) \/ RefreshRead(t) \/ RefreshFails(t)
                                 \/ RefreshArrives(t) \/ RefusedArrives(t)
                                 \/ LogoutServed(t) \/ LogoutArrives(t) \/ ClearCaches(t)
                                 \/ TimeOut(t) \/ AnswerLost(t) \/ LogoutLost(t)
          PROVE  moves' = moves \/ Outside
        BY Zenon, <2>3 DEF Start, UserLogout, Navigate, Deliver, Denied, RefreshRead, RefreshFails, RefreshArrives,
              RefusedArrives, LogoutServed, LogoutArrives, ClearCaches, TimeOut, AnswerLost, LogoutLost
    <2>4. ASSUME NEW d \in Devices, LateArrives(d) \/ BrowserCloses(d) \/ AccessExpires(d) \/ WorkerActivates(d)
          PROVE  moves' = moves \/ Outside
        BY Zenon, <2>4 DEF LateArrives, BrowserCloses, AccessExpires, WorkerActivates
    <2>5. ASSUME NEW k \in Tokens, TokenExpires(k)
          PROVE  Outside
        BY Zenon, <2>5 DEF TokenExpires
    <2>6. UNCHANGED sessionVars => moves' = moves
        BY DEF sessionVars
    <2>. QED BY Zenon, <2>1, <2>2, <2>3, <2>4, <2>5, <2>6, SessionsSteps
<1>. QED BY <1>1, <1>2, <1>3

\* The invariant is inductive.
LEMMA InitInv == SessionsInit => SessionsInv
<1>. SUFFICES ASSUME SessionsInit
              PROVE  SessionsInv
    OBVIOUS
<1>1. \A k \in Tokens : token[k] = Unissued
    BY DEF SessionsInit
<1>2. Issued = {}
    BY <1>1, TokenRows DEF Issued
<1>3. At("login") \in TabType /\ At("login").pc = "login" /\ At("login").tok = NoToken /\ At("login").new = NoToken
    BY TabTypes DEF Resting
<1>4. SessionsTypeOK
    <2>1. token \in [Tokens -> TokenType] /\ ended \subseteq Tokens /\ overlapped \subseteq Tokens
        BY TokenRows DEF SessionsInit
    <2>2. device \in [Devices -> DeviceType]
        BY DEF SessionsInit, DeviceType
    <2>3. tab \in [Tabs -> TabType] /\ moves \in 0..MaxMoves
        BY <1>3, SessionsAssumption DEF SessionsInit
    <2>. QED BY <2>1, <2>2, <2>3 DEF SessionsTypeOK
<1>5. TokensStem
    BY <1>1, <1>2 DEF TokensStem, SessionsInit
<1>6. CookiesIssued
    BY <1>3 DEF CookiesIssued, TabSound, DeviceSound, SessionsInit
<1>7. OneSessionPerLogin
    BY <1>1, TokenRows DEF OneSessionPerLogin, Live
<1>8. ForeignDataOnlyBySlip
    BY DEF ForeignDataOnlyBySlip, SessionsInit
<1>. QED BY <1>4, <1>5, <1>6, <1>7, <1>8 DEF SessionsInv

LEMMA NextInv == SessionsInv /\ [SessionsNext]_sessionVars => SessionsInv'
<1>. SUFFICES ASSUME SessionsInv, [SessionsNext]_sessionVars
              PROVE  SessionsInv'
    OBVIOUS
<1>1. SessionsTypeOK /\ TokensStem /\ CookiesIssued /\ OneSessionPerLogin /\ ForeignDataOnlyBySlip
    BY DEF SessionsInv
<1>2. TokensKept
    BY <1>1, TokensStep
<1>3. Kept
    BY <1>1, NextKept
<1>4. OneSessionPerLogin'
    BY <1>1, NextOneSession
<1>5. SessionsTypeOK'
    BY <1>1, <1>2, <1>3, NextMoves DEF SessionsTypeOK, TokensKept, Kept, TabsKept, DevicesKept
<1>6. CookiesIssued'
    BY <1>3 DEF CookiesIssued, Kept, TabsKept, DevicesKept
<1>. QED BY <1>2, <1>3, <1>4, <1>5, <1>6 DEF SessionsInv, TokensKept, Kept

LEMMA AlwaysInv == SessionsSpec => []SessionsInv
BY InitInv, NextInv, PTL DEF SessionsSpec

\* auth.service.ts: a login has one live token at most, and none once it was
\* revoked, unless a check or a logout was outdated; for any number of tabs,
\* browsers and users, however their requests overlap.
THEOREM SessionsStaySound == SessionsSpec => []SessionsSound
<1>1. SessionsInv => SessionsSound
    BY DEF SessionsInv, SessionsSound
<1>. QED BY <1>1, AlwaysInv, PTL

\* sw.js and pwa.ts: what a browser caches is its signed-in user's, but for the
\* ways out of a session that do not pass by its page.
THEOREM CachesOfTheSignedIn == SessionsSpec => []ForeignDataOnlyBySlip
<1>1. SessionsInv => ForeignDataOnlyBySlip
    BY DEF SessionsInv
<1>. QED BY <1>1, AlwaysInv, PTL

-----------------------------------------------------------------------------
(* Sessions implements SessionTokens *)

\* What SessionTokens sees of the state.
LiveNow == {k \in Tokens : Live(k)}
GoneNow == {k \in Tokens : token[k].status \in {"SPENT", "EXPIRED"}}
OwnerNow == [k \in Tokens |-> token[k].user]
Grant(s) == IF s.pc = "granted" THEN s.tok ELSE NoToken
GrantNow == [t \in Tabs |-> Grant(tab[t])]
Owned(k, u) == [OwnerNow EXCEPT ![k] = u]
SeenSame == UNCHANGED <<LiveNow, GoneNow, OwnerNow, GrantNow>>

\* A tab moves on.
LEMMA GrantMoves ==
    ASSUME SessionsTypeOK, NEW t \in Tabs, NEW s, SetTab(t, s)
    PROVE  GrantNow' = [GrantNow EXCEPT ![t] = Grant(s)] /\ (Grant(s) = Grant(tab[t]) => GrantNow' = GrantNow)
<1>1. tab \in [Tabs -> TabType]
    BY DEF SessionsTypeOK
<1>2. tab'[t] = s /\ \A v \in Tabs \ {t} : tab'[v] = tab[v]
    BY <1>1 DEF SetTab
<1>3. GrantNow' = [v \in Tabs |-> Grant(tab'[v])]
    BY DEF GrantNow, Grant
<1>4. GrantNow = [v \in Tabs |-> Grant(tab[v])]
    BY DEF GrantNow
<1>5. \A v \in Tabs \ {t} : Grant(tab'[v]) = Grant(tab[v])
    BY <1>2
<1>6. Grant(tab'[t]) = Grant(s)
    BY <1>2
<1>. HIDE DEF Grant
<1>. QED BY <1>3, <1>4, <1>5, <1>6

\* A tab without a check to its name moves on to another such state.
LEMMA GrantStays ==
    ASSUME SessionsTypeOK, NEW t \in Tabs, tab[t].pc # "granted", NEW u \in Users \cup {NoUser},
           NEW k \in Tokens \cup {NoToken},
           NEW pc \in Resting \cup {"asked", "clearing", "renewing", "renewed", "refused", "leaving", "served"},
           \/ SetTab(t, At(pc)) \/ SetTab(t, [At(pc) EXCEPT !.as = u])
           \/ SetTab(t, [At(pc) EXCEPT !.tok = k]) \/ SetTab(t, [At(pc) EXCEPT !.new = k])
    PROVE  GrantNow' = GrantNow
<1>1. At(pc).pc = pc /\ pc # "granted" /\ [At(pc) EXCEPT !.as = u].pc = pc
      /\ [At(pc) EXCEPT !.tok = k].pc = pc /\ [At(pc) EXCEPT !.new = k].pc = pc
    BY DEF At, Resting
<1>2. PICK s : SetTab(t, s) /\ s.pc = pc
    BY <1>1
<1>3. Grant(s) = NoToken /\ Grant(tab[t]) = NoToken
    BY <1>1, <1>2 DEF Grant
<1>. QED BY <1>2, <1>3, GrantMoves

\* The tokens of a set go out: live ones go, and the others were out already.
LEMMA TokensGo ==
    ASSUME SessionsTypeOK, NEW S \in SUBSET Issued, NEW status \in {"SPENT", "EXPIRED"},
           token' = [k \in Tokens |-> IF k \in S THEN Restated(token[k], status) ELSE token[k]]
    PROVE  /\ LiveNow' = LiveNow \ (S \cap LiveNow) /\ GoneNow' = GoneNow \cup (S \cap LiveNow)
           /\ OwnerNow' = OwnerNow
<1>1. /\ token \in [Tokens -> TokenType] /\ S \subseteq Tokens
      /\ \A k \in S : token[k].status \in {"LIVE", "SPENT", "EXPIRED"}
    BY DEF SessionsTypeOK, TokenType, Issued
<1>2. \A k \in S : token'[k].status = status /\ token'[k].user = token[k].user
    <2>1. \A k \in S : token'[k] = Restated(token[k], status) /\ token[k] \in TokenType
        BY <1>1
    <2>. QED BY <2>1, TokenRows
<1>3. \A k \in Tokens \ S : token'[k] = token[k]
    BY <1>1
<1>4. \A k \in Tokens : k # NoToken
    BY SessionsAssumption
<1>5. LiveNow = {k \in Tokens : token[k].status = "LIVE"} /\ LiveNow' = {k \in Tokens : token'[k].status = "LIVE"}
    BY <1>4 DEF LiveNow, Live
<1>6. GoneNow' = {k \in Tokens : token'[k].status \in {"SPENT", "EXPIRED"}}
    BY DEF GoneNow
<1>7. \A k \in Tokens : token'[k].user = token[k].user
    BY <1>2, <1>3
<1>. QED BY <1>1, <1>2, <1>3, <1>5, <1>6, <1>7 DEF GoneNow, OwnerNow

\* A step that leaves the rows alone leaves the tokens as they are seen.
LEMMA SameTokens ==
    ASSUME token' = token
    PROVE  LiveNow' = LiveNow /\ GoneNow' = GoneNow /\ OwnerNow' = OwnerNow
BY DEF LiveNow, GoneNow, OwnerNow, Live

\* A row that is given out is seen as live, and had not been seen before.
LEMMA TokenComes ==
    ASSUME SessionsTypeOK, NEW k \in Tokens \ Issued, NEW S \in SUBSET (Issued \cap LiveNow), NEW u,
           token'[k].status = "LIVE", token'[k].user = u,
           \A i \in S : token'[i].status = "SPENT" /\ token'[i].user = token[i].user,
           \A i \in Tokens \ (S \cup {k}) : token'[i].status = token[i].status /\ token'[i].user = token[i].user
    PROVE  /\ k \in Tokens \ (LiveNow \cup GoneNow)
           /\ LiveNow' = (LiveNow \ S) \cup {k} /\ GoneNow' = GoneNow \cup S
           /\ OwnerNow' = Owned(k, u)
<1>1. \A i \in Tokens : i # NoToken
    BY SessionsAssumption
<1>2. LiveNow = {i \in Tokens : token[i].status = "LIVE"} /\ LiveNow' = {i \in Tokens : token'[i].status = "LIVE"}
    BY <1>1 DEF LiveNow, Live
<1>3. GoneNow' = {i \in Tokens : token'[i].status \in {"SPENT", "EXPIRED"}}
    BY DEF GoneNow
<1>4. k \notin S /\ S \subseteq Tokens /\ \A i \in S : token[i].status = "LIVE"
    BY <1>2 DEF Issued
<1>5. token[k].status = "NONE"
    BY DEF Issued
<1>6. OwnerNow' = [i \in Tokens |-> token'[i].user]
    BY DEF OwnerNow
<1>7. OwnerNow' = Owned(k, u)
    BY <1>4, <1>6 DEF OwnerNow, Owned
<1>8. \A i \in Tokens : i # k /\ i \notin S => token'[i].status = token[i].status
    OBVIOUS
<1>9. LiveNow' = (LiveNow \ S) \cup {k}
    BY <1>2, <1>4, <1>8
<1>10. GoneNow' = GoneNow \cup S
    BY <1>3, <1>4, <1>5, <1>8 DEF GoneNow
<1>. QED BY <1>2, <1>5, <1>7, <1>9, <1>10 DEF GoneNow

\* A renewal of a token that is out by then takes nothing else out.
LEMMA RenewalSeen ==
    ASSUME SessionsTypeOK, TokensStem, CookiesIssued, NEW t \in Tabs, NEW j \in Tokens, RefreshWrite(t, j)
    PROVE  Promise!Renew(t, j)
<1>. DEFINE k == tab[t].tok
            S == {k} \cap LiveNow
<1>1. TabSound(tab[t]) /\ tab[t].pc = "granted"
    BY DEF CookiesIssued, RefreshWrite
<1>2. /\ k \in Issued /\ j \notin Issued /\ k # j
      /\ token'[k].status = (IF Live(k) THEN "SPENT" ELSE token[k].status)
      /\ token'[j].status = "LIVE" /\ token'[j].user = token[k].user
      /\ \A i \in Tokens \ {k, j} : token'[i] = token[i]
      /\ TokensKept
    BY <1>1, RefreshWriteTokens
<1>3. GrantNow[t] = k /\ k # NoToken
    BY <1>1 DEF GrantNow, Grant, TabSound
<1>. HIDE DEF k
<1>4. token'[k].user = token[k].user /\ k \in Tokens
    BY <1>2 DEF TokensKept, Issued
<1>5. S \in SUBSET (Issued \cap LiveNow) /\ (k \in S <=> Live(k))
    BY <1>2, <1>4 DEF LiveNow
<1>6. \A i \in S : i = k
    OBVIOUS
<1>. HIDE DEF S
<1>7. \A i \in S : token'[i].status = "SPENT" /\ token'[i].user = token[i].user
    BY <1>2, <1>4, <1>5, <1>6
<1>8. \A i \in Tokens \ (S \cup {j}) : token'[i].status = token[i].status /\ token'[i].user = token[i].user
    BY <1>2, <1>4, <1>5, <1>6
<1>9. /\ j \in Tokens \ (LiveNow \cup GoneNow)
      /\ LiveNow' = (LiveNow \ S) \cup {j} /\ GoneNow' = GoneNow \cup S
      /\ OwnerNow' = Owned(j, token[k].user)
    <2>1. j \in Tokens \ Issued /\ token'[j].status = "LIVE" /\ token'[j].user = token[k].user
        BY <1>2
    <2>. QED BY <1>5, <1>7, <1>8, <2>1, TokenComes
<1>10. k \in LiveNow \cup GoneNow
    <2>1. token[k].status \in {"LIVE", "SPENT", "EXPIRED"}
        BY <1>2, <1>4 DEF Issued, SessionsTypeOK, TokenType
    <2>. QED BY <1>3, <1>4, <2>1 DEF LiveNow, GoneNow, Live
<1>11. LiveNow' = (LiveNow \ {k}) \cup {j} /\ GoneNow' = GoneNow \cup {k}
    BY <1>9, <1>10 DEF S
<1>12. OwnerNow[k] = token[k].user
    BY <1>4 DEF OwnerNow
<1>13. GrantNow' = [GrantNow EXCEPT ![t] = NoToken]
    <2>. DEFINE s == [At("renewed") EXCEPT !.new = j]
    <2>1. s.pc = "renewed" /\ SetTab(t, s)
        BY DEF At, RefreshWrite
    <2>. HIDE DEF s
    <2>2. Grant(s) = NoToken
        BY <2>1 DEF Grant
    <2>. QED BY <2>1, <2>2, GrantMoves
<1>. QED BY <1>3, <1>9, <1>11, <1>12, <1>13
      DEF Promise!Renew, Promise!Unissued, LiveNow, GoneNow, OwnerNow, GrantNow, Grant, Owned

\* A login opens a token.
LEMMA LoginSeen ==
    ASSUME SessionsTypeOK, TokensStem, NEW t \in Tabs, NEW u \in Users, NEW k \in Tokens, Login(t, u, k)
    PROVE  Promise!Open(k, u)
<1>1. k \in Tokens \ Issued /\ token'[k].status = "LIVE" /\ token'[k].user = u
    BY LoginTokens
<1>2. \A i \in Tokens \ ({} \cup {k}) : token'[i].status = token[i].status /\ token'[i].user = token[i].user
    BY DEF Login, SessionsTypeOK
<1>3. PICK S : S = {}
    OBVIOUS
<1>4. /\ k \in Tokens \ (LiveNow \cup GoneNow)
      /\ LiveNow' = (LiveNow \ S) \cup {k} /\ GoneNow' = GoneNow \cup S /\ OwnerNow' = Owned(k, u)
    <2>1. /\ S \in SUBSET (Issued \cap LiveNow)
          /\ \A i \in S : token'[i].status = "SPENT" /\ token'[i].user = token[i].user
        BY <1>3
    <2>2. \A i \in Tokens \ (S \cup {k}) : token'[i].status = token[i].status /\ token'[i].user = token[i].user
        BY <1>2, <1>3
    <2>. QED BY <1>1, <2>1, <2>2, TokenComes
<1>5. GrantNow' = GrantNow
    <2>1. SetTab(t, At("idle")) /\ tab[t].pc # "granted"
        BY DEF Login
    <2>. QED BY <2>1, GrantStays DEF Resting
<1>6. LiveNow' = LiveNow \cup {k} /\ GoneNow' = GoneNow
    BY <1>3, <1>4
<1>. QED BY <1>4, <1>5, <1>6 DEF Promise!Open, Promise!Unissued, LiveNow, GoneNow, OwnerNow, GrantNow, Grant, Owned

\* The steps of SessionTokens.
LEMMA SeenNext ==
    /\ \A k \in Tokens, u \in Users : Promise!Open(k, u) => Promise!TokensNext
    /\ \A t \in Tabs, k \in Tokens : Promise!Allow(t, k) \/ Promise!Renew(t, k) => Promise!TokensNext
    /\ \A t \in Tabs : Promise!Abandon(t) => Promise!TokensNext
    /\ \A k \in LiveNow : Promise!Close({k}) => Promise!TokensNext
BY Zenon DEF Promise!TokensNext, LiveNow, OwnerNow

LEMMA AllGo ==
    ASSUME NEW u \in Users, NEW S, S = {k \in LiveNow : OwnerNow[k] = u},
           LiveNow' = LiveNow \ S, GoneNow' = GoneNow \cup S, OwnerNow' = OwnerNow, GrantNow' = GrantNow
    PROVE  Promise!TokensNext
<1>. DEFINE T == {k \in LiveNow : OwnerNow[k] = u}
<1>1. T \subseteq LiveNow /\ LiveNow' = LiveNow \ T /\ GoneNow' = GoneNow \cup T
    OBVIOUS
<1>2. UNCHANGED <<OwnerNow, GrantNow>>
    OBVIOUS
<1>3. \E v \in Users :
        /\ {k \in LiveNow : OwnerNow[k] = v} \subseteq LiveNow
        /\ LiveNow' = LiveNow \ {k \in LiveNow : OwnerNow[k] = v}
        /\ GoneNow' = GoneNow \cup {k \in LiveNow : OwnerNow[k] = v}
        /\ UNCHANGED <<OwnerNow, GrantNow>>
    BY <1>1, <1>2
<1>. QED BY Zenon, <1>3 DEF Promise!TokensNext, Promise!Close, LiveNow, GoneNow, OwnerNow, GrantNow, Grant

\* A check allows a live token, takes all tokens of its user out, or refuses.
LEMMA CheckSeen ==
    ASSUME SessionsTypeOK, TokensStem, CookiesIssued, NEW t \in Tabs, RefreshRead(t)
    PROVE  SeenSame \/ Promise!TokensNext
<1>. DEFINE k == tab[t].tok
            u == token[k].user
<1>1. TabSound(tab[t]) /\ tab[t] \in TabType /\ tab[t].pc = "renewing"
    BY DEF CookiesIssued, SessionsTypeOK, RefreshRead
<1>2. ASSUME Reuse(t)
      PROVE  Promise!TokensNext
    <2>1. PICK v \in Users : v = u /\ token' = Spend({i \in OfUser(v) : Live(i)})
        BY <1>2 DEF Reuse
    <2>2. PICK S : S = {i \in OfUser(v) : Live(i)}
        OBVIOUS
    <2>3. S = {i \in LiveNow : OwnerNow[i] = v} /\ S \in SUBSET Issued /\ S \cap LiveNow = S
        BY <2>2, UserTokens DEF OfUser, LiveNow, OwnerNow
    <2>4. token' = [i \in Tokens |-> IF i \in S THEN Restated(token[i], "SPENT") ELSE token[i]]
        BY <2>1, <2>2 DEF Spend, Restated
    <2>5. LiveNow' = LiveNow \ S /\ GoneNow' = GoneNow \cup S /\ OwnerNow' = OwnerNow
        BY <2>3, <2>4, TokensGo
    <2>6. GrantNow' = GrantNow
        <3>1. SetTab(t, At("refused"))
            BY <1>2 DEF RefreshRead, Reuse
        <3>. QED BY <1>1, <3>1, GrantStays
    <2>. QED BY <2>3, <2>5, <2>6, AllGo
<1>3. ASSUME token' = token, SetTab(t, At("refused"))
      PROVE  SeenSame
    <2>1. GrantNow' = GrantNow
        BY <1>1, <1>3, GrantStays
    <2>. QED BY <1>3, <2>1, SameTokens DEF SeenSame
<1>4. ASSUME token' = token, SetTab(t, [tab[t] EXCEPT !.pc = "granted"]), k # NoToken,
             ~Consumed(k), token[k].status # "EXPIRED"
      PROVE  Promise!TokensNext
    <2>. DEFINE s == [tab[t] EXCEPT !.pc = "granted"]
    <2>1. k \in Issued /\ k \in Tokens
        BY <1>1, <1>4 DEF TabSound, Issued
    <2>2. k \in LiveNow
        BY <1>4, <2>1 DEF SessionsTypeOK, TokenType, Issued, Consumed, LiveNow, Live
    <2>3. s.pc = "granted" /\ s.tok = k
        BY <1>1 DEF TabType
    <2>. HIDE DEF s
    <2>4. Grant(s) = k
        BY <2>3 DEF Grant
    <2>5. GrantNow' = [GrantNow EXCEPT ![t] = k]
        BY <1>4, <2>4, GrantMoves DEF s
    <2>6. LiveNow' = LiveNow /\ GoneNow' = GoneNow /\ OwnerNow' = OwnerNow
        BY <1>4, SameTokens
    <2>7. PICK i \in Tokens : i = k
        BY <2>1
    <2>8. i \in LiveNow /\ GrantNow' = [GrantNow EXCEPT ![t] = i]
        BY <2>2, <2>5, <2>7
    <2>9. Promise!Allow(t, i)
        BY <2>6, <2>8 DEF Promise!Allow, LiveNow, GoneNow, OwnerNow, GrantNow, Grant
    <2>. QED BY <2>9, SeenNext
<1>5. Reuse(t) \/ token' = token
    BY <1>1, RefreshReadTokens
<1>6. CASE token' = token /\ SetTab(t, At("refused"))
    BY <1>3, <1>6
<1>7. CASE Reuse(t)
    BY <1>2, <1>7
<1>8. CASE token' = token /\ ~SetTab(t, At("refused"))
    <2>1. SetTab(t, [tab[t] EXCEPT !.pc = "granted"]) /\ k # NoToken /\ ~Consumed(k) /\ token[k].status # "EXPIRED"
        BY <1>8 DEF RefreshRead
    <2>. QED BY <1>4, <1>8, <2>1
<1>. QED BY <1>5, <1>6, <1>7, <1>8

\* One token goes, if it is not out already.
LEMMA OneGoes ==
    ASSUME SessionsTypeOK, NEW k \in Issued, NEW status \in {"SPENT", "EXPIRED"}, GrantNow' = GrantNow,
           token' = [i \in Tokens |-> IF i \in {k} THEN Restated(token[i], status) ELSE token[i]]
    PROVE  SeenSame \/ Promise!TokensNext
<1>1. /\ LiveNow' = LiveNow \ ({k} \cap LiveNow) /\ GoneNow' = GoneNow \cup ({k} \cap LiveNow)
      /\ OwnerNow' = OwnerNow
    <2>1. {k} \in SUBSET Issued
        OBVIOUS
    <2>. QED BY <2>1, TokensGo
<1>2. CASE k \in LiveNow
    <2>1. {k} \cap LiveNow = {k}
        BY <1>2
    <2>2. Promise!Close({k})
        BY <1>1, <1>2, <2>1 DEF Promise!Close, LiveNow, GoneNow, OwnerNow, GrantNow, Grant
    <2>. QED BY <1>2, <2>2, SeenNext
<1>3. CASE k \notin LiveNow
    BY <1>1, <1>3 DEF SeenSame
<1>. QED BY <1>2, <1>3

\* A logout, and a check that is given up.
LEMMA LogoutSeen ==
    ASSUME SessionsTypeOK, TokensStem, CookiesIssued, NEW t \in Tabs, LogoutServed(t)
    PROVE  SeenSame \/ Promise!TokensNext
<1>1. TabSound(tab[t])
    BY DEF CookiesIssued
<1>2. GrantNow' = GrantNow
    <2>1. SetTab(t, At("served")) /\ tab[t].pc # "granted"
        BY DEF LogoutServed
    <2>. QED BY <2>1, GrantStays
<1>3. CASE token' = token
    BY <1>2, <1>3, SameTokens DEF SeenSame
<1>4. CASE token' # token
    <2>1. PICK k \in Issued : token' = Spend({k})
        BY <1>1, <1>4, LogoutTokens
    <2>2. token' = [i \in Tokens |-> IF i \in {k} THEN Restated(token[i], "SPENT") ELSE token[i]]
        BY Zenon, <2>1 DEF Spend, Restated
    <2>. QED BY <1>2, <2>2, OneGoes
<1>. QED BY <1>3, <1>4

LEMMA FailureSeen ==
    ASSUME SessionsTypeOK, CookiesIssued, NEW t \in Tabs, RefreshFails(t)
    PROVE  Promise!Abandon(t)
<1>1. TabSound(tab[t]) /\ tab[t].pc = "granted" /\ SetTab(t, At("refused")) /\ token' = token
    BY DEF CookiesIssued, RefreshFails
<1>2. Grant(At("refused")) = NoToken
    BY DEF Grant, At
<1>3. GrantNow' = [GrantNow EXCEPT ![t] = NoToken]
    BY <1>1, <1>2, GrantMoves
<1>4. GrantNow[t] # NoToken
    BY <1>1 DEF GrantNow, Grant, TabSound
<1>5. LiveNow' = LiveNow /\ GoneNow' = GoneNow /\ OwnerNow' = OwnerNow
    BY <1>1, SameTokens
<1>. QED BY <1>3, <1>4, <1>5 DEF Promise!Abandon, LiveNow, GoneNow, OwnerNow, GrantNow, Grant

\* The other steps of a tab, and those of a browser, are not seen.
LEMMA NotSeen ==
    ASSUME SessionsTypeOK, CookiesIssued,
           \/ \E t \in Tabs : \/ Start(t) \/ UserLogout(t) \/ Navigate(t) \/ Deliver(t) \/ Denied(t)
                              \/ RefreshArrives(t) \/ RefusedArrives(t) \/ LogoutArrives(t) \/ ClearCaches(t)
                              \/ TimeOut(t) \/ AnswerLost(t) \/ LogoutLost(t)
           \/ \E d \in Devices : LateArrives(d) \/ BrowserCloses(d) \/ AccessExpires(d) \/ WorkerActivates(d)
           \/ UNCHANGED sessionVars
    PROVE  SeenSame
<1>1. ASSUME NEW t \in Tabs, \/ Start(t) \/ UserLogout(t) \/ Navigate(t) \/ Deliver(t) \/ Denied(t)
                             \/ RefreshArrives(t) \/ RefusedArrives(t) \/ LogoutArrives(t) \/ ClearCaches(t)
                             \/ TimeOut(t) \/ AnswerLost(t) \/ LogoutLost(t)
      PROVE  SeenSame
    <2>. DEFINE Plain == Resting \cup {"asked", "clearing", "renewing", "renewed", "refused", "leaving", "served"}
    <2>1. Dev(t).access \in Users \cup {NoUser} /\ Dev(t).refresh \in Tokens \cup {NoToken}
        BY SessionsAssumption DEF Dev, SessionsTypeOK, DeviceType
    <2>2. /\ token' = token /\ tab[t].pc # "granted"
          /\ \E pc \in Plain : \/ SetTab(t, At(pc)) \/ SetTab(t, [At(pc) EXCEPT !.as = Dev(t).access])
                               \/ SetTab(t, [At(pc) EXCEPT !.tok = Dev(t).refresh])
                               \/ \E u : SetTab(t, [At(pc) EXCEPT !.as = u])
        <3>1. CASE Start(t)
            BY <3>1 DEF Start
        <3>2. CASE UserLogout(t)
            BY <3>2 DEF UserLogout
        <3>3. CASE Navigate(t) \/ Deliver(t) \/ TimeOut(t) \/ AnswerLost(t)
            BY <3>3 DEF Navigate, Deliver, TimeOut, AnswerLost, Resting
        <3>4. CASE Denied(t)
            BY <3>4 DEF Denied
        <3>5. CASE RefreshArrives(t)
            BY <3>5 DEF RefreshArrives
        <3>6. CASE RefusedArrives(t) \/ LogoutArrives(t) \/ ClearCaches(t) \/ LogoutLost(t)
            BY <3>6 DEF RefusedArrives, LogoutArrives, ClearCaches, LogoutLost, Resting, Leaving
        <3>. QED BY <1>1, <3>1, <3>2, <3>3, <3>4, <3>5, <3>6
    <2>3. PICK s : SetTab(t, s) /\ s.pc \in Plain
        <3>1. \A pc, u : At(pc).pc = pc /\ [At(pc) EXCEPT !.as = u].pc = pc /\ [At(pc) EXCEPT !.tok = u].pc = pc
            BY DEF At
        <3>. HIDE DEF Plain
        <3>2. PICK pc \in Plain : \/ SetTab(t, At(pc)) \/ SetTab(t, [At(pc) EXCEPT !.as = Dev(t).access])
                                  \/ SetTab(t, [At(pc) EXCEPT !.tok = Dev(t).refresh])
                                  \/ \E u : SetTab(t, [At(pc) EXCEPT !.as = u])
            BY <2>2
        <3>3. CASE SetTab(t, At(pc))
            BY <3>1, <3>3
        <3>4. CASE SetTab(t, [At(pc) EXCEPT !.as = Dev(t).access])
            <4>. DEFINE r == [At(pc) EXCEPT !.as = Dev(t).access]
            <4>1. r.pc = pc /\ SetTab(t, r)
                BY <3>1, <3>4
            <4>. HIDE DEF r
            <4>. QED BY <4>1
        <3>5. CASE SetTab(t, [At(pc) EXCEPT !.tok = Dev(t).refresh])
            <4>. DEFINE r == [At(pc) EXCEPT !.tok = Dev(t).refresh]
            <4>1. r.pc = pc /\ SetTab(t, r)
                BY <3>1, <3>5
            <4>. HIDE DEF r
            <4>. QED BY <4>1
        <3>6. CASE \E u : SetTab(t, [At(pc) EXCEPT !.as = u])
            <4>1. PICK u : SetTab(t, [At(pc) EXCEPT !.as = u])
                BY <3>6
            <4>. DEFINE r == [At(pc) EXCEPT !.as = u]
            <4>2. r.pc = pc /\ SetTab(t, r)
                BY <3>1, <4>1
            <4>. HIDE DEF r
            <4>. QED BY <4>2
        <3>. QED BY <3>2, <3>3, <3>4, <3>5, <3>6
    <2>4. Grant(s) = NoToken /\ Grant(tab[t]) = NoToken
        BY <2>2, <2>3 DEF Grant, Resting
    <2>5. GrantNow' = GrantNow
        BY <2>3, <2>4, GrantMoves
    <2>. QED BY <2>2, <2>5, SameTokens DEF SeenSame
<1>2. ASSUME UNCHANGED <<token, tab>>
      PROVE  SeenSame
    <2>1. GrantNow' = GrantNow
        BY <1>2 DEF GrantNow, Grant
    <2>. QED BY <1>2, <2>1, SameTokens DEF SeenSame
<1>3. ASSUME NEW d \in Devices, BrowserCloses(d)
      PROVE  SeenSame
    <2>1. \A t \in Tabs : tab'[t] = tab[t] \/ (tab[t].pc \in Resting /\ tab'[t] = At("login"))
        BY <1>3 DEF BrowserCloses
    <2>2. \A t \in Tabs : Grant(tab'[t]) = Grant(tab[t])
        BY <2>1 DEF Grant, At, Resting
    <2>3. GrantNow' = [t \in Tabs |-> Grant(tab'[t])]
        BY DEF GrantNow, Grant
    <2>4. GrantNow' = GrantNow
        BY <2>2, <2>3 DEF GrantNow
    <2>5. token' = token
        BY <1>3 DEF BrowserCloses
    <2>. QED BY <2>4, <2>5, SameTokens DEF SeenSame
<1>4. ASSUME NEW d \in Devices, LateArrives(d) \/ AccessExpires(d) \/ WorkerActivates(d)
      PROVE  UNCHANGED <<token, tab>>
    BY <1>4 DEF LateArrives, AccessExpires, WorkerActivates
<1>5. UNCHANGED sessionVars => UNCHANGED <<token, tab>>
    BY DEF sessionVars
<1>. QED BY Zenon, <1>1, <1>2, <1>3, <1>4, <1>5

\* Every step is one of SessionTokens, or is not seen there.
LEMMA NextSeen ==
    ASSUME SessionsInv, [SessionsNext]_sessionVars
    PROVE  [Promise!TokensNext]_(Promise!tokenVars)
<1>1. SessionsTypeOK /\ TokensStem /\ CookiesIssued
    BY DEF SessionsInv
<1>2. ASSUME NEW t \in Tabs, NEW u \in Users, NEW k \in Tokens, Login(t, u, k)
      PROVE  Promise!TokensNext
    BY <1>1, <1>2, LoginSeen, SeenNext
<1>3. ASSUME NEW t \in Tabs, NEW j \in Tokens, RefreshWrite(t, j)
      PROVE  Promise!TokensNext
    BY <1>1, <1>3, RenewalSeen, SeenNext
<1>4. ASSUME NEW t \in Tabs, RefreshRead(t)
      PROVE  SeenSame \/ Promise!TokensNext
    BY <1>1, <1>4, CheckSeen
<1>5. ASSUME NEW t \in Tabs, RefreshFails(t)
      PROVE  Promise!TokensNext
    BY <1>1, <1>5, FailureSeen, SeenNext
<1>6. ASSUME NEW t \in Tabs, LogoutServed(t)
      PROVE  SeenSame \/ Promise!TokensNext
    BY <1>1, <1>6, LogoutSeen
<1>7. ASSUME NEW k \in Tokens, TokenExpires(k)
      PROVE  SeenSame \/ Promise!TokensNext
    <2>1. /\ k \in Issued
          /\ token' = [j \in Tokens |-> IF j \in {k} THEN Restated(token[j], "EXPIRED") ELSE token[j]]
        BY <1>1, <1>7, ExpiryTokens
    <2>2. GrantNow' = GrantNow
        BY <1>7 DEF TokenExpires, GrantNow, Grant
    <2>. QED BY <1>1, <2>1, <2>2, OneGoes
<1>8. ASSUME \/ \E t \in Tabs : \/ Start(t) \/ UserLogout(t) \/ Navigate(t) \/ Deliver(t) \/ Denied(t)
                                \/ RefreshArrives(t) \/ RefusedArrives(t) \/ LogoutArrives(t) \/ ClearCaches(t)
                                \/ TimeOut(t) \/ AnswerLost(t) \/ LogoutLost(t)
             \/ \E d \in Devices : LateArrives(d) \/ BrowserCloses(d) \/ AccessExpires(d) \/ WorkerActivates(d)
             \/ UNCHANGED sessionVars
      PROVE  SeenSame
    BY <1>1, <1>8, NotSeen
<1>9. SeenSame \/ Promise!TokensNext
    BY Zenon, <1>2, <1>3, <1>4, <1>5, <1>6, <1>7, <1>8, SessionsSteps
<1>10. SeenSame => UNCHANGED Promise!tokenVars
    BY Zenon DEF SeenSame, Promise!tokenVars, LiveNow, GoneNow, OwnerNow, GrantNow, Grant
<1>. QED BY Zenon, <1>9, <1>10

\* auth.service.ts keeps what rotation with reuse detection promises: whatever
\* overlaps, a token that was renewed, revoked or has expired is never allowed to
\* renew again.
THEOREM RotationKeepsPromise == SessionsSpec => TokensKeepTheirPromise
<1>1. SessionsInit => Promise!TokensInit
    <2>. SUFFICES ASSUME SessionsInit
                  PROVE  Promise!TokensInit
        OBVIOUS
    <2>1. \A k \in Tokens : token[k].status = "NONE" /\ token[k].user = NoUser
        BY DEF SessionsInit, Unissued
    <2>2. \A t \in Tabs : tab[t].pc = "login"
        BY DEF SessionsInit, At
    <2>. QED BY <2>1, <2>2 DEF Promise!TokensInit, Live
<1>2. SessionsInv /\ [SessionsNext]_sessionVars => [Promise!TokensNext]_(Promise!tokenVars)
    BY NextSeen
<1>. QED BY <1>1, <1>2, AlwaysInv, PTL DEF SessionsSpec, TokensKeepTheirPromise, Promise!TokensSpec
=============================================================================
