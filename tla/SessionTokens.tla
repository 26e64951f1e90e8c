---------------------------- MODULE SessionTokens ----------------------------
(***************************************************************************)
(* What rotation with reuse detection promises of refresh tokens: a token   *)
(* is given out once, it authorises a renewal only while it is live, a      *)
(* renewal takes the old token out, and what is out stays out. Sessions     *)
(* implements this.                                                         *)
(***************************************************************************)
CONSTANTS Tokens, Users, Requests, NoToken, NoUser

VARIABLES
    live,   \* tokens that can be renewed
    gone,   \* tokens that were renewed, revoked or have expired
    owner,  \* the user of each token given out
    grant   \* the token each request was allowed to renew

tokenVars == <<live, gone, owner, grant>>

TokensInit ==
    /\ live = {} /\ gone = {}
    /\ owner = [k \in Tokens |-> NoUser]
    /\ grant = [r \in Requests |-> NoToken]

Unissued == Tokens \ (live \cup gone)

Open(k, u) ==
    /\ k \in Unissued
    /\ live' = live \cup {k} /\ owner' = [owner EXCEPT ![k] = u]
    /\ UNCHANGED <<gone, grant>>

Allow(r, k) ==
    /\ k \in live /\ grant' = [grant EXCEPT ![r] = k]
    /\ UNCHANGED <<live, gone, owner>>

\* The token may have gone since it was allowed: the renewal goes through.
Renew(r, k) ==
    /\ grant[r] # NoToken /\ k \in Unissued
    /\ live' = (live \ {grant[r]}) \cup {k} /\ gone' = gone \cup {grant[r]}
    /\ owner' = [owner EXCEPT ![k] = owner[grant[r]]]
    /\ grant' = [grant EXCEPT ![r] = NoToken]

Abandon(r) ==
    /\ grant[r] # NoToken /\ grant' = [grant EXCEPT ![r] = NoToken]
    /\ UNCHANGED <<live, gone, owner>>

Close(S) ==
    /\ S \subseteq live
    /\ live' = live \ S /\ gone' = gone \cup S
    /\ UNCHANGED <<owner, grant>>

\* One token ends (logout, expiry) or all of a user's (reuse detected).
TokensNext ==
    \/ \E k \in Tokens, u \in Users : Open(k, u)
    \/ \E r \in Requests, k \in Tokens : Allow(r, k) \/ Renew(r, k)
    \/ \E r \in Requests : Abandon(r)
    \/ \E k \in live : Close({k})
    \/ \E u \in Users : Close({k \in live : owner[k] = u})

TokensSpec == TokensInit /\ [][TokensNext]_tokenVars
=============================================================================
