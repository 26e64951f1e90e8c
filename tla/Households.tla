----------------------------- MODULE Households -----------------------------
(***************************************************************************)
(* One household: its members and invites (households.service.ts), its      *)
(* accounts and who may see them (accounts.service.ts, account-access.ts,   *)
(* household.guard.ts) and the rows that refer to an account.               *)
(*                                                                          *)
(* No handler here locks anything: each reads and decides, and writes       *)
(* later. The reads before the first write are one step. Users stand for    *)
(* their e-mails, which are unique.                                         *)
(***************************************************************************)
EXTENDS People

CONSTANTS
    Creator,        \* who made the household
    Invites,        \* 1..n, in the order they are created
    MaxJoins,       \* bound on memberships; a membership has an id of its own
    Accounts, Rows, Requests,
    MaxAsked,       \* bound on the requests of a behaviour
    NoAccount

ASSUME HouseholdsAssumption ==
    /\ Creator \in Users /\ NoUser \notin Users /\ NoAccount \notin Accounts
    /\ IsFiniteSet(Invites) /\ Invites = 1..Cardinality(Invites) /\ MaxJoins \in Nat \ {0} /\ MaxAsked \in Nat

VARIABLES
    member,     \* household_members: user -> [id, role], id 0 for none
    joins,      \* the last membership id given
    invite,     \* household_invites
    account,    \* accounts, with the membership ids of account_access
    row,        \* what refers to an account
    req,        \* requests between their reads and their write
    asked,      \* how many requests there were (the bound only)
    removedAt,  \* history: the last invite there was when the user was removed
    crossed  \* history: users who were invited twice at once, or joined by an outdated check

householdVars == <<member, joins, invite, account, row, req, asked, removedAt, crossed>>
people == <<member, joins, invite, removedAt, crossed>>
things == <<account, row>>

-----------------------------------------------------------------------------
Roles == {"OWNER", "MEMBER"}
Outsider == [id |-> 0, role |-> "NONE"]
MemberIds == 1..MaxJoins

\* What refers to an account. Some rows keep it from being deleted: a goal stands
\* for those that are counted before (goals, bills of a card, recurrences that pay
\* one), a plan for those that are not (plans, recurrences). Of the rest an entry
\* and the receiving side of a transfer are counted; a bill (by the account that is
\* to pay it, as an import by the account of the statement) is not. These are set
\* to null. A mapping of a bank account goes with the account.
CountedKinds == {"goal", "entry", "transfer"}
RestrictingKinds == {"goal", "plan"}
Kinds == CountedKinds \cup RestrictingKinds \cup {"bill", "mapping"}

NoInvite == [status |-> "NONE", user |-> NoUser, role |-> "NONE", over |-> FALSE]
NewSlot == [pc |-> "new", by |-> NoUser, mid |-> 0, user |-> NoUser, role |-> "NONE",
            inv |-> 0, account |-> NoAccount, kind |-> "NONE", to |-> {}]

IsMember(u) == member[u].id # 0
Owners == {u \in Users : IsMember(u) /\ member[u].role = "OWNER"}
LiveIds == {member[u].id : u \in {v \in Users : IsMember(v)}}
PendingOf(u) == {i \in Invites : invite[i].status = "PENDING" /\ invite[i].user = u}
Created == {i \in Invites : invite[i].status # "NONE"}

\* accessibleAccountWhere
Sees(id, a) == account[a].status = "LIVE" /\ (~account[a].restricted \/ id \in account[a].access)

Ask(r, pc, slot) ==
    /\ req[r].pc = "new" /\ req' = [req EXCEPT ![r] = [slot EXCEPT !.pc = pc]]
    /\ asked < MaxAsked /\ asked' = asked + 1
Awaits(r, pc) == req[r].pc = pc
Finish(r) == req' = [req EXCEPT ![r] = NewSlot] /\ UNCHANGED asked
By(o) == [NewSlot EXCEPT !.by = o, !.mid = member[o].id]

\* createForUser
HouseholdsInit ==
    /\ member = [u \in Users |-> IF u = Creator THEN [id |-> 1, role |-> "OWNER"] ELSE Outsider]
    /\ joins = 1
    /\ invite = [i \in Invites |-> NoInvite]
    /\ account = [a \in Accounts |-> [status |-> "NONE", restricted |-> FALSE, access |-> {}]]
    /\ row = [x \in Rows |-> [kind |-> "NONE", account |-> NoAccount]]
    /\ req = [r \in Requests |-> NewSlot]
    /\ asked = 0
    /\ removedAt = [u \in Users |-> 0]
    /\ crossed = {}

-----------------------------------------------------------------------------
\* invite: three calls of the database, no transaction.
InviteRead(r, o, u, role) ==
    /\ o \in Owners /\ ~IsMember(u)
    /\ Ask(r, "revoking", [By(o) EXCEPT !.user = u, !.role = role])
    /\ UNCHANGED <<people, things>>

\* Fault: the earlier invites are left open.
NotRevoked(u) == invite

WithoutPending(u) ==
    [i \in Invites |-> IF i \in PendingOf(u) THEN [invite[i] EXCEPT !.status = "REVOKED"] ELSE invite[i]]

InviteRevoke(r) ==
    /\ Awaits(r, "revoking")
    /\ invite' = WithoutPending(req[r].user)
    /\ req' = [req EXCEPT ![r].pc = "creating"]
    /\ UNCHANGED <<asked, member, joins, removedAt, crossed, things>>

\* crossed: another invitation, or the acceptance of an earlier one, came in
\* between.
InviteCreate(r, i) ==
    LET u == req[r].user IN
    /\ Awaits(r, "creating") /\ invite[i].status = "NONE" /\ \A j \in Invites : j < i => j \in Created
    /\ invite' = [invite EXCEPT ![i] = [status |-> "PENDING", user |-> u, role |-> req[r].role, over |-> FALSE]]
    /\ crossed' = crossed \cup (IF IsMember(u) \/ \E s \in Requests \ {r} :
                                            req[s].user = u /\ req[s].pc \in {"creating", "joining"}
                                        THEN {u} ELSE {})
    /\ Finish(r)
    /\ UNCHANGED <<member, joins, removedAt, things>>

InviteRunsOut(i) ==
    /\ invite[i].status = "PENDING" /\ ~invite[i].over
    /\ invite' = [invite EXCEPT ![i].over = TRUE]
    /\ UNCHANGED <<member, joins, removedAt, crossed, things, req, asked>>

\* acceptInvite: refused unless the invite is pending and the user's.
AcceptRead(r, i) ==
    LET u == invite[i].user IN
    /\ invite[i].status = "PENDING"
    /\ Ask(r, IF invite[i].over THEN "expiring" ELSE IF IsMember(u) THEN "already" ELSE "joining",
           [NewSlot EXCEPT !.by = u, !.user = u, !.inv = i])
    /\ UNCHANGED <<people, things>>

\* The status is written by id, whatever it has become.
AcceptMark(r) ==
    /\ req[r].pc \in {"expiring", "already"}
    /\ invite' = [invite EXCEPT ![req[r].inv].status = IF Awaits(r, "expiring") THEN "EXPIRED" ELSE "ACCEPTED"]
    /\ Finish(r)
    /\ UNCHANGED <<member, joins, removedAt, crossed, things>>

\* @@unique([userId, householdId]) fails the second of two acceptances.
Join(r) ==
    LET u == req[r].user
        i == req[r].inv IN
    /\ Awaits(r, "joining") /\ Finish(r)
    /\ \/ IsMember(u) /\ UNCHANGED people
       \/ /\ ~IsMember(u) /\ joins < MaxJoins
          /\ joins' = joins + 1
          /\ member' = [member EXCEPT ![u] = [id |-> joins + 1, role |-> invite[i].role]]
          /\ invite' = [invite EXCEPT ![i].status = "ACCEPTED"]
          /\ crossed' = crossed \cup (IF invite[i].status = "PENDING" THEN {} ELSE {u})
          /\ UNCHANGED removedAt
    /\ UNCHANGED things

\* Fault: the members are counted, not the owners.
MayGoFromOthers(o, u) == u \notin Owners \/ Cardinality(LiveIds) > 1

\* The last owner neither leaves nor is removed.
MayGo(o, u) == u \notin Owners \/ Cardinality(Owners) > 1

\* removeMember; to (history) is who the owners were.
RemoveRead(r, o, u) ==
    /\ o \in Owners /\ IsMember(u) /\ MayGo(o, u)
    /\ Ask(r, "removing", [By(o) EXCEPT !.user = u, !.to = Owners])
    /\ UNCHANGED <<people, things>>

AccessWithout(id) == [a \in Accounts |-> [account[a] EXCEPT !.access = @ \ {id}]]

\* The membership goes by its user, and its access rows with it (Cascade); its
\* invites stay.
RemoveWrite(r) ==
    LET u == req[r].user IN
    /\ Awaits(r, "removing") /\ Finish(r)
    /\ \/ ~IsMember(u) /\ UNCHANGED <<people, account>>
       \/ /\ IsMember(u)
          /\ member' = [member EXCEPT ![u] = Outsider]
          /\ account' = AccessWithout(member[u].id)
          /\ removedAt' = [removedAt EXCEPT ![u] = Cardinality(Created)]
          /\ UNCHANGED <<joins, invite, crossed>>
    /\ UNCHANGED row

-----------------------------------------------------------------------------
CreateAccount(u, a) ==
    /\ IsMember(u) /\ account[a].status = "NONE"
    /\ account' = [account EXCEPT ![a].status = "LIVE"]
    /\ UNCHANGED <<people, row, req, asked>>

\* HouseholdGuard and the access check of the handlers.
MayUse(u, a) == IsMember(u) /\ Sees(member[u].id, a)

\* Fault: who restricts has to name himself.
RequestedOnly(requested, actor) == requested

\* resolveRestrictMemberIds
RestrictIds(requested, actor) == requested \cup {actor}

RestrictRead(r, u, a, requested) ==
    /\ MayUse(u, a) /\ requested \subseteq LiveIds /\ requested # {}
    /\ Ask(r, "restricting", [By(u) EXCEPT !.account = a, !.to = RestrictIds(requested, member[u].id)])
    /\ UNCHANGED <<people, things>>

\* A membership that has gone fails the foreign key, and the whole write.
RestrictWrite(r) ==
    LET a == req[r].account IN
    /\ Awaits(r, "restricting") /\ Finish(r)
    /\ account' = IF account[a].status = "LIVE" /\ req[r].to \subseteq LiveIds
                    THEN [account EXCEPT ![a].restricted = TRUE, ![a].access = req[r].to]
                    ELSE account
    /\ UNCHANGED <<people, row>>

UnrestrictRead(r, u, a) ==
    /\ MayUse(u, a)
    /\ Ask(r, "opening", [By(u) EXCEPT !.account = a])
    /\ UNCHANGED <<people, things>>

UnrestrictWrite(r) ==
    LET a == req[r].account IN
    /\ Awaits(r, "opening") /\ Finish(r)
    /\ account' = IF account[a].status = "LIVE"
                    THEN [account EXCEPT ![a].restricted = FALSE, ![a].access = {}] ELSE account
    /\ UNCHANGED <<people, row>>

\* A transaction, goal, bill, plan, recurrence, import or mapping: the account is
\* checked first.
AddRead(r, u, a, kind) ==
    /\ MayUse(u, a)
    /\ Ask(r, "adding", [By(u) EXCEPT !.account = a, !.kind = kind])
    /\ UNCHANGED <<people, things>>

AddWrite(r) ==
    LET a == req[r].account IN
    /\ Awaits(r, "adding") /\ Finish(r)
    /\ \/ account[a].status # "LIVE" /\ UNCHANGED row
       \/ \E x \in Rows : /\ account[a].status = "LIVE" /\ row[x].kind = "NONE"
                          /\ row' = [row EXCEPT ![x] = [kind |-> req[r].kind, account |-> a]]
       \/ \* the bound on Rows
          (\A x \in Rows : row[x].kind # "NONE") /\ UNCHANGED row
    /\ UNCHANGED <<people, account>>

\* Fault: transfers into the account are not counted.
NotReceiving(a) == {x \in Rows : row[x].account = a /\ row[x].kind \in CountedKinds \ {"transfer"}}

\* The four counts of remove.
InUse(a) == {x \in Rows : row[x].account = a /\ row[x].kind \in CountedKinds}

DeleteRead(r, u, a) ==
    /\ MayUse(u, a) /\ InUse(a) = {}
    /\ Ask(r, "deleting", [By(u) EXCEPT !.account = a, !.to = {x \in Rows : row[x].kind # "NONE"}])
    /\ UNCHANGED <<people, things>>

\* What the foreign keys make of a row whose account goes.
Orphaned(x) == [kind |-> IF row[x].kind = "mapping" THEN "GONE" ELSE row[x].kind, account |-> NoAccount]

DeleteWrite(r) ==
    LET a == req[r].account
        refs == {x \in Rows : row[x].account = a} IN
    /\ Awaits(r, "deleting") /\ Finish(r)
    /\ IF account[a].status = "LIVE" /\ \A x \in refs : row[x].kind \notin RestrictingKinds
         THEN /\ account' = [account EXCEPT ![a] = [status |-> "DELETED", restricted |-> FALSE, access |-> {}]]
              /\ row' = [x \in Rows |-> IF x \in refs THEN Orphaned(x) ELSE row[x]]
         ELSE UNCHANGED things
    /\ UNCHANGED people

-----------------------------------------------------------------------------
MemberStep(r) ==
    \/ \E o, u \in Users, role \in Roles : InviteRead(r, o, u, role)
    \/ InviteRevoke(r)
    \/ \E i \in Invites : InviteCreate(r, i) \/ AcceptRead(r, i)
    \/ AcceptMark(r) \/ Join(r)
    \/ \E o, u \in Users : RemoveRead(r, o, u)
    \/ RemoveWrite(r)

AccountStep(r) ==
    \/ \E u \in Users, a \in Accounts :
          \/ \E requested \in SUBSET LiveIds : RestrictRead(r, u, a, requested)
          \/ UnrestrictRead(r, u, a) \/ DeleteRead(r, u, a)
          \/ \E kind \in Kinds : AddRead(r, u, a, kind)
    \/ RestrictWrite(r) \/ UnrestrictWrite(r) \/ DeleteWrite(r) \/ AddWrite(r)

NoneWaits == (\A r \in Requests : Awaits(r, "new")) /\ UNCHANGED householdVars
\* The bounds on invites and memberships.
GivesUp(r) ==
    /\ \/ Awaits(r, "creating") /\ Created = Invites
       \/ Awaits(r, "joining") /\ joins = MaxJoins
    /\ Finish(r) /\ UNCHANGED <<people, things>>

HouseholdsNext ==
    \/ \E r \in Requests : MemberStep(r) \/ AccountStep(r) \/ GivesUp(r)
    \/ \E i \in Invites : InviteRunsOut(i)
    \/ \E u \in Users, a \in Accounts : CreateAccount(u, a)
    \/ NoneWaits

HouseholdsSpec == HouseholdsInit /\ [][HouseholdsNext]_householdVars

-----------------------------------------------------------------------------
\* The types; the rows of account_access are of members there are.
HouseholdsTypeOK ==
    /\ member \in [Users -> {Outsider} \cup [id : MemberIds, role : Roles]]
    /\ joins \in MemberIds
    /\ invite \in [Invites -> [status : {"NONE", "PENDING", "ACCEPTED", "REVOKED", "EXPIRED"},
                               user : Users \cup {NoUser}, role : Roles \cup {"NONE"}, over : BOOLEAN]]
    /\ account \in [Accounts -> [status : {"NONE", "LIVE", "DELETED"}, restricted : BOOLEAN,
                                 access : SUBSET LiveIds]]
    /\ row \in [Rows -> [kind : Kinds \cup {"NONE", "GONE"}, account : Accounts \cup {NoAccount}]]
    /\ removedAt \in [Users -> 0..Cardinality(Invites)] /\ crossed \subseteq Users

\* The household is left without an owner only by a removal whose count of the
\* owners is outdated ("O último responsável não pode sair do espaço").
OwnerlessOnlyByStaleRemoval ==
    [][Owners # {} /\ Owners' = {} => \E r \in Requests : Awaits(r, "removing") /\ req[r].to # Owners]_householdVars

\* Who was removed comes back only by an invite created afterwards, unless
\* invitations or an acceptance overlapped, or the acceptance was under way. The
\* removal itself closes no invite: this rests on invite() closing the earlier ones.
RemovedStaysOut ==
    [][\A r \in Requests : Awaits(r, "joining") /\ ~IsMember(req[r].user) /\ member'[req[r].user].id # 0 =>
            \/ req[r].inv > removedAt[req[r].user]
            \/ req[r].user \in crossed']_householdVars

\* A member loses sight of an account only because somebody else restricts it,
\* and an account is out of everybody's sight only because the last member with
\* access was removed (which nothing checks). No step leaves an access row of a
\* member who went.
SightLostOnlyByOthers ==
    [][/\ HouseholdsTypeOK'
       /\ \A a \in Accounts : account[a].status = "LIVE" /\ account'[a].status = "LIVE" =>
        /\ \A u \in Users : IsMember(u) /\ Sees(member[u].id, a) /\ member'[u] = member[u]
                /\ account'[a].restricted /\ member[u].id \notin account'[a].access
                => \E r \in Requests : Awaits(r, "restricting") /\ req[r].by # u
        /\ (account'[a].restricted /\ account'[a].access = {}) /\ account[a].access # {}
                => LiveIds' # LiveIds]_householdVars

\* A row loses its account only when the account is deleted, and an entry
\* only when it was written after the deletion had counted the entries; the foreign
\* key does not stop it. What the deletion does not count goes on without an account
\* (a bill, an import) or goes as well (a mapping), or it stops the deletion (a plan).
RowsLoseAccountOnlyByStaleCount ==
    [][\A x \in Rows : row[x].account # NoAccount /\ row'[x].account # row[x].account =>
            \E r \in Requests :
                /\ Awaits(r, "deleting") /\ req[r].account = row[x].account
                /\ account'[req[r].account].status = "DELETED"
                /\ row[x].kind \notin RestrictingKinds
                /\ row[x].kind \in CountedKinds => x \notin req[r].to]_householdVars
=============================================================================
