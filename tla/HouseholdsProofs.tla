-------------------------- MODULE HouseholdsProofs --------------------------
(***************************************************************************)
(* What holds of a household for every set of people, invites, accounts,    *)
(* rows and requests: the types, and the four action properties, although   *)
(* no handler holds a lock between its check and its write. What holds of   *)
(* what recurs in its books, for every number of generations, any dates and *)
(* horizons: which dates are generated twice or not at all, and which rows  *)
(* a removal leaves behind. And that the dates themselves add up.           *)
(***************************************************************************)
EXTENDS Households, Recurrences, Calendar, FiniteSetTheorems, WellFoundedInduction, TLAPS

-----------------------------------------------------------------------------
(* The inductive invariant *)

Pcs == {"new", "revoking", "creating", "expiring", "already", "joining", "removing",
        "restricting", "opening", "adding", "deleting"}
RequestType ==
    [pc : Pcs, by : Users \cup {NoUser}, mid : Nat, user : Users \cup {NoUser},
     role : Roles \cup {"NONE"}, inv : Invites \cup {0}, account : Accounts \cup {NoAccount},
     kind : Kinds \cup {"NONE"}, to : SUBSET (Users \cup MemberIds \cup Rows)]

InviteType ==
    [status : {"NONE", "PENDING", "ACCEPTED", "REVOKED", "EXPIRED"}, user : Users \cup {NoUser},
     role : Roles \cup {"NONE"}, over : BOOLEAN]

\* A handler has looked up what it writes to.
RequestsTyped ==
    /\ req \in [Requests -> RequestType]
    /\ \A r \in Requests :
        /\ req[r].pc \in {"revoking", "creating"} => req[r].user \in Users /\ req[r].role \in Roles
        /\ req[r].pc \in {"expiring", "already", "joining"} => req[r].user \in Users /\ req[r].inv \in Invites
        /\ Awaits(r, "removing") => req[r].user \in Users
        /\ Awaits(r, "adding") => req[r].kind \in Kinds /\ req[r].account \in Accounts
        /\ Awaits(r, "deleting") => req[r].account \in Accounts

\* An invite that was made is to somebody, and its invitee accepts it.
InvitesTyped ==
    /\ \A i \in Created : invite[i].user \in Users /\ invite[i].role \in Roles
    /\ \A r \in Requests : req[r].pc \in {"expiring", "already", "joining"} =>
           req[r].inv \in Created /\ invite[req[r].inv].user = req[r].user

\* A membership id belongs to one member, and was given out.
IdsDistinct ==
    /\ \A u \in Users : IsMember(u) => member[u].id \in 1..joins
    /\ \A u, v \in Users : IsMember(u) /\ member[u].id = member[v].id => u = v

TypesInv == HouseholdsTypeOK /\ RequestsTyped /\ InvitesTyped /\ IdsDistinct

\* A removal has counted the owners it saw.
RemovalsCounted ==
    \A r \in Requests : Awaits(r, "removing") => req[r].user \notin req[r].to \/ Cardinality(req[r].to) > 1

\* Who restricts an account names the membership it was asked with.
RestrictorsNamed ==
    \A r \in Requests : Awaits(r, "restricting") =>
        /\ req[r].mid \in req[r].to /\ req[r].mid \in 1..joins
        /\ \A u \in Users : IsMember(u) /\ member[u].id = req[r].mid => u = req[r].by

\* A deletion has found no row of those it counts on its account.
DeletionsCounted ==
    \A r \in Requests : Awaits(r, "deleting") =>
        /\ req[r].account \in Accounts
        /\ \A x \in Rows : x \in req[r].to =>
               row[x].kind # "NONE" /\ (row[x].kind \in CountedKinds => row[x].account # req[r].account)

\* A row that was not written yet refers to nothing.
RowsUnwritten == \A x \in Rows : row[x].kind = "NONE" => row[x].account = NoAccount

\* Invites are made in order, and a removal remembers how many there were.
CreatedInOrder ==
    /\ \E n \in 0..Cardinality(Invites) : Created = 1..n
    /\ \A u \in Users : removedAt[u] <= Cardinality(Created)

\* Unless invitations crossed: a user has one open invite at most, none while an
\* invitation of theirs has closed the earlier ones, and none while a member; what is
\* open was made after the last removal; and an acceptance is of what is open.
InvitesInStep ==
    \A u \in Users \ crossed :
        /\ \A i, j \in PendingOf(u) : i = j
        /\ \A r \in Requests : Awaits(r, "creating") /\ req[r].user = u => PendingOf(u) = {}
        /\ IsMember(u) => PendingOf(u) = {}
        /\ \A i \in PendingOf(u) : i > removedAt[u]
        /\ \A r \in Requests : Awaits(r, "joining") /\ req[r].user = u =>
               PendingOf(u) \subseteq {req[r].inv}

HouseholdsInv ==
    /\ TypesInv /\ RemovalsCounted /\ RestrictorsNamed /\ DeletionsCounted /\ RowsUnwritten
    /\ CreatedInOrder /\ InvitesInStep
-----------------------------------------------------------------------------
(* The steps *)

\* A step that asks: it reads, and only the request and the bound change.
Asks(r) ==
    /\ Awaits(r, "new") /\ UNCHANGED <<people, things>>
    /\ \E s : req' = [req EXCEPT ![r] = s]

\* The cases of a step, each read or write of each handler.
LEMMA HouseholdsSteps ==
    ASSUME [HouseholdsNext]_householdVars
    PROVE  \/ \E r \in Requests, o, u \in Users, role \in Roles : InviteRead(r, o, u, role)
           \/ \E r \in Requests : InviteRevoke(r)
           \/ \E r \in Requests, i \in Invites : InviteCreate(r, i)
           \/ \E r \in Requests, i \in Invites : AcceptRead(r, i)
           \/ \E r \in Requests : AcceptMark(r)
           \/ \E r \in Requests : Join(r)
           \/ \E r \in Requests, o, u \in Users : RemoveRead(r, o, u)
           \/ \E r \in Requests : RemoveWrite(r)
           \/ \E r \in Requests, u \in Users, a \in Accounts, requested \in SUBSET LiveIds :
                  RestrictRead(r, u, a, requested)
           \/ \E r \in Requests, u \in Users, a \in Accounts : UnrestrictRead(r, u, a) \/ DeleteRead(r, u, a)
           \/ \E r \in Requests, u \in Users, a \in Accounts, kind \in Kinds : AddRead(r, u, a, kind)
           \/ \E r \in Requests : RestrictWrite(r)
           \/ \E r \in Requests : UnrestrictWrite(r)
           \/ \E r \in Requests : DeleteWrite(r)
           \/ \E r \in Requests : AddWrite(r)
           \/ \E r \in Requests : GivesUp(r)
           \/ \E i \in Invites : InviteRunsOut(i)
           \/ \E u \in Users, a \in Accounts : CreateAccount(u, a)
           \/ UNCHANGED householdVars
BY Zenon DEF HouseholdsNext, MemberStep, AccountStep, NoneWaits

-----------------------------------------------------------------------------
(* Types *)

\* The empty request is one.
LEMMA NewSlotType == NewSlot \in RequestType
BY DEF NewSlot, RequestType, Pcs, Roles, Kinds

\* Nothing takes an invite back or gives it to somebody else.
InvitesKept ==
    \A i \in Created :
        i \in Created' /\ invite'[i].user = invite[i].user /\ invite'[i].role = invite[i].role

\* A request that starts, goes on or ends stays typed, if it has looked up what it
\* will write to.
LEMMA RequestChanges ==
    ASSUME TypesInv, NEW r \in Requests, NEW s \in RequestType, req' = [req EXCEPT ![r] = s],
           InvitesKept, \A i \in Created' : invite'[i].user \in Users /\ invite'[i].role \in Roles,
           s.pc \in {"revoking", "creating"} => s.user \in Users /\ s.role \in Roles,
           s.pc \in {"expiring", "already", "joining"} =>
               s.user \in Users /\ s.inv \in Created /\ invite[s.inv].user = s.user,
           s.pc = "removing" => s.user \in Users,
           s.pc = "adding" => s.kind \in Kinds /\ s.account \in Accounts,
           s.pc = "deleting" => s.account \in Accounts
    PROVE  RequestsTyped' /\ InvitesTyped'
<1>1. Created \subseteq Invites
    BY DEF Created
<1>2. RequestsTyped'
    BY <1>1 DEF TypesInv, RequestsTyped, Awaits
<1>3. InvitesTyped'
    <2>1. ASSUME NEW q \in Requests, req'[q].pc \in {"expiring", "already", "joining"}
          PROVE  req'[q].inv \in Created' /\ invite'[req'[q].inv].user = req'[q].user
        <3>1. CASE q = r
            BY <2>1, <3>1 DEF TypesInv, RequestsTyped, InvitesKept
        <3>2. CASE q # r
            BY <2>1, <3>2 DEF TypesInv, RequestsTyped, InvitesTyped, InvitesKept
        <3>. QED BY <3>1, <3>2
    <2>. QED BY <2>1 DEF InvitesTyped
<1>. QED BY <1>2, <1>3

\* A request that ends stays typed.
LEMMA FinishTyped ==
    ASSUME TypesInv, NEW r \in Requests, Finish(r),
           InvitesKept, \A i \in Created' : invite'[i].user \in Users /\ invite'[i].role \in Roles
    PROVE  RequestsTyped' /\ InvitesTyped'
<1>1. req' = [req EXCEPT ![r] = NewSlot] /\ NewSlot.pc = "new"
    BY DEF Finish, NewSlot
<1>. QED BY <1>1, NewSlotType, RequestChanges

\* The invites stay typed when they stay as they are.
LEMMA SameInvites ==
    ASSUME TypesInv, invite' = invite
    PROVE  InvitesKept /\ \A i \in Created' : invite'[i].user \in Users /\ invite'[i].role \in Roles
BY DEF TypesInv, InvitesKept, InvitesTyped, Created

\* The members stay distinct when they stay the same.
LEMMA SameMembers ==
    ASSUME IdsDistinct, UNCHANGED <<member, joins>>
    PROVE  IdsDistinct' /\ LiveIds' = LiveIds
BY DEF IdsDistinct, LiveIds, IsMember

\* A step that asks keeps the types, if it has looked up what it will write to.
LEMMA AskTyped ==
    ASSUME TypesInv, NEW r \in Requests, NEW pc \in Pcs, NEW s \in RequestType,
           Ask(r, pc, s), UNCHANGED <<people, things>>,
           pc \in {"revoking", "creating"} => s.user \in Users /\ s.role \in Roles,
           pc \in {"expiring", "already", "joining"} =>
               s.user \in Users /\ s.inv \in Created /\ invite[s.inv].user = s.user,
           pc = "removing" => s.user \in Users,
           pc = "adding" => s.kind \in Kinds /\ s.account \in Accounts,
           pc = "deleting" => s.account \in Accounts
    PROVE  TypesInv'
<1>. DEFINE slot == [s EXCEPT !.pc = pc]
<1>1. UNCHANGED <<member, joins, invite, removedAt, crossed, account, row>>
    BY DEF people, things
<1>2. RequestsTyped' /\ InvitesTyped'
    <2>1. InvitesKept /\ \A i \in Created' : invite'[i].user \in Users /\ invite'[i].role \in Roles
        BY <1>1, SameInvites
    <2>2. slot \in RequestType /\ slot.pc = pc /\ slot.user = s.user /\ slot.role = s.role
          /\ slot.inv = s.inv /\ slot.kind = s.kind /\ slot.account = s.account
        BY DEF RequestType
    <2>3. req' = [req EXCEPT ![r] = slot]
        BY DEF Ask
    <2>. HIDE DEF slot
    <2>. QED BY <2>1, <2>2, <2>3, RequestChanges
<1>3. LiveIds' = LiveIds /\ IdsDistinct'
    BY <1>1, SameMembers DEF TypesInv
<1>4. HouseholdsTypeOK'
    BY <1>1, <1>3 DEF TypesInv, HouseholdsTypeOK
<1>. QED BY <1>2, <1>3, <1>4 DEF TypesInv

\* Who is a member has an id and a role; ids are numbers.
LEMMA MemberTypes ==
    ASSUME HouseholdsTypeOK
    PROVE  /\ \A u \in Users : member[u].id \in Nat
           /\ \A u \in Users : IsMember(u) => member[u].id \in MemberIds /\ member[u].role \in Roles
           /\ LiveIds \subseteq MemberIds
<1>1. \A u \in Users : member[u] = Outsider \/ member[u] \in [id : MemberIds, role : Roles]
    BY DEF HouseholdsTypeOK
<1>2. \A n \in MemberIds : n \in Nat /\ n # 0
    BY HouseholdsAssumption DEF MemberIds
<1>3. \A u \in Users : member[u].id \in Nat /\ (IsMember(u) => member[u].id \in MemberIds /\ member[u].role \in Roles)
    BY <1>1, <1>2 DEF Outsider, IsMember
<1>. QED BY <1>3 DEF LiveIds

\* What a handler asks with holds its membership.
LEMMA ByType ==
    ASSUME HouseholdsTypeOK, NEW o \in Users
    PROVE  By(o) \in RequestType /\ By(o).by = o /\ By(o).mid = member[o].id
BY MemberTypes, NewSlotType DEF By, RequestType

\* The reads ask for something well typed.
LEMMA InviteReadTypes ==
    ASSUME TypesInv, NEW r \in Requests, NEW o \in Users, NEW u \in Users, NEW role \in Roles,
           InviteRead(r, o, u, role)
    PROVE  TypesInv'
<1>. DEFINE s == [By(o) EXCEPT !.user = u, !.role = role]
<1>1. By(o) \in RequestType
    BY ByType DEF TypesInv
<1>2. s \in RequestType /\ s.user = u /\ s.role = role
    BY <1>1 DEF RequestType
<1>3. Ask(r, "revoking", s) /\ UNCHANGED <<people, things>>
    BY DEF InviteRead
<1>. HIDE DEF s
<1>. QED BY <1>2, <1>3, AskTyped DEF Pcs

\* As InviteReadTypes.
LEMMA AcceptReadTypes ==
    ASSUME TypesInv, NEW r \in Requests, NEW i \in Invites, AcceptRead(r, i)
    PROVE  TypesInv'
<1>. DEFINE u  == invite[i].user
            pc == IF invite[i].over THEN "expiring" ELSE IF IsMember(u) THEN "already" ELSE "joining"
            s  == [NewSlot EXCEPT !.by = u, !.user = u, !.inv = i]
<1>1. i \in Created /\ u \in Users
    BY DEF AcceptRead, Created, TypesInv, InvitesTyped
<1>2. s \in RequestType /\ s.user = u /\ s.inv = i
    BY <1>1, NewSlotType DEF RequestType
<1>3. Ask(r, pc, s) /\ UNCHANGED <<people, things>>
    BY DEF AcceptRead
<1>4. pc \in {"expiring", "already", "joining"}
    OBVIOUS
<1>. HIDE DEF s, pc
<1>. QED BY <1>1, <1>2, <1>3, <1>4, AskTyped DEF Pcs

\* As InviteReadTypes.
LEMMA RemoveReadTypes ==
    ASSUME TypesInv, NEW r \in Requests, NEW o \in Users, NEW u \in Users, RemoveRead(r, o, u)
    PROVE  TypesInv'
<1>. DEFINE s == [By(o) EXCEPT !.user = u, !.to = Owners]
<1>1. By(o) \in RequestType /\ Owners \subseteq Users
    BY ByType DEF TypesInv, Owners
<1>2. s \in RequestType /\ s.user = u
    BY <1>1 DEF RequestType
<1>3. Ask(r, "removing", s) /\ UNCHANGED <<people, things>>
    BY DEF RemoveRead
<1>. HIDE DEF s
<1>. QED BY <1>2, <1>3, AskTyped DEF Pcs

\* As InviteReadTypes, for the handlers of an account.
LEMMA RestrictReadTypes ==
    ASSUME TypesInv, NEW r \in Requests, NEW u \in Users, NEW a \in Accounts,
           NEW requested \in SUBSET LiveIds, RestrictRead(r, u, a, requested)
    PROVE  TypesInv'
<1>. DEFINE s == [By(u) EXCEPT !.account = a, !.to = RestrictIds(requested, member[u].id)]
<1>1. By(u) \in RequestType
    BY ByType DEF TypesInv
<1>2. RestrictIds(requested, member[u].id) \subseteq MemberIds
    BY MemberTypes DEF RestrictRead, MayUse, RestrictIds, TypesInv
<1>3. s \in RequestType
    BY <1>1, <1>2 DEF RequestType
<1>4. Ask(r, "restricting", s) /\ UNCHANGED <<people, things>>
    BY DEF RestrictRead
<1>. HIDE DEF s
<1>. QED BY <1>3, <1>4, AskTyped DEF Pcs

\* As InviteReadTypes.
LEMMA UnrestrictReadTypes ==
    ASSUME TypesInv, NEW r \in Requests, NEW u \in Users, NEW a \in Accounts, UnrestrictRead(r, u, a)
    PROVE  TypesInv'
<1>. DEFINE s == [By(u) EXCEPT !.account = a]
<1>1. By(u) \in RequestType
    BY ByType DEF TypesInv
<1>2. s \in RequestType
    BY <1>1 DEF RequestType
<1>3. Ask(r, "opening", s) /\ UNCHANGED <<people, things>>
    BY DEF UnrestrictRead
<1>. HIDE DEF s
<1>. QED BY <1>2, <1>3, AskTyped DEF Pcs

\* As InviteReadTypes.
LEMMA DeleteReadTypes ==
    ASSUME TypesInv, NEW r \in Requests, NEW u \in Users, NEW a \in Accounts, DeleteRead(r, u, a)
    PROVE  TypesInv'
<1>. DEFINE s == [By(u) EXCEPT !.account = a, !.to = {x \in Rows : row[x].kind # "NONE"}]
<1>1. By(u) \in RequestType
    BY ByType DEF TypesInv
<1>2. s \in RequestType /\ s.account = a
    BY <1>1 DEF RequestType
<1>3. Ask(r, "deleting", s) /\ UNCHANGED <<people, things>>
    BY DEF DeleteRead
<1>. HIDE DEF s
<1>. QED BY <1>2, <1>3, AskTyped DEF Pcs

\* As InviteReadTypes.
LEMMA AddReadTypes ==
    ASSUME TypesInv, NEW r \in Requests, NEW u \in Users, NEW a \in Accounts, NEW kind \in Kinds,
           AddRead(r, u, a, kind)
    PROVE  TypesInv'
<1>. DEFINE s == [By(u) EXCEPT !.account = a, !.kind = kind]
<1>1. By(u) \in RequestType
    BY ByType DEF TypesInv
<1>2. s \in RequestType /\ s.kind = kind /\ s.account = a
    BY <1>1 DEF RequestType
<1>3. Ask(r, "adding", s) /\ UNCHANGED <<people, things>>
    BY DEF AddRead
<1>. HIDE DEF s
<1>. QED BY <1>2, <1>3, AskTyped DEF Pcs

\* The rows of household_invites, and what the handlers set of one.
LEMMA InviteTypes ==
    ASSUME HouseholdsTypeOK
    PROVE  /\ invite \in [Invites -> InviteType]
           /\ \A i \in Invites : invite[i] \in InviteType
           /\ \A v \in InviteType :
                  /\ [v EXCEPT !.over = TRUE] \in InviteType
                  /\ [v EXCEPT !.status = "REVOKED"] \in InviteType
<1>1. invite \in [Invites -> InviteType]
    BY DEF HouseholdsTypeOK, InviteType
<1>2. \A v \in InviteType : [v EXCEPT !.over = TRUE] \in InviteType
    BY DEF InviteType
<1>3. \A v \in InviteType : [v EXCEPT !.status = "REVOKED"] \in InviteType
    BY DEF InviteType
<1>. QED BY <1>1, <1>2, <1>3

\* An invite that is marked keeps its invitee.
LEMMA MarkedInvites ==
    ASSUME TypesInv, UNCHANGED <<member, joins, removedAt, crossed, things>>,
           invite' \in [Invites -> InviteType]
    PROVE  HouseholdsTypeOK' /\ IdsDistinct'
<1>1. UNCHANGED <<member, joins, removedAt, crossed, account, row>>
    BY DEF things
<1>2. LiveIds' = LiveIds /\ IdsDistinct'
    BY <1>1, SameMembers DEF TypesInv
<1>. QED BY <1>1, <1>2 DEF TypesInv, HouseholdsTypeOK, InviteType

\* Closing the open invites of a user makes none.
LEMMA RevokedCreated ==
    ASSUME TypesInv, NEW r \in Requests, InviteRevoke(r)
    PROVE  /\ Created' = Created
           /\ \A i \in Invites : invite'[i] = IF i \in PendingOf(req[r].user)
                                              THEN [invite[i] EXCEPT !.status = "REVOKED"] ELSE invite[i]
<1>1. \A i \in Invites : invite'[i] = IF i \in PendingOf(req[r].user)
                                      THEN [invite[i] EXCEPT !.status = "REVOKED"] ELSE invite[i]
    BY DEF InviteRevoke, WithoutPending
<1>2. \A i \in Invites : invite[i] \in InviteType
    BY DEF TypesInv, HouseholdsTypeOK, InviteType
<1>3. \A i \in Invites : invite'[i].status # "NONE" <=> invite[i].status # "NONE"
    BY <1>1, <1>2 DEF InviteType, PendingOf
<1>. QED BY <1>1, <1>3 DEF Created

\* Closing the open invites of a user, making one, marking one.
LEMMA InviteRevokeTypes ==
    ASSUME TypesInv, NEW r \in Requests, InviteRevoke(r)
    PROVE  TypesInv'
<1>. DEFINE s == [req[r] EXCEPT !.pc = "creating"]
<1>1. req[r] \in RequestType /\ req[r].user \in Users /\ req[r].role \in Roles
    BY DEF InviteRevoke, TypesInv, RequestsTyped, Awaits
<1>2. s \in RequestType /\ s.pc = "creating" /\ s.user = req[r].user /\ s.role = req[r].role
    BY <1>1 DEF RequestType, Pcs
<1>3. req' = [req EXCEPT ![r] = s]
    BY DEF InviteRevoke
<1>4. invite' \in [Invites -> InviteType] /\ InvitesKept
    <2>1. \A i \in Invites : invite[i] \in InviteType /\ [invite[i] EXCEPT !.status = "REVOKED"] \in InviteType
        BY Zenon, InviteTypes DEF TypesInv
    <2>2. invite' \in [Invites -> InviteType]
        BY <2>1 DEF InviteRevoke, WithoutPending
    <2>3. ASSUME NEW i \in Created
          PROVE  i \in Created' /\ invite'[i].user = invite[i].user /\ invite'[i].role = invite[i].role
        <3>1. i \in Invites /\ invite[i] \in InviteType
            BY InviteTypes DEF Created, TypesInv
        <3>2. [invite[i] EXCEPT !.status = "REVOKED"].user = invite[i].user
              /\ [invite[i] EXCEPT !.status = "REVOKED"].role = invite[i].role
            BY <3>1 DEF InviteType
        <3>. QED BY <3>1, <3>2, RevokedCreated
    <2>. QED BY <2>2, <2>3 DEF InvitesKept
<1>5. \A i \in Created' : invite'[i].user \in Users /\ invite'[i].role \in Roles
    BY <1>4, RevokedCreated DEF TypesInv, InvitesTyped, InvitesKept
<1>. HIDE DEF s
<1>6. RequestsTyped' /\ InvitesTyped'
    BY <1>1, <1>2, <1>3, <1>4, <1>5, RequestChanges
<1>7. HouseholdsTypeOK' /\ IdsDistinct'
    BY <1>4, MarkedInvites DEF InviteRevoke
<1>. QED BY <1>6, <1>7 DEF TypesInv

\* As InviteRevokeTypes.
LEMMA InviteCreateTypes ==
    ASSUME TypesInv, NEW r \in Requests, NEW i \in Invites, InviteCreate(r, i)
    PROVE  TypesInv'
<1>. DEFINE made == [status |-> "PENDING", user |-> req[r].user, role |-> req[r].role, over |-> FALSE]
<1>1. req[r].user \in Users /\ req[r].role \in Roles
    BY DEF InviteCreate, Awaits, TypesInv, RequestsTyped
<1>2. made \in InviteType
    BY <1>1 DEF InviteType
<1>3. invite' = [invite EXCEPT ![i] = made] /\ invite \in [Invites -> InviteType]
    BY DEF InviteCreate, TypesInv, HouseholdsTypeOK, InviteType
<1>4. InvitesKept /\ \A j \in Created' : invite'[j].user \in Users /\ invite'[j].role \in Roles
    BY <1>1, <1>3 DEF InvitesKept, Created, InviteCreate, TypesInv, InvitesTyped
<1>5. RequestsTyped' /\ InvitesTyped'
    BY <1>4, FinishTyped DEF InviteCreate
<1>6. UNCHANGED <<member, joins, removedAt, account, row>> /\ crossed' \subseteq Users
    BY <1>1 DEF InviteCreate, things, TypesInv, HouseholdsTypeOK
<1>7. LiveIds' = LiveIds /\ IdsDistinct'
    BY <1>6, SameMembers DEF TypesInv
<1>8. invite' \in [Invites -> InviteType]
    BY <1>2, <1>3
<1>9. HouseholdsTypeOK'
    BY <1>6, <1>7, <1>8 DEF TypesInv, HouseholdsTypeOK, InviteType
<1>. QED BY <1>5, <1>7, <1>9 DEF TypesInv

\* A mark on an invite.
LEMMA StatusTypes ==
    ASSUME TypesInv, NEW i \in Invites, NEW status \in {"ACCEPTED", "EXPIRED"},
           invite' = [invite EXCEPT ![i].status = status]
    PROVE  /\ invite' \in [Invites -> InviteType]
           /\ InvitesKept /\ \A j \in Created' : j # i => invite'[j].user \in Users /\ invite'[j].role \in Roles
           /\ \A j \in Invites : invite'[j].user = invite[j].user /\ invite'[j].role = invite[j].role
<1>1. invite \in [Invites -> InviteType]
    BY DEF TypesInv, HouseholdsTypeOK, InviteType
<1>2. [invite[i] EXCEPT !.status = status] \in InviteType
    BY <1>1 DEF InviteType
<1>3. invite' \in [Invites -> InviteType]
    BY <1>1, <1>2
<1>4. \A j \in Invites : /\ invite'[j].user = invite[j].user /\ invite'[j].role = invite[j].role
                         /\ invite'[j].status = IF j = i THEN status ELSE invite[j].status
    BY <1>1 DEF InviteType
<1>5. InvitesKept
    BY <1>4 DEF InvitesKept, Created
<1>6. \A j \in Created' : j # i => invite'[j].user \in Users /\ invite'[j].role \in Roles
    BY <1>4 DEF Created, TypesInv, InvitesTyped
<1>. QED BY <1>3, <1>4, <1>5, <1>6

\* As InviteRevokeTypes.
LEMMA AcceptMarkTypes ==
    ASSUME TypesInv, NEW r \in Requests, AcceptMark(r)
    PROVE  TypesInv'
<1>. DEFINE i == req[r].inv
            status == IF Awaits(r, "expiring") THEN "EXPIRED" ELSE "ACCEPTED"
<1>1. i \in Created /\ i \in Invites /\ status \in {"ACCEPTED", "EXPIRED"}
    BY DEF AcceptMark, TypesInv, InvitesTyped, RequestsTyped
<1>2. invite' = [invite EXCEPT ![i].status = status]
    BY DEF AcceptMark
<1>3. /\ invite' \in [Invites -> InviteType] /\ InvitesKept
      /\ \A j \in Created' : invite'[j].user \in Users /\ invite'[j].role \in Roles
    <2>. HIDE DEF i, status
    <2>1. invite[i].user \in Users /\ invite[i].role \in Roles
        BY <1>1 DEF TypesInv, InvitesTyped
    <2>. QED BY <1>1, <1>2, <2>1, StatusTypes
<1>4. RequestsTyped' /\ InvitesTyped'
    BY <1>3, FinishTyped DEF AcceptMark
<1>5. HouseholdsTypeOK' /\ IdsDistinct'
    BY <1>3, MarkedInvites DEF AcceptMark
<1>. QED BY <1>4, <1>5 DEF TypesInv

\* Closing the term of an invite.
LEMMA InviteRunsOutTypes ==
    ASSUME TypesInv, NEW i \in Invites, InviteRunsOut(i)
    PROVE  TypesInv'
<1>1. invite \in [Invites -> InviteType] /\ \A v \in InviteType : [v EXCEPT !.over = TRUE] \in InviteType
    BY Zenon, InviteTypes DEF TypesInv
<1>2. invite' \in [Invites -> InviteType]
    BY <1>1 DEF InviteRunsOut
<1>3. \A j \in Invites : invite'[j].user = invite[j].user /\ invite'[j].role = invite[j].role
                         /\ invite'[j].status = invite[j].status
    BY <1>1 DEF InviteRunsOut, InviteType
<1>4. Created' = Created
    BY <1>3 DEF Created
<1>5. RequestsTyped' /\ InvitesTyped'
    BY <1>3, <1>4 DEF InviteRunsOut, TypesInv, RequestsTyped, InvitesTyped, Awaits, Created
<1>6. HouseholdsTypeOK' /\ IdsDistinct'
    BY <1>2, MarkedInvites DEF InviteRunsOut
<1>. QED BY <1>5, <1>6 DEF TypesInv

\* A request that ends without a write.
LEMMA QuietFinishTypes ==
    ASSUME TypesInv, NEW r \in Requests, Finish(r), UNCHANGED <<people, things>>
    PROVE  TypesInv'
<1>1. UNCHANGED <<member, joins, invite, removedAt, crossed, account, row>>
    BY DEF people, things
<1>2. RequestsTyped' /\ InvitesTyped'
    BY <1>1, SameInvites, FinishTyped
<1>3. LiveIds' = LiveIds /\ IdsDistinct'
    BY <1>1, SameMembers DEF TypesInv
<1>4. HouseholdsTypeOK'
    BY <1>1, <1>3 DEF TypesInv, HouseholdsTypeOK
<1>. QED BY <1>2, <1>3, <1>4 DEF TypesInv

\* No more invites were made than there are.
LEMMA CreatedBound == Cardinality(Created) \in 0..Cardinality(Invites) /\ IsFiniteSet(Created)
<1>1. Created \subseteq Invites /\ IsFiniteSet(Invites)
    BY HouseholdsAssumption DEF Created
<1>2. IsFiniteSet(Created) /\ Cardinality(Created) <= Cardinality(Invites)
    BY <1>1, FS_Subset
<1>. QED BY <1>1, <1>2, FS_CardinalityType

\* A new member is told apart from the others by an id nobody had.
LEMMA JoinIds ==
    ASSUME TypesInv, NEW u \in Users, NEW role \in Roles, ~IsMember(u), joins < MaxJoins,
           joins' = joins + 1, member' = [member EXCEPT ![u] = [id |-> joins + 1, role |-> role]]
    PROVE  /\ member' \in [Users -> {Outsider} \cup [id : MemberIds, role : Roles]] /\ joins' \in MemberIds
           /\ IdsDistinct' /\ LiveIds \subseteq LiveIds'
<1>1. joins \in Nat /\ joins >= 1 /\ joins' \in MemberIds /\ MaxJoins \in Nat
    BY HouseholdsAssumption DEF TypesInv, HouseholdsTypeOK, MemberIds
<1>2. member' \in [Users -> {Outsider} \cup [id : MemberIds, role : Roles]]
    BY <1>1 DEF TypesInv, HouseholdsTypeOK
<1>3. \A v \in Users : member'[v] = IF v = u THEN [id |-> joins + 1, role |-> role] ELSE member[v]
    BY DEF TypesInv, HouseholdsTypeOK
<1>4. \A v \in Users : member[v].id \in Nat /\ (member[v].id # 0 => member[v].id \in 1..joins)
    BY MemberTypes DEF TypesInv, IdsDistinct, IsMember
<1>5. IdsDistinct'
    BY <1>1, <1>3, <1>4 DEF TypesInv, IdsDistinct, IsMember
<1>6. LiveIds \subseteq LiveIds'
    BY <1>1, <1>3 DEF LiveIds, IsMember
<1>. QED BY <1>1, <1>2, <1>5, <1>6

\* Joining.
LEMMA JoinTypes ==
    ASSUME TypesInv, NEW r \in Requests, Join(r)
    PROVE  TypesInv'
<1>. DEFINE u == req[r].user
            i == req[r].inv
<1>1. CASE UNCHANGED people
    BY <1>1, QuietFinishTypes DEF Join
<1>2. CASE ~UNCHANGED people
    <2>1. /\ ~IsMember(u) /\ joins < MaxJoins /\ joins' = joins + 1
          /\ member' = [member EXCEPT ![u] = [id |-> joins + 1, role |-> invite[i].role]]
          /\ invite' = [invite EXCEPT ![i].status = "ACCEPTED"]
          /\ crossed' = crossed \cup (IF invite[i].status = "PENDING" THEN {} ELSE {u})
          /\ UNCHANGED <<removedAt, account, row>> /\ Finish(r) /\ Awaits(r, "joining")
        BY <1>2 DEF Join, things
    <2>2. u \in Users /\ i \in Created /\ i \in Invites /\ invite[i].role \in Roles /\ invite[i].user = u
        BY <2>1 DEF Awaits, TypesInv, RequestsTyped, InvitesTyped
    <2>. HIDE DEF u, i
    <2>3. /\ invite' \in [Invites -> InviteType] /\ InvitesKept
          /\ \A j \in Created' : invite'[j].user \in Users /\ invite'[j].role \in Roles
        BY <2>1, <2>2, StatusTypes
    <2>4. RequestsTyped' /\ InvitesTyped'
        BY <2>1, <2>3, FinishTyped
    <2>5. /\ member' \in [Users -> {Outsider} \cup [id : MemberIds, role : Roles]] /\ joins' \in MemberIds
          /\ IdsDistinct' /\ LiveIds \subseteq LiveIds'
        BY <2>1, <2>2, JoinIds
    <2>6. HouseholdsTypeOK'
        <3>1. account' \in [Accounts -> [status : {"NONE", "LIVE", "DELETED"}, restricted : BOOLEAN,
                                         access : SUBSET LiveIds']]
            <4>1. \A a \in Accounts : account[a] \in [status : {"NONE", "LIVE", "DELETED"}, restricted : BOOLEAN,
                                                      access : SUBSET LiveIds']
                BY <2>5 DEF TypesInv, HouseholdsTypeOK
            <4>. QED BY <2>1, <4>1 DEF TypesInv, HouseholdsTypeOK
        <3>. QED BY <2>1, <2>2, <2>3, <2>5, <3>1 DEF TypesInv, HouseholdsTypeOK, InviteType
    <2>. QED BY <2>4, <2>5, <2>6 DEF TypesInv
<1>. QED BY <1>1, <1>2

\* Invites are kept, accounts are not shown to who went.
LEMMA RemoveWriteTypes ==
    ASSUME TypesInv, NEW r \in Requests, RemoveWrite(r)
    PROVE  TypesInv'
<1>. DEFINE u == req[r].user
<1>1. CASE UNCHANGED <<people, account>>
    BY <1>1, QuietFinishTypes DEF RemoveWrite, things
<1>2. CASE ~UNCHANGED <<people, account>>
    <2>1. /\ IsMember(u) /\ Finish(r) /\ Awaits(r, "removing")
          /\ member' = [member EXCEPT ![u] = Outsider]
          /\ account' = AccessWithout(member[u].id)
          /\ removedAt' = [removedAt EXCEPT ![u] = Cardinality(Created)]
          /\ UNCHANGED <<joins, invite, crossed, row>>
        BY <1>2 DEF RemoveWrite
    <2>2. u \in Users
        BY <2>1 DEF Awaits, TypesInv, RequestsTyped
    <2>. HIDE DEF u
    <2>3. RequestsTyped' /\ InvitesTyped'
        BY <2>1, SameInvites, FinishTyped
    <2>4. \A v \in Users : member'[v] = IF v = u THEN Outsider ELSE member[v]
        BY <2>1 DEF TypesInv, HouseholdsTypeOK
    <2>5. IdsDistinct' /\ LiveIds' = LiveIds \ {member[u].id}
        BY <2>1, <2>2, <2>4 DEF TypesInv, IdsDistinct, LiveIds, IsMember, Outsider
    <2>6. account' \in [Accounts -> [status : {"NONE", "LIVE", "DELETED"}, restricted : BOOLEAN,
                                     access : SUBSET LiveIds']]
        <3>1. \A a \in Accounts : [account[a] EXCEPT !.access = @ \ {member[u].id}]
                   \in [status : {"NONE", "LIVE", "DELETED"}, restricted : BOOLEAN, access : SUBSET LiveIds']
            BY <2>5 DEF TypesInv, HouseholdsTypeOK
        <3>. QED BY <2>1, <3>1 DEF AccessWithout
    <2>7. removedAt' \in [Users -> 0..Cardinality(Invites)]
        BY <2>1, CreatedBound DEF TypesInv, HouseholdsTypeOK
    <2>8. member' \in [Users -> {Outsider} \cup [id : MemberIds, role : Roles]]
        BY <2>1 DEF TypesInv, HouseholdsTypeOK
    <2>9. HouseholdsTypeOK'
        BY <2>1, <2>6, <2>7, <2>8 DEF TypesInv, HouseholdsTypeOK
    <2>. QED BY <2>3, <2>5, <2>9 DEF TypesInv
<1>. QED BY <1>1, <1>2

\* What a handler of accounts writes leaves the household as it is.
LEMMA AccountWriteTypes ==
    ASSUME TypesInv, NEW r \in Requests, Finish(r), UNCHANGED people,
           account' \in [Accounts -> [status : {"NONE", "LIVE", "DELETED"}, restricted : BOOLEAN,
                                      access : SUBSET LiveIds]],
           row' \in [Rows -> [kind : Kinds \cup {"NONE", "GONE"}, account : Accounts \cup {NoAccount}]]
    PROVE  TypesInv'
<1>1. UNCHANGED <<member, joins, invite, removedAt, crossed>>
    BY DEF people
<1>2. RequestsTyped' /\ InvitesTyped'
    BY <1>1, SameInvites, FinishTyped
<1>3. LiveIds' = LiveIds /\ IdsDistinct'
    BY <1>1, SameMembers DEF TypesInv
<1>4. HouseholdsTypeOK'
    BY <1>1, <1>3 DEF TypesInv, HouseholdsTypeOK
<1>. QED BY <1>2, <1>3, <1>4 DEF TypesInv

\* Restricting, opening and deleting an account, and adding a row.
LEMMA AccountStepTypes ==
    ASSUME TypesInv, NEW r \in Requests,
           RestrictWrite(r) \/ UnrestrictWrite(r) \/ DeleteWrite(r) \/ AddWrite(r)
    PROVE  TypesInv'
<1>. DEFINE AccountType == [status : {"NONE", "LIVE", "DELETED"}, restricted : BOOLEAN, access : SUBSET LiveIds]
            RowType == [kind : Kinds \cup {"NONE", "GONE"}, account : Accounts \cup {NoAccount}]
            a == req[r].account
<1>1. account \in [Accounts -> AccountType] /\ row \in [Rows -> RowType]
    BY DEF TypesInv, HouseholdsTypeOK
<1>2. \A f \in [Accounts -> AccountType], b \in BOOLEAN, to \in SUBSET LiveIds :
          [f EXCEPT ![a].restricted = b, ![a].access = to] \in [Accounts -> AccountType]
    <2>1. \A f \in [Accounts -> AccountType], b \in BOOLEAN :
              [f EXCEPT ![a].restricted = b] \in [Accounts -> AccountType]
        OBVIOUS
    <2>2. \A f \in [Accounts -> AccountType], to \in SUBSET LiveIds :
              [f EXCEPT ![a].access = to] \in [Accounts -> AccountType]
        OBVIOUS
    <2>. HIDE DEF AccountType
    <2>. QED BY Zenon, <2>1, <2>2
<1>3. [status |-> "DELETED", restricted |-> FALSE, access |-> {}] \in AccountType
    OBVIOUS
<1>4. \A x \in Rows : Orphaned(x) \in RowType
    BY <1>1 DEF Orphaned
<1>5. ASSUME RestrictWrite(r)
      PROVE  TypesInv'
    <2>1. account' \in [Accounts -> AccountType]
        <3>. HIDE DEF AccountType
        <3>. QED BY Zenon, <1>1, <1>2, <1>5 DEF RestrictWrite
    <2>. QED BY <1>1, <1>5, <2>1, AccountWriteTypes DEF RestrictWrite
<1>6. ASSUME UnrestrictWrite(r)
      PROVE  TypesInv'
    <2>1. account' \in [Accounts -> AccountType]
        <3>. HIDE DEF AccountType
        <3>. QED BY Zenon, <1>1, <1>2, <1>6 DEF UnrestrictWrite
    <2>. QED BY <1>1, <1>6, <2>1, AccountWriteTypes DEF UnrestrictWrite
<1>7. ASSUME DeleteWrite(r)
      PROVE  TypesInv'
    <2>1. UNCHANGED people /\ Finish(r)
        BY <1>7 DEF DeleteWrite
    <2>2. account' \in [Accounts -> AccountType]
        BY <1>1, <1>3, <1>7 DEF DeleteWrite, things
    <2>3. row' \in [Rows -> RowType]
        BY <1>1, <1>4, <1>7 DEF DeleteWrite, things
    <2>. HIDE DEF AccountType, RowType
    <2>. QED BY <2>1, <2>2, <2>3, AccountWriteTypes DEF AccountType, RowType
<1>8. ASSUME AddWrite(r)
      PROVE  TypesInv'
    <2>1. req[r].kind \in Kinds /\ a \in Accounts \cup {NoAccount}
        BY <1>8 DEF AddWrite, Awaits, TypesInv, RequestsTyped, RequestType
    <2>2. [kind |-> req[r].kind, account |-> a] \in RowType
        BY <2>1
    <2>3. row' \in [Rows -> RowType]
        BY <1>1, <1>8, <2>2 DEF AddWrite
    <2>4. account' \in [Accounts -> AccountType] /\ UNCHANGED people /\ Finish(r)
        BY <1>1, <1>8 DEF AddWrite
    <2>. QED BY <2>3, <2>4, AccountWriteTypes
<1>. QED BY <1>5, <1>6, <1>7, <1>8

\* Making an account, which no request waits with.
LEMMA CreateAccountTypes ==
    ASSUME TypesInv, NEW u \in Users, NEW a \in Accounts, CreateAccount(u, a)
    PROVE  TypesInv'
<1>1. UNCHANGED <<member, joins, invite, removedAt, crossed, req, row>>
    BY DEF CreateAccount, people
<1>2. LiveIds' = LiveIds /\ IdsDistinct'
    BY <1>1, SameMembers DEF TypesInv
<1>3. account' \in [Accounts -> [status : {"NONE", "LIVE", "DELETED"}, restricted : BOOLEAN,
                                 access : SUBSET LiveIds']]
    BY <1>2 DEF CreateAccount, TypesInv, HouseholdsTypeOK
<1>4. HouseholdsTypeOK'
    BY <1>1, <1>3 DEF TypesInv, HouseholdsTypeOK
<1>5. RequestsTyped' /\ InvitesTyped'
    BY <1>1 DEF TypesInv, RequestsTyped, InvitesTyped, Created, Awaits
<1>. QED BY <1>2, <1>4, <1>5 DEF TypesInv

\* An empty household is well typed.
LEMMA InitTypes == HouseholdsInit => TypesInv
<1>. SUFFICES ASSUME HouseholdsInit PROVE TypesInv
    OBVIOUS
<1>1. MaxJoins \in Nat \ {0} /\ Cardinality(Invites) \in Nat
    BY HouseholdsAssumption, FS_CardinalityType
<1>2. \A u \in Users : member[u] = IF u = Creator THEN [id |-> 1, role |-> "OWNER"] ELSE Outsider
    BY DEF HouseholdsInit
<1>3. HouseholdsTypeOK
    <2>1. member \in [Users -> {Outsider} \cup [id : MemberIds, role : Roles]] /\ joins \in MemberIds
        BY <1>1 DEF HouseholdsInit, MemberIds, Roles
    <2>2. invite \in [Invites -> InviteType]
        BY DEF HouseholdsInit, InviteType, NoInvite
    <2>3. account \in [Accounts -> [status : {"NONE", "LIVE", "DELETED"}, restricted : BOOLEAN,
                                    access : SUBSET LiveIds]]
        BY DEF HouseholdsInit
    <2>4. row \in [Rows -> [kind : Kinds \cup {"NONE", "GONE"}, account : Accounts \cup {NoAccount}]]
        BY DEF HouseholdsInit
    <2>5. removedAt \in [Users -> 0..Cardinality(Invites)] /\ crossed \subseteq Users
        BY <1>1 DEF HouseholdsInit
    <2>. QED BY <2>1, <2>2, <2>3, <2>4, <2>5 DEF HouseholdsTypeOK, InviteType
<1>4. \A r \in Requests : req[r] = NewSlot /\ req[r].pc = "new"
    BY DEF HouseholdsInit, NewSlot
<1>5. RequestsTyped
    BY <1>4, NewSlotType DEF HouseholdsInit, RequestsTyped, Awaits
<1>6. InvitesTyped
    BY <1>4 DEF HouseholdsInit, InvitesTyped, Created, NoInvite
<1>7. IdsDistinct
    BY <1>2 DEF HouseholdsInit, IdsDistinct, IsMember, Outsider
<1>. QED BY <1>3, <1>5, <1>6, <1>7 DEF TypesInv

\* Every step keeps the types, one case for each read and write.
LEMMA NextTypes ==
    ASSUME TypesInv, [HouseholdsNext]_householdVars
    PROVE  TypesInv'
<1>1. ASSUME UNCHANGED householdVars
      PROVE  TypesInv'
    <2>1. UNCHANGED <<member, joins, invite, account, row, req, removedAt, crossed>>
        BY <1>1 DEF householdVars
    <2>2. LiveIds' = LiveIds /\ IdsDistinct'
        BY <2>1, SameMembers DEF TypesInv
    <2>3. HouseholdsTypeOK'
        BY <2>1, <2>2 DEF TypesInv, HouseholdsTypeOK
    <2>4. RequestsTyped' /\ InvitesTyped'
        BY <2>1 DEF TypesInv, RequestsTyped, InvitesTyped, Created, Awaits
    <2>. QED BY <2>2, <2>3, <2>4 DEF TypesInv
<1>2. ASSUME NEW r \in Requests, GivesUp(r)
      PROVE  TypesInv'
    BY <1>2, QuietFinishTypes DEF GivesUp
<1>. QED BY Zenon, <1>1, <1>2, HouseholdsSteps, InviteReadTypes, AcceptReadTypes, RemoveReadTypes,
            RestrictReadTypes, UnrestrictReadTypes, DeleteReadTypes, AddReadTypes, InviteRevokeTypes,
            InviteCreateTypes, AcceptMarkTypes, InviteRunsOutTypes, JoinTypes, RemoveWriteTypes,
            AccountStepTypes, CreateAccountTypes

-----------------------------------------------------------------------------
(* What a step does to each part of the state *)

\* What request q has asked for when it has just read.
HasRead(q) ==
    \/ \E o, u \in Users : RemoveRead(q, o, u) /\ Awaits(q, "removing")' /\ req'[q].user = u /\ req'[q].to = Owners
    \/ \E u \in Users, a \in Accounts, requested \in SUBSET LiveIds :
          /\ RestrictRead(q, u, a, requested) /\ Awaits(q, "restricting")'
          /\ req'[q].by = u /\ req'[q].mid = member[u].id /\ req'[q].to = RestrictIds(requested, member[u].id)
    \/ \E u \in Users, a \in Accounts :
          /\ DeleteRead(q, u, a) /\ Awaits(q, "deleting")'
          /\ req'[q].account = a /\ req'[q].to = {x \in Rows : row[x].kind # "NONE"}
    \/ \E i \in Invites : /\ AcceptRead(q, i) /\ req'[q].pc \in {"expiring", "already", "joining"}
                          /\ req'[q].user = invite[i].user /\ req'[q].inv = i
    \/ InviteRevoke(q) /\ Awaits(q, "creating")' /\ req'[q].user = req[q].user
    \/ req'[q].pc \in {"new", "revoking", "opening", "adding"}

\* What Ask writes.
LEMMA AskWrites ==
    ASSUME TypesInv, NEW r \in Requests, NEW pc \in Pcs, NEW s \in RequestType, Ask(r, pc, s)
    PROVE  /\ req' = [req EXCEPT ![r] = [s EXCEPT !.pc = pc]]
           /\ req'[r].pc = pc /\ req'[r].by = s.by /\ req'[r].mid = s.mid /\ req'[r].user = s.user
           /\ req'[r].inv = s.inv /\ req'[r].account = s.account /\ req'[r].to = s.to
<1>1. req' = [req EXCEPT ![r] = [s EXCEPT !.pc = pc]] /\ req \in [Requests -> RequestType]
    BY DEF Ask, TypesInv, RequestsTyped
<1>2. req'[r] = [s EXCEPT !.pc = pc]
    BY <1>1
<1>. QED BY <1>1, <1>2 DEF RequestType

\* The other requests stay as they are.
LEMMA OtherRequests ==
    ASSUME TypesInv, NEW r \in Requests, NEW s, req' = [req EXCEPT ![r] = s]
    PROVE  req'[r] = s /\ \A q \in Requests \ {r} : req'[q] = req[q]
BY DEF TypesInv, RequestsTyped

\* A request stays as it is, or has just read, or went back to "new".
LEMMA RequestsStep ==
    ASSUME TypesInv, [HouseholdsNext]_householdVars, NEW q \in Requests
    PROVE  req'[q] = req[q] \/ HasRead(q)
<1>1. ASSUME NEW r \in Requests, Finish(r)
      PROVE  req'[q] = req[q] \/ HasRead(q)
    BY <1>1, OtherRequests DEF Finish, HasRead, NewSlot
<1>2. ASSUME NEW r \in Requests, NEW o \in Users, NEW u \in Users, NEW role \in Roles, InviteRead(r, o, u, role)
      PROVE  req'[q] = req[q] \/ HasRead(q)
    <2>1. By(o) \in RequestType
        BY ByType DEF TypesInv
    <2>2. [By(o) EXCEPT !.user = u, !.role = role] \in RequestType
        BY <2>1 DEF RequestType
    <2>3. Ask(r, "revoking", [By(o) EXCEPT !.user = u, !.role = role])
        BY <1>2 DEF InviteRead
    <2>. QED BY <2>2, <2>3, AskWrites, OtherRequests DEF HasRead, Pcs
<1>3. ASSUME NEW r \in Requests, NEW i \in Invites, AcceptRead(r, i)
      PROVE  req'[q] = req[q] \/ HasRead(q)
    <2>. DEFINE u  == invite[i].user
                pc == IF invite[i].over THEN "expiring" ELSE IF IsMember(u) THEN "already" ELSE "joining"
                s  == [NewSlot EXCEPT !.by = u, !.user = u, !.inv = i]
    <2>1. i \in Created /\ u \in Users
        BY <1>3 DEF AcceptRead, Created, TypesInv, InvitesTyped
    <2>2. s \in RequestType /\ s.user = u /\ s.inv = i
        BY <2>1, NewSlotType DEF RequestType
    <2>3. Ask(r, pc, s) /\ pc \in {"expiring", "already", "joining"}
        BY <1>3 DEF AcceptRead
    <2>. HIDE DEF pc, s
    <2>. QED BY <1>3, <2>2, <2>3, AskWrites, OtherRequests DEF HasRead, Pcs
<1>4. ASSUME NEW r \in Requests, InviteRevoke(r)
      PROVE  req'[q] = req[q] \/ HasRead(q)
    <2>1. req[r] \in RequestType
        BY DEF TypesInv, RequestsTyped
    <2>2. [req[r] EXCEPT !.pc = "creating"].pc = "creating" /\ [req[r] EXCEPT !.pc = "creating"].user = req[r].user
        BY <2>1 DEF RequestType
    <2>3. req' = [req EXCEPT ![r] = [req[r] EXCEPT !.pc = "creating"]]
        BY <1>4 DEF InviteRevoke
    <2>. QED BY <1>4, <2>2, <2>3, OtherRequests DEF HasRead, Awaits
<1>5. ASSUME NEW r \in Requests, NEW o \in Users, NEW u \in Users, RemoveRead(r, o, u)
      PROVE  req'[q] = req[q] \/ HasRead(q)
    <2>. DEFINE s == [By(o) EXCEPT !.user = u, !.to = Owners]
    <2>1. By(o) \in RequestType /\ Owners \subseteq Users
        BY ByType DEF TypesInv, Owners
    <2>2. s \in RequestType /\ s.user = u /\ s.to = Owners
        BY <2>1 DEF RequestType
    <2>3. Ask(r, "removing", s)
        BY <1>5 DEF RemoveRead
    <2>. HIDE DEF s
    <2>. QED BY <1>5, <2>2, <2>3, AskWrites, OtherRequests DEF HasRead, Awaits, Pcs
<1>6. ASSUME NEW r \in Requests, NEW u \in Users, NEW a \in Accounts, NEW requested \in SUBSET LiveIds,
             RestrictRead(r, u, a, requested)
      PROVE  req'[q] = req[q] \/ HasRead(q)
    <2>. DEFINE to == RestrictIds(requested, member[u].id)
                s  == [By(u) EXCEPT !.account = a, !.to = to]
    <2>1. By(u) \in RequestType /\ By(u).by = u /\ By(u).mid = member[u].id
        BY ByType DEF TypesInv
    <2>2. to \subseteq MemberIds
        BY <1>6, MemberTypes DEF RestrictRead, MayUse, RestrictIds, TypesInv
    <2>3. Ask(r, "restricting", s)
        BY <1>6 DEF RestrictRead
    <2>. HIDE DEF to
    <2>4. s \in RequestType /\ s.by = u /\ s.mid = member[u].id /\ s.to = to
        BY <2>1, <2>2 DEF RequestType
    <2>. HIDE DEF s
    <2>. QED BY <1>6, <2>3, <2>4, AskWrites, OtherRequests DEF HasRead, Awaits, Pcs, to
<1>7. ASSUME NEW r \in Requests, NEW u \in Users, NEW a \in Accounts, UnrestrictRead(r, u, a)
      PROVE  req'[q] = req[q] \/ HasRead(q)
    <2>1. By(u) \in RequestType
        BY ByType DEF TypesInv
    <2>2. [By(u) EXCEPT !.account = a] \in RequestType
        BY <2>1 DEF RequestType
    <2>3. Ask(r, "opening", [By(u) EXCEPT !.account = a])
        BY <1>7 DEF UnrestrictRead
    <2>. QED BY <2>2, <2>3, AskWrites, OtherRequests DEF HasRead, Pcs
<1>8. ASSUME NEW r \in Requests, NEW u \in Users, NEW a \in Accounts, DeleteRead(r, u, a)
      PROVE  req'[q] = req[q] \/ HasRead(q)
    <2>. DEFINE s == [By(u) EXCEPT !.account = a, !.to = {x \in Rows : row[x].kind # "NONE"}]
    <2>1. By(u) \in RequestType
        BY ByType DEF TypesInv
    <2>2. s \in RequestType /\ s.account = a /\ s.to = {x \in Rows : row[x].kind # "NONE"}
        BY <2>1 DEF RequestType
    <2>3. Ask(r, "deleting", s)
        BY <1>8 DEF DeleteRead
    <2>. HIDE DEF s
    <2>. QED BY <1>8, <2>2, <2>3, AskWrites, OtherRequests DEF HasRead, Awaits, Pcs
<1>9. ASSUME NEW r \in Requests, NEW u \in Users, NEW a \in Accounts, NEW kind \in Kinds, AddRead(r, u, a, kind)
      PROVE  req'[q] = req[q] \/ HasRead(q)
    <2>1. By(u) \in RequestType
        BY ByType DEF TypesInv
    <2>2. [By(u) EXCEPT !.account = a, !.kind = kind] \in RequestType
        BY <2>1 DEF RequestType
    <2>3. Ask(r, "adding", [By(u) EXCEPT !.account = a, !.kind = kind])
        BY <1>9 DEF AddRead
    <2>. QED BY <2>2, <2>3, AskWrites, OtherRequests DEF HasRead, Pcs
<1>10. ASSUME (\E i \in Invites : InviteRunsOut(i)) \/ (\E u \in Users, a \in Accounts : CreateAccount(u, a))
              \/ UNCHANGED householdVars
       PROVE  req'[q] = req[q]
    BY <1>10 DEF InviteRunsOut, CreateAccount, householdVars
<1>11. ASSUME NEW r \in Requests, \/ \E i \in Invites : InviteCreate(r, i)
                                  \/ AcceptMark(r) \/ Join(r) \/ RemoveWrite(r) \/ RestrictWrite(r)
                                  \/ UnrestrictWrite(r) \/ DeleteWrite(r) \/ AddWrite(r) \/ GivesUp(r)
       PROVE  Finish(r)
    BY <1>11 DEF InviteCreate, AcceptMark, Join, RemoveWrite, RestrictWrite, UnrestrictWrite, DeleteWrite,
                 AddWrite, GivesUp
<1>. QED BY Zenon, <1>1, <1>2, <1>3, <1>4, <1>5, <1>6, <1>7, <1>8, <1>9, <1>10, <1>11, HouseholdsSteps

\* A membership begins with a fresh id by an acceptance, or ends by a removal.
JoinsAs(r, u) ==
    /\ Awaits(r, "joining") /\ Join(r) /\ req[r].user = u /\ ~IsMember(u)
    /\ joins \in Nat /\ joins' = joins + 1
    /\ member' = [member EXCEPT ![u] = [id |-> joins + 1, role |-> invite[req[r].inv].role]]
    /\ invite' = [invite EXCEPT ![req[r].inv].status = "ACCEPTED"]
    /\ crossed' = crossed \cup (IF invite[req[r].inv].status = "PENDING" THEN {} ELSE {u})
    /\ UNCHANGED <<removedAt, account>>

LeavesAs(r, u) ==
    /\ Awaits(r, "removing") /\ RemoveWrite(r) /\ req[r].user = u /\ IsMember(u) /\ UNCHANGED <<joins, invite, crossed>>
    /\ member' = [member EXCEPT ![u] = Outsider] /\ account' = AccessWithout(member[u].id)
    /\ removedAt' = [removedAt EXCEPT ![u] = Cardinality(Created)]

\* Those are the steps that change who is a member.
LEMMA MembersStep ==
    ASSUME TypesInv, [HouseholdsNext]_householdVars
    PROVE  \/ UNCHANGED <<member, joins, removedAt>>
           \/ \E r \in Requests, u \in Users : JoinsAs(r, u) \/ LeavesAs(r, u)
<1>1. ASSUME NEW r \in Requests, Join(r), ~UNCHANGED <<member, joins, removedAt>>
      PROVE  \E u \in Users : JoinsAs(r, u)
    <2>1. req[r].user \in Users /\ joins \in Nat
        BY <1>1, HouseholdsAssumption DEF Join, Awaits, TypesInv, RequestsTyped, HouseholdsTypeOK, MemberIds
    <2>. QED BY <1>1, <2>1 DEF Join, JoinsAs, people, things
<1>2. ASSUME NEW r \in Requests, RemoveWrite(r), ~UNCHANGED <<member, joins, removedAt>>
      PROVE  \E u \in Users : LeavesAs(r, u)
    <2>1. req[r].user \in Users
        BY <1>2 DEF RemoveWrite, Awaits, TypesInv, RequestsTyped
    <2>. QED BY <1>2, <2>1 DEF RemoveWrite, LeavesAs, people
<1>3. ASSUME NEW r \in Requests,
             \/ \E o, u \in Users, role \in Roles : InviteRead(r, o, u, role)
             \/ \E i \in Invites : InviteCreate(r, i) \/ AcceptRead(r, i)
             \/ \E o, u \in Users : RemoveRead(r, o, u)
             \/ InviteRevoke(r) \/ AcceptMark(r) \/ GivesUp(r)
      PROVE  UNCHANGED <<member, joins, removedAt>>
    BY <1>3 DEF InviteRead, InviteCreate, AcceptRead, RemoveRead, InviteRevoke, AcceptMark, GivesUp, people
<1>4. ASSUME NEW r \in Requests,
             \/ \E u \in Users, a \in Accounts, requested \in SUBSET LiveIds : RestrictRead(r, u, a, requested)
             \/ \E u \in Users, a \in Accounts : UnrestrictRead(r, u, a) \/ DeleteRead(r, u, a)
             \/ \E u \in Users, a \in Accounts, kind \in Kinds : AddRead(r, u, a, kind)
             \/ RestrictWrite(r) \/ UnrestrictWrite(r) \/ DeleteWrite(r) \/ AddWrite(r)
      PROVE  UNCHANGED <<member, joins, removedAt>>
    BY <1>4 DEF RestrictRead, UnrestrictRead, DeleteRead, AddRead, RestrictWrite, UnrestrictWrite, DeleteWrite,
                AddWrite, people
<1>5. ASSUME (\E i \in Invites : InviteRunsOut(i)) \/ (\E u \in Users, a \in Accounts : CreateAccount(u, a))
             \/ UNCHANGED householdVars
      PROVE  UNCHANGED <<member, joins, removedAt>>
    BY <1>5 DEF InviteRunsOut, CreateAccount, householdVars, people
<1>. QED BY Zenon, <1>1, <1>2, <1>3, <1>4, <1>5, HouseholdsSteps

\* What a membership is after a step.
LEMMA MembersAfter ==
    ASSUME TypesInv, [HouseholdsNext]_householdVars
    PROVE  /\ joins \in Nat /\ joins' \in {joins, joins + 1}
           /\ \A v \in Users : member'[v] = member[v] \/ member'[v].id \in {0, joins + 1}
<1>1. joins \in Nat /\ member \in [Users -> {Outsider} \cup [id : MemberIds, role : Roles]]
    BY HouseholdsAssumption DEF TypesInv, HouseholdsTypeOK, MemberIds
<1>2. ASSUME NEW r \in Requests, NEW u \in Users, JoinsAs(r, u) \/ LeavesAs(r, u)
      PROVE  /\ joins' \in {joins, joins + 1}
             /\ \A v \in Users : member'[v] = member[v] \/ member'[v].id \in {0, joins + 1}
    BY <1>1, <1>2 DEF JoinsAs, LeavesAs, Outsider
<1>. QED BY <1>1, <1>2, MembersStep

\* A row whose account is deleted: it held nothing, and is left without one.
RowOrphaned(r, x) ==
    /\ Awaits(r, "deleting") /\ row[x].account = req[r].account /\ account'[req[r].account].status = "DELETED"
    /\ row[x].kind \notin RestrictingKinds
    /\ row'[x].kind \in {row[x].kind, "GONE"} /\ row'[x].account = NoAccount

\* An account exists when something refers to it; a row is written when it is new,
\* and loses its account, or goes with it, when that is deleted and nothing holds it.
LEMMA RowsStep ==
    ASSUME TypesInv, [HouseholdsNext]_householdVars, NEW x \in Rows
    PROVE  \/ row'[x] = row[x]
           \/ row[x].kind = "NONE" /\ row'[x].kind \in Kinds /\ row'[x].account \in Accounts
           \/ \E r \in Requests : DeleteWrite(r) /\ RowOrphaned(r, x)
<1>1. row \in [Rows -> [kind : Kinds \cup {"NONE", "GONE"}, account : Accounts \cup {NoAccount}]]
    BY DEF TypesInv, HouseholdsTypeOK
<1>2. ASSUME NEW r \in Requests, AddWrite(r)
      PROVE  \/ row'[x] = row[x]
             \/ row[x].kind = "NONE" /\ row'[x].kind \in Kinds /\ row'[x].account \in Accounts
    <2>1. req[r].account \in Accounts /\ req[r].kind \in Kinds
        BY <1>2 DEF AddWrite, TypesInv, RequestsTyped
    <2>. QED BY <1>1, <1>2, <2>1 DEF AddWrite
<1>3. ASSUME NEW r \in Requests, DeleteWrite(r), row'[x] # row[x]
      PROVE  RowOrphaned(r, x)
    <2>1. account \in [Accounts -> [status : {"NONE", "LIVE", "DELETED"}, restricted : BOOLEAN,
                                    access : SUBSET LiveIds]]
        BY DEF TypesInv, HouseholdsTypeOK
    <2>2. /\ Awaits(r, "deleting") /\ account[req[r].account].status = "LIVE"
          /\ \A y \in Rows : row[y].account = req[r].account => row[y].kind \notin RestrictingKinds
          /\ account' = [account EXCEPT ![req[r].account] =
                             [status |-> "DELETED", restricted |-> FALSE, access |-> {}]]
          /\ row' = [y \in Rows |-> IF row[y].account = req[r].account THEN Orphaned(y) ELSE row[y]]
        BY <1>1, <1>3 DEF DeleteWrite, things
    <2>3. row[x].account = req[r].account /\ row'[x] = Orphaned(x)
        BY <2>2, <1>3
    <2>4. req[r].account \in Accounts
        BY <2>2 DEF Awaits, TypesInv, RequestsTyped
    <2>5. account'[req[r].account].status = "DELETED"
        BY <2>1, <2>2, <2>4
    <2>. QED BY <2>2, <2>3, <2>5 DEF RowOrphaned, Orphaned
<1>4. ASSUME NEW r \in Requests,
             \/ \E o, u \in Users, role \in Roles : InviteRead(r, o, u, role)
             \/ \E i \in Invites : InviteCreate(r, i) \/ AcceptRead(r, i)
             \/ \E o, u \in Users : RemoveRead(r, o, u)
             \/ InviteRevoke(r) \/ AcceptMark(r) \/ GivesUp(r) \/ Join(r) \/ RemoveWrite(r)
      PROVE  row' = row
    BY <1>4 DEF InviteRead, InviteCreate, AcceptRead, RemoveRead, InviteRevoke, AcceptMark, GivesUp, Join,
                RemoveWrite, things
<1>5. ASSUME NEW r \in Requests,
             \/ \E u \in Users, a \in Accounts, requested \in SUBSET LiveIds : RestrictRead(r, u, a, requested)
             \/ \E u \in Users, a \in Accounts : UnrestrictRead(r, u, a) \/ DeleteRead(r, u, a)
             \/ \E u \in Users, a \in Accounts, kind \in Kinds : AddRead(r, u, a, kind)
             \/ RestrictWrite(r) \/ UnrestrictWrite(r)
      PROVE  row' = row
    BY <1>5 DEF RestrictRead, UnrestrictRead, DeleteRead, AddRead, RestrictWrite, UnrestrictWrite, things
<1>6. ASSUME (\E i \in Invites : InviteRunsOut(i)) \/ (\E u \in Users, a \in Accounts : CreateAccount(u, a))
             \/ UNCHANGED householdVars
      PROVE  row' = row
    BY <1>6 DEF InviteRunsOut, CreateAccount, householdVars, things
<1>. QED BY Zenon, <1>2, <1>3, <1>4, <1>5, <1>6, HouseholdsSteps

\* No invite is made or opened.
InvitesOnlyClose ==
    \A j \in Invites : /\ invite'[j].user = invite[j].user
                       /\ \/ invite'[j].status = invite[j].status
                          \/ j \in Created /\ invite'[j].status \notin {"NONE", "PENDING"}

\* What that does to the sets of invites.
LEMMA OnlyClosed ==
    ASSUME InvitesOnlyClose
    PROVE  Created' = Created /\ \A u \in Users : PendingOf(u)' \subseteq PendingOf(u)
BY DEF InvitesOnlyClose, Created, PendingOf

\* Closing the open invites of a user leaves none.
LEMMA RevokeCloses ==
    ASSUME TypesInv, NEW r \in Requests, NEW u \in Users, InviteRevoke(r), req[r].user = u
    PROVE  InvitesOnlyClose /\ PendingOf(u)' = {}
<1>1. \A j \in Invites : invite[j] \in InviteType
    BY InviteTypes DEF TypesInv
<1>2. \A j \in Invites : invite'[j] = IF j \in PendingOf(u)
                                      THEN [invite[j] EXCEPT !.status = "REVOKED"] ELSE invite[j]
    BY RevokedCreated
<1>3. \A j \in PendingOf(u) : invite'[j].status = "REVOKED" /\ invite'[j].user = invite[j].user
    BY <1>1, <1>2 DEF PendingOf, InviteType
<1>4. \A j \in Invites \ PendingOf(u) : invite'[j] = invite[j]
    BY <1>2
<1>. QED BY <1>3, <1>4 DEF InvitesOnlyClose, PendingOf, Created

\* A step makes an invite or only closes some; who has been marked stays so.
LEMMA InvitesStep ==
    ASSUME TypesInv, [HouseholdsNext]_householdVars
    PROVE  /\ \/ \E r \in Requests, i \in Invites : InviteCreate(r, i)
              \/ InvitesOnlyClose
           /\ crossed \subseteq crossed'
<1>1. ASSUME invite' = invite
      PROVE  InvitesOnlyClose
    BY <1>1 DEF InvitesOnlyClose
<1>2. ASSUME NEW r \in Requests, InviteRevoke(r)
      PROVE  InvitesOnlyClose
    BY <1>2, RevokeCloses DEF InviteRevoke, Awaits, TypesInv, RequestsTyped
<1>3. ASSUME NEW i \in Created, NEW status \in {"ACCEPTED", "EXPIRED"},
             invite' = [invite EXCEPT ![i].status = status]
      PROVE  InvitesOnlyClose
    <2>1. i \in Invites /\ \A j \in Invites : invite[j] \in InviteType
        BY InviteTypes DEF TypesInv, Created
    <2>2. \A j \in Invites : invite'[j] = IF j = i THEN [invite[i] EXCEPT !.status = status] ELSE invite[j]
        BY <1>3, InviteTypes DEF TypesInv
    <2>3. [invite[i] EXCEPT !.status = status].user = invite[i].user
          /\ [invite[i] EXCEPT !.status = status].status = status
        BY <2>1 DEF InviteType
    <2>. QED BY <2>2, <2>3 DEF InvitesOnlyClose
<1>4. ASSUME NEW r \in Requests, AcceptMark(r)
      PROVE  InvitesOnlyClose
    <2>1. req[r].inv \in Created
        BY <1>4 DEF AcceptMark, TypesInv, InvitesTyped
    <2>. QED BY <1>3, <1>4, <2>1 DEF AcceptMark
<1>5. ASSUME NEW r \in Requests, Join(r)
      PROVE  InvitesOnlyClose
    <2>1. req[r].inv \in Created
        BY <1>5 DEF Join, Awaits, TypesInv, InvitesTyped
    <2>. QED BY <1>1, <1>3, <1>5, <2>1 DEF Join, people
<1>6. ASSUME NEW i \in Invites, InviteRunsOut(i)
      PROVE  InvitesOnlyClose
    <2>1. invite \in [Invites -> InviteType]
        BY InviteTypes DEF TypesInv
    <2>. QED BY <1>6, <2>1 DEF InviteRunsOut, InvitesOnlyClose, InviteType
<1>7. ASSUME NEW r \in Requests,
             \/ \E o, u \in Users, role \in Roles : InviteRead(r, o, u, role)
             \/ \E i \in Invites : AcceptRead(r, i)
             \/ \E o, u \in Users : RemoveRead(r, o, u)
             \/ RemoveWrite(r) \/ GivesUp(r)
      PROVE  invite' = invite /\ crossed' = crossed
    BY <1>7 DEF InviteRead, AcceptRead, RemoveRead, RemoveWrite, GivesUp, people
<1>8. ASSUME NEW r \in Requests,
             \/ \E u \in Users, a \in Accounts, requested \in SUBSET LiveIds : RestrictRead(r, u, a, requested)
             \/ \E u \in Users, a \in Accounts : UnrestrictRead(r, u, a) \/ DeleteRead(r, u, a)
             \/ \E u \in Users, a \in Accounts, kind \in Kinds : AddRead(r, u, a, kind)
             \/ RestrictWrite(r) \/ UnrestrictWrite(r) \/ DeleteWrite(r) \/ AddWrite(r)
      PROVE  invite' = invite /\ crossed' = crossed
    BY <1>8 DEF RestrictRead, UnrestrictRead, DeleteRead, AddRead, RestrictWrite, UnrestrictWrite, DeleteWrite,
                AddWrite, people
<1>9. ASSUME (\E u \in Users, a \in Accounts : CreateAccount(u, a)) \/ UNCHANGED householdVars
      PROVE  invite' = invite /\ crossed' = crossed
    BY <1>9 DEF CreateAccount, householdVars, people
<1>10. ASSUME NEW r \in Requests, \/ \E i \in Invites : InviteCreate(r, i)
                                  \/ InviteRevoke(r) \/ AcceptMark(r) \/ Join(r)
       PROVE  crossed \subseteq crossed'
    BY <1>10 DEF InviteCreate, InviteRevoke, AcceptMark, Join, people
<1>11. ASSUME NEW i \in Invites, InviteRunsOut(i)
       PROVE  crossed \subseteq crossed'
    BY <1>11 DEF InviteRunsOut
<1>. QED BY Zenon, <1>1, <1>2, <1>4, <1>5, <1>6, <1>7, <1>8, <1>9, <1>10, <1>11, HouseholdsSteps

-----------------------------------------------------------------------------
(* The rest of the invariant *)

\* RemovalsCounted is kept: only RemoveRead counts owners.
LEMMA NextRemovalsCounted ==
    ASSUME TypesInv, RemovalsCounted, [HouseholdsNext]_householdVars
    PROVE  RemovalsCounted'
<1>1. ASSUME NEW q \in Requests, Awaits(q, "removing")'
      PROVE  req'[q].user \notin req'[q].to \/ Cardinality(req'[q].to) > 1
    <2>1. CASE req'[q] = req[q]
        BY <1>1, <2>1 DEF RemovalsCounted, Awaits
    <2>2. CASE HasRead(q)
        BY <1>1, <2>2 DEF HasRead, RemoveRead, MayGo, Awaits
    <2>. QED BY <2>1, <2>2, RequestsStep
<1>. QED BY <1>1 DEF RemovalsCounted

\* RestrictorsNamed is kept: who asks is added, and no id is given twice.
LEMMA NextRestrictorsNamed ==
    ASSUME TypesInv, RestrictorsNamed, [HouseholdsNext]_householdVars
    PROVE  RestrictorsNamed'
<1>1. ASSUME NEW q \in Requests, Awaits(q, "restricting")'
      PROVE  /\ req'[q].mid \in req'[q].to /\ req'[q].mid \in 1..joins
             /\ \A u \in Users : IsMember(u) /\ member[u].id = req'[q].mid => u = req'[q].by
    <2>1. CASE req'[q] = req[q]
        BY <1>1, <2>1 DEF RestrictorsNamed, Awaits
    <2>2. CASE HasRead(q)
        <3>1. PICK u \in Users, a \in Accounts, requested \in SUBSET LiveIds :
                  /\ RestrictRead(q, u, a, requested)
                  /\ req'[q].by = u /\ req'[q].mid = member[u].id /\ req'[q].to = RestrictIds(requested, member[u].id)
            BY <1>1, <2>2 DEF HasRead, Awaits
        <3>2. IsMember(u)
            BY <3>1 DEF RestrictRead, MayUse
        <3>. QED BY <3>1, <3>2 DEF RestrictIds, TypesInv, IdsDistinct
    <2>. QED BY <2>1, <2>2, RequestsStep
<1>2. ASSUME NEW q \in Requests, Awaits(q, "restricting")', NEW u \in Users, IsMember(u)', member'[u].id = req'[q].mid
      PROVE  u = req'[q].by
    <2>1. member'[u] = member[u] /\ IsMember(u)
        BY <1>1, <1>2, MembersAfter DEF IsMember
    <2>. QED BY <1>1, <1>2, <2>1
<1>3. \A q \in Requests : Awaits(q, "restricting")' => req'[q].mid \in 1..joins'
    BY <1>1, MembersAfter
<1>. QED BY <1>1, <1>2, <1>3 DEF RestrictorsNamed

\* DeletionsCounted is kept: what was counted keeps its account.
LEMMA NextDeletionsCounted ==
    ASSUME TypesInv, DeletionsCounted, [HouseholdsNext]_householdVars
    PROVE  DeletionsCounted'
<1>1. ASSUME NEW q \in Requests, Awaits(q, "deleting")'
      PROVE  /\ req'[q].account \in Accounts
             /\ \A x \in Rows : x \in req'[q].to =>
                    row[x].kind # "NONE" /\ (row[x].kind \in CountedKinds => row[x].account # req'[q].account)
    <2>1. CASE req'[q] = req[q]
        BY <1>1, <2>1 DEF DeletionsCounted, Awaits
    <2>2. CASE HasRead(q)
        BY <1>1, <2>2 DEF HasRead, DeleteRead, InUse, Awaits
    <2>. QED BY <2>1, <2>2, RequestsStep
<1>2. ASSUME NEW q \in Requests, Awaits(q, "deleting")', NEW x \in Rows, x \in req'[q].to
      PROVE  row'[x].kind # "NONE" /\ (row'[x].kind \in CountedKinds => row'[x].account # req'[q].account)
    <2>1. /\ row[x].kind # "NONE" /\ (row[x].kind \in CountedKinds => row[x].account # req'[q].account)
          /\ req'[q].account # NoAccount
        BY <1>1, <1>2, HouseholdsAssumption
    <2>. QED BY <2>1, RowsStep DEF RowOrphaned, CountedKinds
<1>. QED BY <1>1, <1>2 DEF DeletionsCounted

\* RowsUnwritten is kept: what is written is of a kind.
LEMMA NextRowsUnwritten ==
    ASSUME TypesInv, RowsUnwritten, [HouseholdsNext]_householdVars
    PROVE  RowsUnwritten'
<1>1. ASSUME NEW x \in Rows, row'[x].kind = "NONE"
      PROVE  row'[x].account = NoAccount
    BY <1>1, RowsStep DEF RowsUnwritten, RowOrphaned, Kinds, CountedKinds, RestrictingKinds
<1>. QED BY <1>1 DEF RowsUnwritten

\* The invites that were made are the first ones.
LEMMA CreatedPrefix ==
    ASSUME NEW n \in 0..Cardinality(Invites), Created = 1..n
    PROVE  Cardinality(Created) = n /\ n \in Nat
<1>1. Cardinality(Invites) \in Nat
    BY HouseholdsAssumption, FS_CardinalityType
<1>. QED BY <1>1, FS_Interval

\* An invitation makes the next invite, for its user.
LEMMA CreatesNext ==
    ASSUME TypesInv, CreatedInOrder, NEW r \in Requests, NEW i \in Invites, InviteCreate(r, i)
    PROVE  /\ i = Cardinality(Created) + 1 /\ Created' = Created \cup {i} /\ Created' = 1..i
           /\ i \in 0..Cardinality(Invites)
           /\ req[r].user \in Users
           /\ \A u \in Users : PendingOf(u)' = IF u = req[r].user THEN PendingOf(u) \cup {i} ELSE PendingOf(u)
<1>1. PICK n \in 0..Cardinality(Invites) : Created = 1..n
    BY DEF CreatedInOrder
<1>2. n = Cardinality(Created) /\ Cardinality(Invites) \in Nat /\ Invites = 1..Cardinality(Invites)
    BY <1>1, CreatedPrefix, HouseholdsAssumption, FS_CardinalityType
<1>3. i \notin Created /\ \A j \in Invites : j < i => j \in Created
    BY DEF InviteCreate, Created
<1>4. i = n + 1 /\ i \in 0..Cardinality(Invites) /\ n \in Nat
    <2>. DEFINE m == Cardinality(Invites)
    <2>1. m \in Nat /\ Invites = 1..m /\ n \in 0..m
        BY <1>2
    <2>. HIDE DEF m
    <2>2. i \in 1..m /\ i \notin 1..n /\ \A j \in 1..m : j < i => j \in 1..n
        BY <1>1, <1>3, <2>1
    <2>3. i = n + 1
        BY <2>1, <2>2
    <2>. QED BY <2>1, <2>2, <2>3 DEF m
<1>5. \A j \in Invites : invite'[j] = IF j = i THEN [status |-> "PENDING", user |-> req[r].user,
                                                      role |-> req[r].role, over |-> FALSE] ELSE invite[j]
    BY InviteTypes DEF InviteCreate, TypesInv
<1>6. Created' = Created \cup {i}
    BY <1>5 DEF Created
<1>7. req[r].user \in Users
    BY DEF InviteCreate, Awaits, TypesInv, RequestsTyped
<1>8. \A u \in Users : PendingOf(u)' = IF u = req[r].user THEN PendingOf(u) \cup {i} ELSE PendingOf(u)
    BY <1>3, <1>5 DEF PendingOf, Created
<1>9. (1..n) \cup {i} = 1..i
    BY <1>4
<1>. QED BY <1>1, <1>2, <1>4, <1>6, <1>7, <1>8, <1>9

\* CreatedInOrder is kept.
LEMMA NextCreatedInOrder ==
    ASSUME TypesInv, CreatedInOrder, [HouseholdsNext]_householdVars
    PROVE  CreatedInOrder'
<1>1. Cardinality(Created) \in Nat /\ \A u \in Users : removedAt[u] \in Nat /\ removedAt[u] <= Cardinality(Created)
    <2>1. Cardinality(Invites) \in Nat
        BY HouseholdsAssumption, FS_CardinalityType
    <2>. QED BY <2>1, CreatedBound DEF CreatedInOrder, TypesInv, HouseholdsTypeOK
<1>2. CASE InvitesOnlyClose
    <2>1. Created' = Created
        BY <1>2, OnlyClosed
    <2>2. \A u \in Users : removedAt'[u] <= Cardinality(Created)
        <3>1. ASSUME NEW r \in Requests, NEW v \in Users, JoinsAs(r, v) \/ LeavesAs(r, v)
              PROVE  \A u \in Users : removedAt'[u] <= Cardinality(Created)
            BY <1>1, <3>1 DEF JoinsAs, LeavesAs, TypesInv, HouseholdsTypeOK
        <3>. QED BY <1>1, <3>1, MembersStep
    <2>. QED BY <2>1, <2>2 DEF CreatedInOrder
<1>3. ASSUME NEW r \in Requests, NEW i \in Invites, InviteCreate(r, i)
      PROVE  CreatedInOrder'
    <2>1. i = Cardinality(Created) + 1 /\ Created' = 1..i /\ i \in 0..Cardinality(Invites) /\ removedAt' = removedAt
        BY <1>3, CreatesNext DEF InviteCreate
    <2>2. Cardinality(Created') = i
        BY <1>1, <2>1, FS_Interval
    <2>. QED BY <1>1, <2>1, <2>2 DEF CreatedInOrder
<1>. QED BY <1>2, <1>3, InvitesStep

\* Who makes an invite while its user is one, or is about to be, marks the user.
LEMMA CreateMarks ==
    ASSUME TypesInv, NEW r \in Requests, NEW i \in Invites, InviteCreate(r, i),
           NEW u \in Users \ crossed', req[r].user = u
    PROVE  /\ ~IsMember(u) /\ Awaits(r, "creating") /\ req'[r] = NewSlot
           /\ \A s \in Requests : s # r => req'[s] = req[s]
           /\ \A s \in Requests : s # r /\ req[s].user = u => req[s].pc \notin {"creating", "joining"}
<1>1. ~IsMember(u) /\ \A s \in Requests \ {r} : ~(req[s].user = u /\ req[s].pc \in {"creating", "joining"})
    BY DEF InviteCreate
<1>2. req' = [req EXCEPT ![r] = NewSlot] /\ Awaits(r, "creating")
    BY DEF InviteCreate, Finish
<1>. QED BY <1>1, <1>2, OtherRequests

\* InvitesInStep is kept.
LEMMA NextInvitesInStep ==
    ASSUME TypesInv, CreatedInOrder, InvitesInStep, [HouseholdsNext]_householdVars
    PROVE  InvitesInStep'
<1>. SUFFICES ASSUME NEW u \in Users \ crossed'
              PROVE  /\ \A i, j \in PendingOf(u)' : i = j
                     /\ \A q \in Requests : Awaits(q, "creating")' /\ req'[q].user = u => PendingOf(u)' = {}
                     /\ member'[u].id # 0 => PendingOf(u)' = {}
                     /\ \A i \in PendingOf(u)' : i > removedAt'[u]
                     /\ \A q \in Requests : Awaits(q, "joining")' /\ req'[q].user = u => PendingOf(u)' \subseteq {req'[q].inv}
    BY DEF InvitesInStep, IsMember
<1>1. u \in Users \ crossed
    BY InvitesStep
<1>2. /\ \A i, j \in PendingOf(u) : i = j
      /\ \A q \in Requests : Awaits(q, "creating") /\ req[q].user = u => PendingOf(u) = {}
      /\ IsMember(u) => PendingOf(u) = {}
      /\ \A i \in PendingOf(u) : i > removedAt[u]
      /\ \A q \in Requests : Awaits(q, "joining") /\ req[q].user = u => PendingOf(u) \subseteq {req[q].inv}
    BY <1>1 DEF InvitesInStep
<1>3. CASE InvitesOnlyClose
    <2>1. PendingOf(u)' \subseteq PendingOf(u)
        BY <1>3, OnlyClosed
    <2>2. ASSUME NEW q \in Requests, Awaits(q, "creating")', req'[q].user = u
          PROVE  PendingOf(u)' = {}
        <3>1. CASE req'[q] = req[q]
            BY <1>2, <2>1, <2>2, <3>1 DEF Awaits
        <3>2. CASE HasRead(q)
            BY <2>2, <3>2, RevokeCloses DEF HasRead, Awaits
        <3>. QED BY <3>1, <3>2, RequestsStep
    <2>3. ASSUME NEW q \in Requests, Awaits(q, "joining")', req'[q].user = u
          PROVE  PendingOf(u)' \subseteq {req'[q].inv}
        <3>1. CASE req'[q] = req[q]
            BY <1>2, <2>1, <2>3, <3>1 DEF Awaits
        <3>2. CASE HasRead(q)
            <4>1. PICK i \in Invites : AcceptRead(q, i) /\ req'[q].user = invite[i].user /\ req'[q].inv = i
                BY <2>3, <3>2 DEF HasRead, Awaits
            <4>2. i \in PendingOf(u)
                BY <2>3, <4>1 DEF AcceptRead, PendingOf
            <4>. QED BY <1>2, <2>1, <4>1, <4>2
        <3>. QED BY <3>1, <3>2, RequestsStep
    <2>4. member'[u].id # 0 => PendingOf(u)' = {}
        <3>1. ASSUME NEW r \in Requests, JoinsAs(r, u)
              PROVE  PendingOf(u)' = {}
            <4>1. req[r].inv \in Created /\ PendingOf(u) \subseteq {req[r].inv}
                BY <1>2, <3>1 DEF JoinsAs, Awaits, TypesInv, InvitesTyped
            <4>2. invite'[req[r].inv].status = "ACCEPTED"
                BY <3>1, <4>1, InviteTypes DEF JoinsAs, TypesInv, InviteType, Created
            <4>. QED BY <2>1, <4>1, <4>2 DEF PendingOf
        <3>2. ASSUME NEW r \in Requests, NEW v \in Users, JoinsAs(r, v) \/ LeavesAs(r, v), ~JoinsAs(r, u)
              PROVE  member'[u].id # 0 => IsMember(u)
            BY <3>2 DEF JoinsAs, LeavesAs, IsMember, Outsider, TypesInv, HouseholdsTypeOK
        <3>. QED BY <1>2, <2>1, <3>1, <3>2, MembersStep DEF IsMember
    <2>5. \A i \in PendingOf(u)' : i > removedAt'[u]
        <3>1. ASSUME NEW r \in Requests, LeavesAs(r, u)
              PROVE  PendingOf(u)' = {}
            BY <1>2, <2>1, <3>1 DEF LeavesAs
        <3>2. ASSUME NEW r \in Requests, NEW v \in Users, JoinsAs(r, v) \/ LeavesAs(r, v), ~LeavesAs(r, u)
              PROVE  removedAt'[u] = removedAt[u]
            BY <3>2 DEF JoinsAs, LeavesAs, TypesInv, HouseholdsTypeOK
        <3>. QED BY <1>2, <2>1, <3>1, <3>2, MembersStep
    <2>. QED BY <1>2, <2>1, <2>2, <2>3, <2>4, <2>5
<1>4. ASSUME NEW r \in Requests, NEW i \in Invites, InviteCreate(r, i)
      PROVE  /\ \A k, j \in PendingOf(u)' : k = j
             /\ \A q \in Requests : Awaits(q, "creating")' /\ req'[q].user = u => PendingOf(u)' = {}
             /\ member'[u].id # 0 => PendingOf(u)' = {}
             /\ \A k \in PendingOf(u)' : k > removedAt'[u]
             /\ \A q \in Requests : Awaits(q, "joining")' /\ req'[q].user = u => PendingOf(u)' \subseteq {req'[q].inv}
    <2>1. member' = member /\ removedAt' = removedAt
        BY <1>4 DEF InviteCreate
    <2>2. CASE req[r].user = u
        <3>1. PendingOf(u)' = {i}
            BY <1>2, <1>4, <2>2, CreatesNext DEF InviteCreate
        <3>2. i > removedAt[u]
            <4>1. i = Cardinality(Created) + 1 /\ removedAt[u] <= Cardinality(Created)
                BY <1>4, CreatesNext DEF CreatedInOrder
            <4>2. Cardinality(Created) \in Nat /\ removedAt[u] \in Int
                BY CreatedBound, HouseholdsAssumption, FS_CardinalityType DEF TypesInv, HouseholdsTypeOK
            <4>. QED BY <4>1, <4>2
        <3>3. ASSUME NEW q \in Requests, req'[q].user = u, req'[q].pc \in {"creating", "joining"}
              PROVE  FALSE
            BY <1>4, <2>2, <3>3, CreateMarks DEF NewSlot
        <3>. QED BY <1>4, <2>1, <2>2, <3>1, <3>2, <3>3, CreateMarks DEF Awaits, IsMember
    <2>3. CASE req[r].user # u
        <3>1. PendingOf(u)' = PendingOf(u)
            BY <1>4, <2>3, CreatesNext
        <3>2. req' = [req EXCEPT ![r] = NewSlot]
            BY <1>4 DEF InviteCreate, Finish
        <3>3. \A q \in Requests : req'[q].pc = "new" \/ req'[q] = req[q]
            BY <3>2, OtherRequests DEF NewSlot
        <3>. QED BY <1>2, <2>1, <3>1, <3>3 DEF Awaits, IsMember
    <2>. QED BY <2>2, <2>3
<1>. QED BY <1>3, <1>4, InvitesStep

-----------------------------------------------------------------------------
(* The theorems *)

\* The invariant holds of a new household.
LEMMA InitInv == HouseholdsInit => HouseholdsInv
<1>. SUFFICES ASSUME HouseholdsInit PROVE HouseholdsInv
    OBVIOUS
<1>1. \A r \in Requests : Awaits(r, "new")
    BY DEF HouseholdsInit, NewSlot, Awaits
<1>2. Created = {} /\ \A u \in Users : PendingOf(u) = {} /\ removedAt[u] = 0
    BY DEF HouseholdsInit, Created, PendingOf, NoInvite
<1>3. TypesInv
    BY InitTypes
<1>4. RemovalsCounted /\ RestrictorsNamed /\ DeletionsCounted /\ RowsUnwritten
    BY <1>1 DEF RemovalsCounted, RestrictorsNamed, DeletionsCounted, RowsUnwritten, Awaits, HouseholdsInit
<1>5. CreatedInOrder
    <2>1. Cardinality(Created) = 0 /\ Cardinality(Invites) \in Nat
        BY <1>2, FS_EmptySet, HouseholdsAssumption, FS_CardinalityType
    <2>2. 0 \in 0..Cardinality(Invites) /\ 1..0 = {}
        BY <2>1
    <2>. QED BY <1>2, <2>1, <2>2 DEF CreatedInOrder
<1>6. InvitesInStep
    BY <1>1, <1>2 DEF InvitesInStep, Awaits
<1>. QED BY <1>3, <1>4, <1>5, <1>6 DEF HouseholdsInv

\* Every behaviour keeps the invariant.
LEMMA HouseholdsInvariant == HouseholdsSpec => []HouseholdsInv
<1>1. HouseholdsInv /\ [HouseholdsNext]_householdVars => HouseholdsInv'
    BY NextTypes, NextRemovalsCounted, NextRestrictorsNamed, NextDeletionsCounted, NextRowsUnwritten,
       NextCreatedInOrder, NextInvitesInStep DEF HouseholdsInv
<1>. QED BY <1>1, InitInv, PTL DEF HouseholdsSpec

\* Every request finds rows, invites and memberships of their types, and an account
\* is shown to members there are (household.prisma, accounts.prisma).
THEOREM HouseholdsTypesHold == HouseholdsSpec => []HouseholdsTypeOK
<1>1. HouseholdsInv => HouseholdsTypeOK
    BY DEF HouseholdsInv, TypesInv
<1>. QED BY <1>1, HouseholdsInvariant, PTL

\* The step that takes the last owner away is a removal that counted others
\* (removeMember): the owners it counted are two at least or do not hold who goes.
LEMMA OwnerlessStep ==
    ASSUME HouseholdsInv, [HouseholdsNext]_householdVars, Owners # {}, Owners' = {}
    PROVE  \E r \in Requests : Awaits(r, "removing") /\ req[r].to # Owners
<1>1. ~UNCHANGED <<member, joins, removedAt>>
    BY DEF Owners, IsMember
<1>2. PICK r \in Requests, u \in Users : JoinsAs(r, u) \/ LeavesAs(r, u)
    BY <1>1, MembersStep DEF HouseholdsInv
<1>3. \A v \in Users \ {u} : member'[v] = member[v]
    BY <1>2 DEF JoinsAs, LeavesAs, HouseholdsInv, TypesInv, HouseholdsTypeOK
<1>4. Owners = {u}
    BY <1>3 DEF Owners, IsMember
<1>5. LeavesAs(r, u)
    <2>1. IsMember(u)
        BY <1>4 DEF Owners
    <2>. QED BY <1>2, <2>1 DEF JoinsAs
<1>6. Awaits(r, "removing") /\ req[r].user = u /\ (u \notin req[r].to \/ Cardinality(req[r].to) > 1)
    BY <1>5 DEF LeavesAs, HouseholdsInv, RemovalsCounted
<1>7. req[r].to # {u}
    <2>1. Cardinality({u}) = 1
        BY FS_Singleton
    <2>. QED BY <1>6, <2>1
<1>. QED BY <1>4, <1>6, <1>7

\* The household loses its last owner only by a removal whose count of the owners is
\* out of date.
THEOREM OwnerStays == HouseholdsSpec => OwnerlessOnlyByStaleRemoval
<1>1. HouseholdsInv /\ [HouseholdsNext]_householdVars =>
          [Owners # {} /\ Owners' = {} => \E r \in Requests : Awaits(r, "removing") /\ req[r].to # Owners]_householdVars
    BY OwnerlessStep
<1>. QED BY <1>1, HouseholdsInvariant, PTL DEF HouseholdsSpec, OwnerlessOnlyByStaleRemoval

\* Who joins accepts an open invite, or is marked; an open invite is the only one,
\* and was made after the last removal of its user.
LEMMA JoinsByLaterInvite ==
    ASSUME HouseholdsInv, [HouseholdsNext]_householdVars, NEW r \in Requests,
           Awaits(r, "joining"), ~IsMember(req[r].user), member'[req[r].user].id # 0
    PROVE  req[r].inv > removedAt[req[r].user] \/ req[r].user \in crossed'
<1>. DEFINE u == req[r].user
<1>. USE DEF HouseholdsInv
<1>1. u \in Users
    BY DEF Awaits, TypesInv, RequestsTyped
<1>. HIDE DEF u
<1>2. PICK q \in Requests, v \in Users : JoinsAs(q, v) \/ LeavesAs(q, v)
    BY MembersStep DEF IsMember, u
<1>3. JoinsAs(q, v) /\ v = u
    BY <1>1, <1>2 DEF JoinsAs, LeavesAs, IsMember, Outsider, TypesInv, HouseholdsTypeOK, u
<1>. SUFFICES ASSUME u \notin crossed' PROVE req[r].inv > removedAt[u]
    BY DEF u
<1>4. invite[req[q].inv].status = "PENDING" /\ u \in Users \ crossed
    BY <1>1, <1>3 DEF JoinsAs
<1>5. req[q].inv \in PendingOf(u)
    BY <1>3, <1>4 DEF JoinsAs, Awaits, PendingOf, TypesInv, InvitesTyped, Created
<1>6. PendingOf(u) \subseteq {req[r].inv} /\ \A i \in PendingOf(u) : i > removedAt[u]
    BY <1>4 DEF InvitesInStep, u
<1>. QED BY <1>5, <1>6

\* Who was removed comes back only by a later invite, unless invitations or an
\* acceptance overlapped (invite() closes the earlier ones, the removal none).
THEOREM RemovedComeBackByInvite == HouseholdsSpec => RemovedStaysOut
<1>1. HouseholdsInv /\ [HouseholdsNext]_householdVars =>
          [\A r \in Requests : Awaits(r, "joining") /\ ~IsMember(req[r].user) /\ member'[req[r].user].id # 0 =>
               \/ req[r].inv > removedAt[req[r].user]
               \/ req[r].user \in crossed']_householdVars
    BY JoinsByLaterInvite
<1>. QED BY <1>1, HouseholdsInvariant, PTL DEF HouseholdsSpec, RemovedStaysOut

\* A deletion that takes the account of a row away had not counted the row, if the row
\* is of a kind it counts.
LEMMA RowLosesAccount ==
    ASSUME HouseholdsInv, [HouseholdsNext]_householdVars, NEW x \in Rows,
           row[x].account # NoAccount, row'[x].account # row[x].account
    PROVE  \E r \in Requests :
               /\ Awaits(r, "deleting") /\ req[r].account = row[x].account
               /\ account'[req[r].account].status = "DELETED"
               /\ row[x].kind \notin RestrictingKinds
               /\ row[x].kind \in CountedKinds => x \notin req[r].to
<1>1. row[x].kind # "NONE"
    BY DEF HouseholdsInv, RowsUnwritten
<1>2. PICK r \in Requests : RowOrphaned(r, x)
    BY <1>1, RowsStep DEF HouseholdsInv
<1>3. row[x].kind \in CountedKinds => x \notin req[r].to
    BY <1>2 DEF RowOrphaned, HouseholdsInv, DeletionsCounted
<1>. QED BY <1>2, <1>3 DEF RowOrphaned

\* A row loses its account only when the account is deleted; an entry only when it was
\* written after the deletion had counted the entries, a bill, an import or a mapping
\* whenever, a plan never (accounts.service.ts, remove, and the foreign keys).
THEOREM RowsKeepTheirAccount == HouseholdsSpec => RowsLoseAccountOnlyByStaleCount
<1>1. HouseholdsInv /\ [HouseholdsNext]_householdVars =>
          [\A x \in Rows : row[x].account # NoAccount /\ row'[x].account # row[x].account =>
               \E r \in Requests :
                   /\ Awaits(r, "deleting") /\ req[r].account = row[x].account
                   /\ account'[req[r].account].status = "DELETED"
                   /\ row[x].kind \notin RestrictingKinds
                   /\ row[x].kind \in CountedKinds => x \notin req[r].to]_householdVars
    BY RowLosesAccount
<1>. QED BY <1>1, HouseholdsInvariant, PTL DEF HouseholdsSpec, RowsLoseAccountOnlyByStaleCount

-----------------------------------------------------------------------------
(* Who sees an account *)

\* An account's access rows change when a member goes, and when the account is
\* restricted, opened or deleted.
LEMMA AccountsStep ==
    ASSUME TypesInv, [HouseholdsNext]_householdVars, NEW a \in Accounts, account'[a].status = "LIVE"
    PROVE  \/ account[a].status = "NONE"
           \/ account'[a] = account[a]
           \/ ~account'[a].restricted
           \/ \E r \in Requests : RestrictWrite(r) /\ account'[a].access = req[r].to /\ req[r].to \subseteq LiveIds
           \/ \E r \in Requests, u \in Users :
                  /\ LeavesAs(r, u) /\ account'[a].access = account[a].access \ {member[u].id}
                  /\ account'[a].restricted = account[a].restricted
<1>. DEFINE AccountType == [status : {"NONE", "LIVE", "DELETED"}, restricted : BOOLEAN, access : SUBSET LiveIds]
            Said == \/ account[a].status = "NONE"
                    \/ account'[a] = account[a]
                    \/ ~account'[a].restricted
                    \/ \E r \in Requests : RestrictWrite(r) /\ account'[a].access = req[r].to /\ req[r].to \subseteq LiveIds
                    \/ \E r \in Requests, u \in Users :
                           /\ LeavesAs(r, u) /\ account'[a].access = account[a].access \ {member[u].id}
                           /\ account'[a].restricted = account[a].restricted
<1>1. account \in [Accounts -> AccountType]
    BY DEF TypesInv, HouseholdsTypeOK
<1>2. ASSUME NEW r \in Requests, RestrictWrite(r)
      PROVE  Said
    <2>1. account'[a] = account[a] \/ /\ account'[a] = [account[a] EXCEPT !.restricted = TRUE, !.access = req[r].to]
                                      /\ req[r].to \subseteq LiveIds
        BY <1>1, <1>2 DEF RestrictWrite
    <2>2. [account[a] EXCEPT !.restricted = TRUE, !.access = req[r].to].access = req[r].to
        BY <1>1
    <2>. QED BY <1>2, <2>1, <2>2
<1>3. ASSUME NEW r \in Requests, UnrestrictWrite(r)
      PROVE  Said
    <2>1. account'[a] = account[a] \/ account'[a] = [account[a] EXCEPT !.restricted = FALSE, !.access = {}]
        BY <1>1, <1>3 DEF UnrestrictWrite
    <2>2. [account[a] EXCEPT !.restricted = FALSE, !.access = {}].restricted = FALSE
        BY <1>1
    <2>. QED BY <2>1, <2>2
<1>4. ASSUME NEW r \in Requests, DeleteWrite(r)
      PROVE  Said
    <2>1. account'[a] = account[a] \/ account'[a].status = "DELETED"
        BY <1>1, <1>4 DEF DeleteWrite, things
    <2>. QED BY <2>1
<1>5. ASSUME NEW r \in Requests, RemoveWrite(r)
      PROVE  Said
    <2>1. CASE account' = account
        BY <2>1
    <2>2. CASE account' # account
        <3>1. req[r].user \in Users /\ LeavesAs(r, req[r].user)
            BY <1>5, <2>2 DEF RemoveWrite, LeavesAs, Awaits, TypesInv, RequestsTyped
        <3>2. account'[a] = [account[a] EXCEPT !.access = @ \ {member[req[r].user].id}]
            BY <3>1 DEF LeavesAs, AccessWithout
        <3>3. account[a] \in AccountType
            BY <1>1
        <3>4. account'[a].access = account[a].access \ {member[req[r].user].id}
              /\ account'[a].restricted = account[a].restricted
            BY <3>2, <3>3
        <3>. HIDE DEF AccountType
        <3>. QED BY <3>1, <3>4
    <2>. QED BY <2>1, <2>2
<1>6. ASSUME NEW u \in Users, NEW b \in Accounts, CreateAccount(u, b)
      PROVE  Said
    BY <1>1, <1>6 DEF CreateAccount
<1>7. ASSUME NEW r \in Requests,
             \/ \E o, u \in Users, role \in Roles : InviteRead(r, o, u, role)
             \/ \E i \in Invites : InviteCreate(r, i) \/ AcceptRead(r, i)
             \/ \E o, u \in Users : RemoveRead(r, o, u)
             \/ InviteRevoke(r) \/ AcceptMark(r) \/ GivesUp(r) \/ Join(r)
      PROVE  account' = account
    BY <1>7 DEF InviteRead, InviteCreate, AcceptRead, RemoveRead, InviteRevoke, AcceptMark, GivesUp, Join, things
<1>8. ASSUME NEW r \in Requests,
             \/ \E u \in Users, b \in Accounts, requested \in SUBSET LiveIds : RestrictRead(r, u, b, requested)
             \/ \E u \in Users, b \in Accounts : UnrestrictRead(r, u, b) \/ DeleteRead(r, u, b)
             \/ \E u \in Users, b \in Accounts, kind \in Kinds : AddRead(r, u, b, kind)
             \/ AddWrite(r)
      PROVE  account' = account
    BY <1>8 DEF RestrictRead, UnrestrictRead, DeleteRead, AddRead, AddWrite, things
<1>9. ASSUME (\E i \in Invites : InviteRunsOut(i)) \/ UNCHANGED householdVars
      PROVE  account' = account
    BY <1>9 DEF InviteRunsOut, householdVars, things
<1>10. account' = account => Said
    OBVIOUS
<1>11. Said
    <2>. HIDE DEF Said, AccountType
    <2>. QED BY Zenon, <1>2, <1>3, <1>4, <1>5, <1>6, <1>7, <1>8, <1>9, <1>10, HouseholdsSteps
<1>. QED BY <1>11

\* Who loses sight of an account has it taken away by somebody else: who restricts it
\* keeps his own membership on it.
LEMMA SightTakenByOthers ==
    ASSUME HouseholdsInv, [HouseholdsNext]_householdVars, NEW a \in Accounts, NEW u \in Users,
           account[a].status = "LIVE", account'[a].status = "LIVE",
           IsMember(u), Sees(member[u].id, a), member'[u] = member[u],
           account'[a].restricted, member[u].id \notin account'[a].access
    PROVE  \E r \in Requests : Awaits(r, "restricting") /\ req[r].by # u
<1>. USE DEF HouseholdsInv
<1>1. CASE account'[a] = account[a]
    BY <1>1 DEF Sees
<1>2. ASSUME NEW r \in Requests, RestrictWrite(r), account'[a].access = req[r].to, req[r].to \subseteq LiveIds
      PROVE  Awaits(r, "restricting") /\ req[r].by # u
    <2>1. Awaits(r, "restricting") /\ req[r].mid \in req[r].to
        BY <1>2 DEF RestrictWrite, RestrictorsNamed
    <2>2. PICK v \in Users : IsMember(v) /\ member[v].id = req[r].mid
        BY <1>2, <2>1 DEF LiveIds
    <2>3. v = req[r].by
        BY <2>1, <2>2 DEF RestrictorsNamed
    <2>. QED BY <1>2, <2>1, <2>2, <2>3
<1>3. ASSUME NEW r \in Requests, NEW v \in Users, LeavesAs(r, v),
             account'[a].access = account[a].access \ {member[v].id}, account'[a].restricted = account[a].restricted
      PROVE  FALSE
    <2>1. v # u
        BY <1>3 DEF LeavesAs, IsMember, Outsider, TypesInv, HouseholdsTypeOK
    <2>2. member[v].id # member[u].id
        BY <1>3, <2>1 DEF TypesInv, IdsDistinct
    <2>. QED BY <1>3, <2>2 DEF Sees
<1>. QED BY <1>1, <1>2, <1>3, AccountsStep

\* An account goes out of everybody's sight only when a member goes.
LEMMA LastSightGoes ==
    ASSUME HouseholdsInv, [HouseholdsNext]_householdVars, NEW a \in Accounts,
           account[a].status = "LIVE", account'[a].status = "LIVE",
           account'[a].restricted, account'[a].access = {}, account[a].access # {}
    PROVE  LiveIds' # LiveIds
<1>. USE DEF HouseholdsInv
<1>1. \A r \in Requests : ~(RestrictWrite(r) /\ account'[a].access = req[r].to)
    BY DEF RestrictWrite, RestrictorsNamed
<1>2. PICK r \in Requests, u \in Users : LeavesAs(r, u)
    BY <1>1, AccountsStep
<1>3. member[u].id \in LiveIds
    BY <1>2 DEF LeavesAs, LiveIds
<1>4. \A v \in Users : member'[v] = IF v = u THEN Outsider ELSE member[v]
    BY <1>2 DEF LeavesAs, TypesInv, HouseholdsTypeOK
<1>5. member[u].id \notin LiveIds'
    BY <1>2, <1>4 DEF LeavesAs, LiveIds, IsMember, Outsider, TypesInv, IdsDistinct
<1>. QED BY <1>3, <1>5

\* A member loses sight of an account only because somebody else restricts it
\* (resolveRestrictMemberIds), and everybody only by a removal.
THEOREM SightKept == HouseholdsSpec => SightLostOnlyByOthers
<1>. DEFINE Step ==
        /\ HouseholdsTypeOK'
        /\ \A a \in Accounts : account[a].status = "LIVE" /\ account'[a].status = "LIVE" =>
            /\ \A u \in Users : IsMember(u) /\ Sees(member[u].id, a) /\ member'[u] = member[u]
                    /\ account'[a].restricted /\ member[u].id \notin account'[a].access
                    => \E r \in Requests : Awaits(r, "restricting") /\ req[r].by # u
            /\ (account'[a].restricted /\ account'[a].access = {}) /\ account[a].access # {}
                    => LiveIds' # LiveIds
<1>1. HouseholdsInv /\ [HouseholdsNext]_householdVars => Step
    BY NextTypes, SightTakenByOthers, LastSightGoes DEF HouseholdsInv, TypesInv
<1>2. HouseholdsInv /\ [HouseholdsNext]_householdVars => [Step]_householdVars
    BY <1>1
<1>. QED BY <1>2, HouseholdsInvariant, PTL DEF HouseholdsSpec, SightLostOnlyByOthers

-----------------------------------------------------------------------------
(* Greatest and least elements *)

\* A set of naturals has a least element.
LEMMA Least ==
    ASSUME NEW T \in SUBSET Nat, T # {}
    PROVE  \E x \in T : \A y \in T : x <= y
<1>1. \A x, y \in Nat : x < y <=> <<x, y>> \in OpToRel(<, Nat)
    BY DEF OpToRel
<1>2. \E R, S : S = Nat /\ IsWellFoundedOn(R, S) /\ \A x, y \in Nat : x < y <=> <<x, y>> \in R
    BY Zenon, <1>1, NatLessThanWellFounded
<1>3. PICK R, S : S = Nat /\ IsWellFoundedOn(R, S) /\ \A x, y \in Nat : x < y <=> <<x, y>> \in R
    BY <1>2
<1>4. IsWellFoundedOn(R, S) /\ T \subseteq S
    BY <1>3
<1>5. PICK x \in T : \A y \in T : ~(<<y, x>> \in R)
    BY Zenon, <1>4, WFMin
<1>6. \A y \in T : ~(y < x)
    BY <1>3, <1>5
<1>. QED BY <1>6

\* Max and Min are found in a bounded set of naturals.
LEMMA MaxFound ==
    ASSUME NEW n \in Nat, NEW S \in SUBSET (0..n), S # {}
    PROVE  Max(S) \in S /\ \A x \in S : x <= Max(S)
<1>. DEFINE T == {n - x : x \in S}
<1>1. T \in SUBSET Nat /\ T # {}
    <2>1. \A x \in S : n - x \in Nat
        OBVIOUS
    <2>. QED BY <2>1
<1>2. PICK y \in T : \A z \in T : y <= z
    BY <1>1, Least
<1>3. PICK x \in S : y = n - x
    OBVIOUS
<1>4. \A z \in S : x >= z
    BY <1>2, <1>3
<1>. HIDE DEF T
<1>. QED BY <1>4 DEF Max

\* So is the least.
LEMMA MinFound ==
    ASSUME NEW S \in SUBSET Nat, S # {}
    PROVE  Min(S) \in S /\ \A x \in S : Min(S) <= x
BY Least DEF Min

-----------------------------------------------------------------------------
(* The inductive invariant *)

\* The unique index: no two linked rows of a mode stand on one date.
LinkedApart ==
    \A o, p \in occ : o.linked /\ p.linked /\ o.mode = p.mode /\ o.date = p.date => o = p

\* A linked row stands on a date that was reached.
RowsStand == \A o \in occ : o.linked => Reached(o.mode, o.date)

\* A loop is at a date that follows from one that was reached, while there is a
\* recurrence to generate for; when there is none no row is linked.
LoopsStepped ==
    /\ SkippedOnlyByFailure
    /\ ~Alive => \A o \in occ : ~o.linked

\* A removal under way holds the scheduled rows, but for those inserted since.
RemovalSound ==
    /\ removal \in [pc : {"no", "locked"}, locked : SUBSET occ]
    /\ removal.pc = "no" => removal.locked = {}
    /\ \A o \in removal.locked : o.status = "SCHEDULED"
    /\ removal.pc = "locked" => \A o \in occ \ removal.locked : o.status = "SCHEDULED" => o.late

RecurrencesInv ==
    /\ RecurrencesTypeOK /\ IsFiniteSet(occ) /\ moves \in Nat
    /\ LinkedApart /\ RowsStand /\ LoopsStepped /\ RemovalSound /\ ScheduledLeftOnlyByOverlap

\* A bill is paid or cancelled, or pending again.
Settled(o) == \E status \in {"PENDING", "PAID", "CANCELED"} : SettleBill(o, status)

\* The cases of a step.
LEMMA RecurrencesSteps ==
    ASSUME [RecurrencesNext]_recurrenceVars
    PROVE  \/ \E g \in Generators : \/ JobStarts(g) \/ Resume(g) \/ GenerateRead(g) \/ GenerateOne(g)
                                    \/ GenerateFails(g) \/ Restart(g)
           \/ Pause \/ Update \/ OwnerChanges \/ StopBills \/ RemoveRows \/ RemoveCommit
           \/ \E o \in occ : DeleteEntry(o) \/ EditEntry(o) \/ Post(o) \/ Settled(o)
           \/ \E o \in occ, d \in 0..MaxDate : MoveBill(o, d)
           \/ NextDay \/ UNCHANGED recurrenceVars
BY Zenon DEF RecurrencesNext, GeneratorStep, RowStep, Quiet, Settled

-----------------------------------------------------------------------------
(* The rows *)

\* The rows there are; a linked one is an entry or a bill as its mode says.
RowsFit ==
    /\ occ \subseteq OccurrenceType /\ IsFiniteSet(occ) /\ marks \subseteq Modes \X Dates
    /\ \A o \in occ : o.linked => o.status \in (IF o.mode = "BILL" THEN {"PENDING", "PAID", "CANCELED"}
                                                ELSE {"SCHEDULED", "POSTED"})

\* What a step does to the rows.
RowsKept ==
    /\ RowsFit' /\ LinkedApart' /\ RowsStand'
    /\ \A mode \in Modes, d \in Dates : Reached(mode, d) => Reached(mode, d)'
    /\ Alive' \/ \A o \in occ' : ~o.linked

\* Dates are naturals.
LEMMA DatesNat == Dates \subseteq Nat /\ StartDate \in Dates /\ 0..MaxDate \subseteq Dates
BY RecurrencesAssumption DEF Dates

\* The rows stay, with another status or without their link.
LEMMA RowsCarried ==
    ASSUME RowsFit, LinkedApart, RowsStand, NEW F \in [occ -> OccurrenceType],
           occ' = {F[x] : x \in occ}, marks' = marks,
           \A o \in occ : /\ F[o].mode = o.mode /\ F[o].due = o.due /\ F[o].date = o.date
                          /\ F[o].linked => o.linked
                          /\ F[o].linked => F[o].status \in (IF o.mode = "BILL" THEN {"PENDING", "PAID", "CANCELED"}
                                                             ELSE {"SCHEDULED", "POSTED"}),
           Alive' \/ \A o \in occ : ~F[o].linked
    PROVE  RowsKept
<1>1. \A p \in occ' : \E o \in occ : p = F[o]
    OBVIOUS
<1>2. IsFiniteSet(occ')
    <2>1. F \in Surjection(occ, occ')
        BY <1>1 DEF Surjection
    <2>. QED BY <2>1, FS_Surjection DEF RowsFit
<1>3. RowsFit'
    BY <1>1, <1>2 DEF RowsFit
<1>4. LinkedApart'
    BY <1>1 DEF LinkedApart
<1>5. ASSUME NEW mode \in Modes, NEW d \in Dates, Reached(mode, d)
      PROVE  Reached(mode, d)'
    <2>1. CASE <<mode, d>> \in marks
        BY <2>1 DEF Reached
    <2>2. ASSUME NEW o \in occ, o.mode = mode, o.due = d
          PROVE  Reached(mode, d)'
        <3>1. F[o] \in occ' /\ F[o].mode = mode /\ F[o].due = d
            BY <2>2
        <3>. QED BY <3>1 DEF Reached, Made
    <2>. QED BY <1>5, <2>1, <2>2 DEF Reached, Made
<1>6. ASSUME NEW p \in occ', p.linked, NEW mode \in Modes, mode = p.mode
      PROVE  Reached(mode, p.date)'
    <2>1. PICK o \in occ : p = F[o]
        BY <1>1
    <2>2. p.mode = o.mode /\ p.date = o.date /\ o.linked /\ p.date \in Dates
        BY <1>6, <2>1 DEF OccurrenceType
    <2>3. PICK d \in Dates : d = p.date
        BY <2>2
    <2>4. Reached(mode, d)
        BY <1>6, <2>2, <2>3 DEF RowsStand
    <2>. QED BY <1>5, <2>3, <2>4
<1>7. Alive' \/ \A o \in occ' : ~o.linked
    BY <1>1
<1>8. RowsStand'
    BY <1>3, <1>6 DEF RowsStand, RowsFit, OccurrenceType
<1>. QED BY <1>3, <1>4, <1>5, <1>7, <1>8 DEF RowsKept

\* Nothing is done to the rows.
LEMMA SameRows ==
    ASSUME RowsFit, LinkedApart, RowsStand, occ' = occ, marks \subseteq marks', marks' \subseteq Modes \X Dates,
           Alive' \/ \A o \in occ : ~o.linked
    PROVE  RowsKept
<1>1. \A mode, d : Reached(mode, d) => Reached(mode, d)'
    BY DEF Reached, Made
<1>. QED BY <1>1 DEF RowsKept, RowsFit, LinkedApart, RowsStand

\* One row is written over, its date left as it is.
LEMMA RowBecomes ==
    ASSUME RowsFit, LinkedApart, RowsStand, NEW o \in occ, NEW r \in OccurrenceType, Becomes(o, r),
           r.mode = o.mode, r.due = o.due, r.date = o.date,
           ~r.linked \/ (o.linked /\ r.status \in (IF o.mode = "BILL" THEN {"PENDING", "PAID", "CANCELED"}
                                                   ELSE {"SCHEDULED", "POSTED"})),
           Alive \/ \A x \in occ : ~x.linked
    PROVE  RowsKept
<1>. DEFINE F == [x \in occ |-> IF x = o THEN r ELSE x]
<1>1. occ' = (occ \ {o}) \cup {r} /\ rec' = rec /\ marks' = marks
    BY DEF Becomes, Rewrite
<1>2. F \in [occ -> OccurrenceType]
    BY DEF RowsFit
<1>3. occ' = {F[x] : x \in occ}
    BY <1>1
<1>4. \A x \in occ : /\ F[x].mode = x.mode /\ F[x].due = x.due /\ F[x].date = x.date
                     /\ F[x].linked => x.linked
                     /\ F[x].linked => F[x].status \in (IF x.mode = "BILL" THEN {"PENDING", "PAID", "CANCELED"}
                                                        ELSE {"SCHEDULED", "POSTED"})
    BY DEF RowsFit
<1>5. Alive' \/ \A x \in occ : ~F[x].linked
    BY <1>1 DEF Alive
<1>. HIDE DEF F
<1>. QED BY <1>1, <1>2, <1>3, <1>4, <1>5, RowsCarried

\* What the writes of a single row make of it.
LEMMA RowTypes ==
    ASSUME NEW o \in OccurrenceType
    PROVE  /\ \A s \in {"SCHEDULED", "POSTED", "PENDING", "PAID", "CANCELED", "DELETED"} :
                 /\ [o EXCEPT !.status = s] \in OccurrenceType /\ [o EXCEPT !.status = s].status = s
                 /\ [o EXCEPT !.status = s].mode = o.mode /\ [o EXCEPT !.status = s].due = o.due
                 /\ [o EXCEPT !.status = s].date = o.date /\ [o EXCEPT !.status = s].linked = o.linked
                 /\ [o EXCEPT !.status = s].late = o.late
           /\ \A s \in {"SCHEDULED", "POSTED", "PENDING", "PAID", "CANCELED", "DELETED"} :
                 /\ [o EXCEPT !.status = s, !.linked = FALSE] \in OccurrenceType
                 /\ [o EXCEPT !.status = s, !.linked = FALSE].status = s
                 /\ [o EXCEPT !.status = s, !.linked = FALSE].mode = o.mode
                 /\ [o EXCEPT !.status = s, !.linked = FALSE].due = o.due
                 /\ [o EXCEPT !.status = s, !.linked = FALSE].date = o.date
                 /\ ~[o EXCEPT !.status = s, !.linked = FALSE].linked
                 /\ [o EXCEPT !.status = s, !.linked = FALSE].late = o.late
           /\ \A d \in Dates :
                 /\ [o EXCEPT !.date = d] \in OccurrenceType /\ [o EXCEPT !.date = d].date = d
                 /\ [o EXCEPT !.date = d].mode = o.mode /\ [o EXCEPT !.date = d].due = o.due
                 /\ [o EXCEPT !.date = d].status = o.status /\ [o EXCEPT !.date = d].linked = o.linked
<1>1. \A s \in {"SCHEDULED", "POSTED", "PENDING", "PAID", "CANCELED", "DELETED"} :
                 /\ [o EXCEPT !.status = s] \in OccurrenceType /\ [o EXCEPT !.status = s].status = s
                 /\ [o EXCEPT !.status = s].mode = o.mode /\ [o EXCEPT !.status = s].due = o.due
                 /\ [o EXCEPT !.status = s].date = o.date /\ [o EXCEPT !.status = s].linked = o.linked
                 /\ [o EXCEPT !.status = s].late = o.late
    BY DEF OccurrenceType
<1>2. \A s \in {"SCHEDULED", "POSTED", "PENDING", "PAID", "CANCELED", "DELETED"} :
                 /\ [o EXCEPT !.status = s, !.linked = FALSE] \in OccurrenceType
                 /\ [o EXCEPT !.status = s, !.linked = FALSE].status = s
                 /\ [o EXCEPT !.status = s, !.linked = FALSE].mode = o.mode
                 /\ [o EXCEPT !.status = s, !.linked = FALSE].due = o.due
                 /\ [o EXCEPT !.status = s, !.linked = FALSE].date = o.date
                 /\ ~[o EXCEPT !.status = s, !.linked = FALSE].linked
                 /\ [o EXCEPT !.status = s, !.linked = FALSE].late = o.late
    BY DEF OccurrenceType
<1>3. \A d \in Dates :
                 /\ [o EXCEPT !.date = d] \in OccurrenceType /\ [o EXCEPT !.date = d].date = d
                 /\ [o EXCEPT !.date = d].mode = o.mode /\ [o EXCEPT !.date = d].due = o.due
                 /\ [o EXCEPT !.date = d].status = o.status /\ [o EXCEPT !.date = d].linked = o.linked
    BY DEF OccurrenceType
<1>. QED BY <1>1, <1>2, <1>3

\* People edit, delete, cancel and pay rows, and the poster posts them.
LEMMA RowSteps ==
    ASSUME RowsFit, LinkedApart, RowsStand, Alive \/ \A x \in occ : ~x.linked, NEW o \in occ,
           DeleteEntry(o) \/ EditEntry(o) \/ Post(o) \/ Settled(o)
    PROVE  /\ RowsKept
           /\ \E r : Becomes(o, r) /\ o \in Entries \cup BillRows /\ r.status # "SCHEDULED"
<1>1. o \in OccurrenceType
    BY DEF RowsFit
<1>2. \E r \in OccurrenceType :
        /\ Becomes(o, r) /\ r.mode = o.mode /\ r.due = o.due /\ r.date = o.date /\ r.status # "SCHEDULED"
        /\ ~r.linked \/ (o.linked /\ r.status \in (IF o.mode = "BILL" THEN {"PENDING", "PAID", "CANCELED"}
                                                   ELSE {"SCHEDULED", "POSTED"}))
    <2>1. CASE DeleteEntry(o)
        <3>. DEFINE r == [o EXCEPT !.status = "DELETED", !.linked = FALSE]
        <3>1. /\ r \in OccurrenceType /\ r.mode = o.mode /\ r.due = o.due /\ r.date = o.date
              /\ r.status # "SCHEDULED" /\ ~r.linked
            BY <1>1, RowTypes
        <3>2. Becomes(o, r)
            BY <2>1 DEF DeleteEntry
        <3>. HIDE DEF r
        <3>. QED BY <2>1, <3>1, <3>2 DEF DeleteEntry, RowsFit
    <2>2. CASE EditEntry(o)
        <3>. DEFINE r == [o EXCEPT !.status = "POSTED", !.linked = FALSE]
        <3>1. /\ r \in OccurrenceType /\ r.mode = o.mode /\ r.due = o.due /\ r.date = o.date
              /\ r.status # "SCHEDULED" /\ ~r.linked
            BY <1>1, RowTypes
        <3>2. Becomes(o, r)
            BY <2>2 DEF EditEntry
        <3>. HIDE DEF r
        <3>. QED BY <2>2, <3>1, <3>2 DEF EditEntry, RowsFit
    <2>3. CASE Post(o)
        <3>. DEFINE r == [o EXCEPT !.status = "POSTED"]
        <3>1. /\ r \in OccurrenceType /\ r.mode = o.mode /\ r.due = o.due /\ r.date = o.date
              /\ r.status # "SCHEDULED" /\ r.status = "POSTED" /\ r.linked = o.linked
            BY <1>1, RowTypes
        <3>2. Becomes(o, r)
            BY <2>3 DEF Post
        <3>. HIDE DEF r
        <3>. QED BY <2>3, <3>1, <3>2 DEF Post, RowsFit
    <2>4. ASSUME NEW s \in {"PENDING", "PAID", "CANCELED"}, SettleBill(o, s)
          PROVE  \E r \in OccurrenceType :
        /\ Becomes(o, r) /\ r.mode = o.mode /\ r.due = o.due /\ r.date = o.date /\ r.status # "SCHEDULED"
        /\ ~r.linked \/ (o.linked /\ r.status \in (IF o.mode = "BILL" THEN {"PENDING", "PAID", "CANCELED"}
                                                   ELSE {"SCHEDULED", "POSTED"}))
        <3>. DEFINE r == [o EXCEPT !.status = s]
        <3>1. /\ r \in OccurrenceType /\ r.mode = o.mode /\ r.due = o.due /\ r.date = o.date
              /\ r.status # "SCHEDULED" /\ r.status = s /\ r.linked = o.linked
            <4>1. s \in {"SCHEDULED", "POSTED", "PENDING", "PAID", "CANCELED", "DELETED"} /\ s # "SCHEDULED"
                OBVIOUS
            <4>. QED BY <1>1, <4>1 DEF OccurrenceType
        <3>2. Becomes(o, r)
            BY <2>4 DEF SettleBill
        <3>. HIDE DEF r
        <3>. QED BY <2>4, <3>1, <3>2 DEF SettleBill, RowsFit, BillRows
    <2>. QED BY <2>1, <2>2, <2>3, <2>4 DEF Settled
<1>3. o \in Entries \cup BillRows
    BY DEF DeleteEntry, EditEntry, Post, Settled, SettleBill
<1>. QED BY <1>2, <1>3, RowBecomes

\* The end of a series of bills: the pending ones to come are cancelled.
LEMMA StopRows ==
    ASSUME RowsFit, LinkedApart, RowsStand, StopBills,
           rec \in RecurrenceType
    PROVE  RowsKept
<1>. DEFINE Stopped(o) == o \in Linked("BILL") /\ o.status = "PENDING" /\ o.date > today
            F == [o \in occ |-> IF Stopped(o) THEN [o EXCEPT !.status = "CANCELED"] ELSE o]
<1>1. occ' = {F[o] : o \in occ} /\ marks' = marks /\ rec' = [rec EXCEPT !.active = FALSE] /\ Alive
    BY DEF StopBills
<1>2. \A o \in occ : o \in OccurrenceType
    BY DEF RowsFit
<1>3. \A o \in occ : Stopped(o) => o.mode = "BILL"
    BY DEF Linked
<1>. HIDE DEF Stopped
<1>4. ASSUME NEW o \in occ
      PROVE  /\ F[o] \in OccurrenceType /\ F[o].mode = o.mode /\ F[o].due = o.due /\ F[o].date = o.date
             /\ F[o].linked => o.linked
             /\ F[o].linked => F[o].status \in (IF o.mode = "BILL" THEN {"PENDING", "PAID", "CANCELED"}
                                                ELSE {"SCHEDULED", "POSTED"})
    <2>. DEFINE c == [o EXCEPT !.status = "CANCELED"]
    <2>1. /\ c \in OccurrenceType /\ c.mode = o.mode /\ c.due = o.due /\ c.date = o.date
          /\ c.linked = o.linked /\ c.status = "CANCELED"
        <3>1. o \in OccurrenceType
            BY <1>2
        <3>. QED BY <3>1 DEF OccurrenceType
    <2>2. F[o] = IF Stopped(o) THEN c ELSE o
        OBVIOUS
    <2>. HIDE DEF c, F
    <2>. QED BY <1>2, <1>3, <2>1, <2>2 DEF RowsFit
<1>5. F \in [occ -> OccurrenceType]
    BY <1>4
<1>6. Alive'
    BY <1>1 DEF Alive
<1>. HIDE DEF F
<1>. QED BY <1>1, <1>4, <1>5, <1>6, RowsCarried

\* The removal takes the scheduled rows it held, and every link.
LEMMA RemoveRowsGone ==
    ASSUME RowsFit, LinkedApart, RowsStand, RemoveCommit, removal.locked \subseteq occ
    PROVE  /\ RowsKept /\ \A p \in occ' : ~p.linked
           /\ \A p \in occ' : p.status = "SCHEDULED" =>
                  \E o \in occ \ removal.locked : o.status = "SCHEDULED" /\ p.late = o.late
<1>. DEFINE G(o) == [o EXCEPT !.linked = FALSE, !.status = IF o \in removal.locked THEN "DELETED" ELSE @]
            F == [o \in occ |-> G(o)]
<1>1. occ' = {G(o) : o \in occ} /\ marks' = marks
    BY DEF RemoveCommit
<1>2. ASSUME NEW o \in occ
      PROVE  /\ G(o) \in OccurrenceType /\ G(o).mode = o.mode /\ G(o).due = o.due /\ G(o).date = o.date
             /\ ~G(o).linked /\ G(o).late = o.late
             /\ G(o).status = IF o \in removal.locked THEN "DELETED" ELSE o.status
    <2>1. o \in OccurrenceType
        BY DEF RowsFit
    <2>2. CASE o \in removal.locked
        BY <2>1, <2>2 DEF OccurrenceType
    <2>3. CASE o \notin removal.locked
        BY <2>1, <2>3 DEF OccurrenceType
    <2>. QED BY <2>2, <2>3
<1>. HIDE DEF G
<1>3. F \in [occ -> OccurrenceType] /\ occ' = {F[o] : o \in occ}
    BY <1>1, <1>2
<1>4. \A o \in occ : F[o].mode = o.mode /\ F[o].due = o.due /\ F[o].date = o.date /\ ~F[o].linked
    BY <1>2
<1>. HIDE DEF F
<1>5. RowsKept
    BY <1>1, <1>3, <1>4, RowsCarried
<1>6. \A p \in occ' : \E o \in occ : p = G(o)
    BY <1>1
<1>7. \A p \in occ' : ~p.linked
    BY <1>2, <1>6
<1>8. \A p \in occ' : p.status = "SCHEDULED" =>
                  \E o \in occ \ removal.locked : o.status = "SCHEDULED" /\ p.late = o.late
    BY <1>2, <1>6
<1>. QED BY <1>5, <1>7, <1>8

\* A bill moves to another date, which counts as reached.
LEMMA MoveRow ==
    ASSUME RowsFit, LinkedApart, RowsStand, Alive \/ \A x \in occ : ~x.linked,
           NEW o \in occ, NEW d \in 0..MaxDate, MoveBill(o, d)
    PROVE  RowsKept
<1>. DEFINE r == [o EXCEPT !.date = d]
<1>1. /\ occ' = (occ \ {o}) \cup {r} /\ marks' = marks \cup {<<"BILL", d>>} /\ rec' = rec
      /\ o.status \in {"PENDING", "PAID", "CANCELED"}
      /\ o.linked => ~Taken("BILL", d)
    BY DEF MoveBill, Rewrite, BillRows
<1>2. /\ o \in OccurrenceType /\ o.mode \in Modes /\ d \in Dates
      /\ o.linked => o.mode = "BILL"
    <2>1. d \in Dates
        BY DatesNat
    <2>2. o \in OccurrenceType /\ o.mode \in Modes
        BY DEF RowsFit, OccurrenceType
    <2>3. o.linked => o.mode = "BILL"
        <3>1. o.linked => o.status \in (IF o.mode = "BILL" THEN {"PENDING", "PAID", "CANCELED"}
                                         ELSE {"SCHEDULED", "POSTED"})
            BY DEF RowsFit
        <3>. QED BY <1>1, <3>1
    <2>. QED BY <2>1, <2>2, <2>3
<1>3. r \in OccurrenceType /\ r.date = d /\ r.mode = o.mode /\ r.due = o.due /\ r.linked = o.linked /\ r.status = o.status
    <2>1. \A e \in Dates :
                 /\ [o EXCEPT !.date = e] \in OccurrenceType /\ [o EXCEPT !.date = e].date = e
                 /\ [o EXCEPT !.date = e].mode = o.mode /\ [o EXCEPT !.date = e].due = o.due
                 /\ [o EXCEPT !.date = e].status = o.status /\ [o EXCEPT !.date = e].linked = o.linked
        BY <1>2, RowTypes
    <2>. QED BY <1>2, <2>1
<1>. HIDE DEF r
<1>4. RowsFit'
    <2>1. IsFiniteSet(occ')
        BY <1>1, FS_AddElement, FS_RemoveElement DEF RowsFit
    <2>2. <<"BILL", d>> \in Modes \X Dates
        BY <1>2 DEF Modes
    <2>. QED BY <1>1, <1>3, <2>1, <2>2 DEF RowsFit
<1>5. \A p \in occ' \ {r} : p \in occ
    BY <1>1
<1>6. \A p \in occ : p.linked /\ o.linked /\ p.mode = "BILL" => p.date # d
    <2>. SUFFICES ASSUME NEW p \in occ, p.linked, o.linked, p.mode = "BILL", p.date = d PROVE FALSE
        OBVIOUS
    <2>1. p \in Linked("BILL")
        BY DEF Linked
    <2>2. Taken("BILL", d)
        BY <2>1 DEF Taken
    <2>. QED BY <1>1, <2>2
<1>7. LinkedApart'
    BY <1>2, <1>3, <1>5, <1>6 DEF LinkedApart
<1>8. ASSUME NEW mode \in Modes, NEW e \in Dates, Reached(mode, e)
      PROVE  Reached(mode, e)'
    <2>1. CASE <<mode, e>> \in marks
        BY <1>1, <2>1 DEF Reached
    <2>2. ASSUME NEW x \in occ, x.mode = mode, x.due = e
          PROVE  Reached(mode, e)'
        <3>1. \E y \in occ' : y.mode = mode /\ y.due = e
            BY <1>1, <1>3, <2>2
        <3>. QED BY <3>1 DEF Reached, Made
    <2>. QED BY <1>8, <2>1, <2>2 DEF Reached, Made
<1>9. ASSUME NEW p \in occ', p.linked, NEW mode \in Modes, mode = p.mode, NEW e \in Dates, e = p.date
      PROVE  Reached(mode, e)'
    <2>1. CASE p = r
        <3>1. mode = "BILL" /\ e = d
            BY <1>2, <1>3, <1>9, <2>1
        <3>. QED BY <1>1, <3>1 DEF Reached
    <2>2. CASE p # r
        <3>1. Reached(mode, e)
            BY <1>5, <1>9, <2>2 DEF RowsStand
        <3>. QED BY <1>8, <3>1
    <2>. QED BY <2>1, <2>2
<1>10. RowsStand'
    <2>1. \A p \in occ' : p.mode \in Modes /\ p.date \in Dates
        BY <1>4 DEF RowsFit, OccurrenceType
    <2>. QED BY <1>9, <2>1 DEF RowsStand, Reached, Made
<1>11. Alive' \/ \A p \in occ' : ~p.linked
    BY <1>1, <1>3, <1>5 DEF Alive
<1>. QED BY <1>4, <1>7, <1>8, <1>10, <1>11 DEF RowsKept

-----------------------------------------------------------------------------
(* The generations *)

GeneratorType ==
    [pc : {"idle", "asked", "loop"}, mode : Modes, rule : Schedules, next : Dates, until : Dates]

GenFit == gen \in [Generators -> GeneratorType]

\* A generation that has not begun.
LEMMA IdleFits ==
    /\ AskedGenerator \in GeneratorType /\ AskedGenerator.pc = "asked"
    /\ IdleGenerator \in GeneratorType /\ IdleGenerator.pc = "idle"
<1>1. (CHOOSE r \in Schedules : TRUE) \in Schedules
    BY RecurrencesAssumption
<1>2. AskedGenerator \in GeneratorType /\ AskedGenerator.pc = "asked"
    BY <1>1, DatesNat DEF AskedGenerator, GeneratorType, Modes
<1>. QED BY <1>2 DEF IdleGenerator, GeneratorType

\* A step of a rule leads to a natural.
LEMMA NextAfterFits ==
    ASSUME NEW how \in Schedules, NEW d \in Nat
    PROVE  NextAfter(how, d) \in Nat
<1>1. d + Week \in Nat
    BY RecurrencesAssumption
<1>2. \A k \in Nat : (d \div MonthLength + k) * MonthLength + how.day \in Nat
    <2>1. MonthLength \in Nat \ {0} /\ how.day \in Nat
        BY RecurrencesAssumption
    <2>2. d \div MonthLength \in Nat
        BY <2>1
    <2>3. \A q, k, m, n \in Nat : (q + k) * m + n \in Nat
        OBVIOUS
    <2>. QED BY <2>1, <2>2, <2>3
<1>. QED BY <1>1, <1>2 DEF NextAfter

\* A generation that goes to a date keeps its mode and rule, or is over.
LEMMA OnwardFits ==
    ASSUME NEW slot \in GeneratorType, NEW d \in Nat
    PROVE  /\ Onward(slot, d) \in GeneratorType
           /\ Onward(slot, d).pc = "loop" =>
                  Onward(slot, d).next = d /\ Onward(slot, d).mode = slot.mode /\ Onward(slot, d).rule = slot.rule
<1>1. CASE d <= slot.until
    <2>1. d \in Dates
        BY <1>1, RecurrencesAssumption DEF GeneratorType, Dates
    <2>2. Onward(slot, d) = [slot EXCEPT !.pc = "loop", !.next = d]
        BY <1>1 DEF Onward
    <2>. QED BY <2>1, <2>2 DEF GeneratorType
<1>2. CASE ~(d <= slot.until)
    BY <1>2, IdleFits DEF Onward
<1>. QED BY <1>1, <1>2

\* Loops stay as they are, end, or move to a date that follows from one that was
\* reached.
LEMMA LoopsKept ==
    ASSUME GenFit, LoopsStepped, RowsKept, Alive' => Alive, GenFit',
           \A h \in Generators :
              Alive => \/ gen'[h] = gen[h] \/ gen'[h].pc # "loop" \/ gen'[h].next = StartDate
                       \/ \E mode \in Modes, d \in Dates : /\ mode = gen'[h].mode /\ Reached(mode, d)'
                                                          /\ gen'[h].next = NextAfter(gen'[h].rule, d)
    PROVE  LoopsStepped'
<1>1. ASSUME Alive', NEW h \in Generators, gen'[h].pc = "loop", gen'[h].next # StartDate
      PROVE  \E mode \in Modes, d \in Dates :
                 mode = gen'[h].mode /\ Reached(mode, d)' /\ gen'[h].next = NextAfter(gen'[h].rule, d)
    <2>1. CASE gen'[h] # gen[h]
        BY <1>1, <2>1
    <2>2. CASE gen'[h] = gen[h]
        <3>1. PICK d \in Dates : Reached(gen[h].mode, d) /\ gen[h].next = NextAfter(gen[h].rule, d)
            BY <1>1, <2>2 DEF LoopsStepped, SkippedOnlyByFailure
        <3>2. PICK mode \in Modes : mode = gen[h].mode
            BY DEF GenFit, GeneratorType
        <3>3. Reached(mode, d)
            BY <3>1, <3>2
        <3>4. Reached(mode, d)'
            BY <3>3 DEF RowsKept
        <3>. QED BY <2>2, <3>1, <3>2, <3>4
    <2>. QED BY <2>1, <2>2
<1>2. SkippedOnlyByFailure'
    BY <1>1 DEF SkippedOnlyByFailure, Reached, Made, NextAfter
<1>. QED BY <1>2 DEF LoopsStepped, RowsKept

\* One generation moves on so.
LEMMA LoopMoves ==
    ASSUME GenFit, LoopsStepped, RowsKept, Alive' => Alive, NEW g \in Generators, NEW c \in GeneratorType,
           gen' = [gen EXCEPT ![g] = c],
           c.pc = "loop" /\ Alive => \/ c.next = StartDate
                                    \/ \E mode \in Modes, d \in Dates : /\ mode = c.mode /\ Reached(mode, d)'
                                                                       /\ c.next = NextAfter(c.rule, d)
    PROVE  GenFit' /\ LoopsStepped'
<1>1. GenFit' /\ \A h \in Generators : gen'[h] = c \/ gen'[h] = gen[h]
    BY DEF GenFit
<1>. QED BY <1>1, LoopsKept

\* A loop goes on after it has dealt with its date.
LEMMA LoopAdvances ==
    ASSUME GenFit, LoopsStepped, RowsKept, Alive' => Alive, NEW g \in Generators, gen[g].pc = "loop",
           gen' = Advanced(g), NEW mode \in Modes, NEW n \in Dates, mode = gen[g].mode, n = gen[g].next,
           Alive => Reached(mode, n)'
    PROVE  GenFit' /\ LoopsStepped'
<1>. DEFINE c == Onward(gen[g], NextAfter(gen[g].rule, n))
<1>1. gen[g] \in GeneratorType /\ gen[g].rule \in Schedules /\ n \in Nat
    BY DatesNat DEF GenFit, GeneratorType
<1>2. gen' = [gen EXCEPT ![g] = c]
    BY DEF Advanced
<1>3. /\ c \in GeneratorType
      /\ c.pc = "loop" => c.next = NextAfter(gen[g].rule, n) /\ c.mode = mode /\ c.rule = gen[g].rule
    BY <1>1, NextAfterFits, OnwardFits
<1>. HIDE DEF c
<1>4. c.pc = "loop" /\ Alive => \E m \in Modes, d \in Dates :
                                    m = c.mode /\ Reached(m, d)' /\ c.next = NextAfter(c.rule, d)
    BY <1>3
<1>. QED BY <1>2, <1>3, <1>4, LoopMoves

\* Where a series goes on is the start, or a step from a date that was reached.
LEMMA NextDateFits ==
    ASSUME RowsFit, RowsStand, NEW mode \in Modes, rec \in RecurrenceType
    PROVE  /\ NextDate(mode) \in Nat
           /\ NextDate(mode) = StartDate
                 \/ \E d \in Dates : Reached(mode, d) /\ NextDate(mode) = NextAfter(rec.rule, d)
<1>. DEFINE S == {o.date : o \in Linked(mode)}
            n == MaxDate + LastDay + Horizon + BillHorizon
<1>1. \A o \in Linked(mode) : o \in occ /\ o.date \in Dates /\ o.linked /\ o.mode = mode
    BY DEF RowsFit, OccurrenceType, Linked
<1>2. CASE Linked(mode) = {}
    BY <1>2, DatesNat DEF NextDate
<1>3. CASE Linked(mode) # {}
    <2>1. n \in Nat /\ S \in SUBSET (0..n) /\ S # {}
        <3>1. \A o \in Linked(mode) : o.date \in 0..n
            BY <1>1 DEF Dates
        <3>. QED BY <1>3, <3>1, RecurrencesAssumption
    <2>2. NextDate(mode) = NextAfter(rec.rule, Max(S))
        BY <1>3 DEF NextDate
    <2>. HIDE DEF S, n
    <2>3. Max(S) \in S
        BY Zenon, <2>1, MaxFound
    <2>4. PICK o \in Linked(mode) : o.date = Max(S)
        BY <2>3 DEF S
    <2>5. PICK d \in Dates : d = o.date
        BY <1>1
    <2>6. Reached(mode, d)
        BY <1>1, <2>5 DEF RowsStand
    <2>7. NextDate(mode) = NextAfter(rec.rule, d) /\ d \in Nat /\ rec.rule \in Schedules
        BY <2>2, <2>4, <2>5, DatesNat DEF RecurrenceType
    <2>. QED BY <2>6, <2>7, NextAfterFits
<1>. QED BY <1>2, <1>3

\* A generation reads how far it may go.
LEMMA UntilFits ==
    ASSUME today \in 0..LastDay, rec \in RecurrenceType, NEW mode \in Modes
    PROVE  Until(mode) \in Dates
<1>. DEFINE S == {Ahead(mode), rec.end}
<1>1. Ahead(mode) \in Nat /\ Ahead(mode) \in Dates /\ rec.end \in Nat
    <2>1. Ahead(mode) \in Nat /\ Ahead(mode) \in Dates
        BY RecurrencesAssumption DEF Ahead, Dates
    <2>2. rec.end \in Ends
        BY DEF RecurrenceType
    <2>. QED BY <2>1, <2>2, RecurrencesAssumption
<1>2. Until(mode) = Min(S)
    BY DEF Until
<1>3. S \in SUBSET Nat /\ S # {} /\ Ahead(mode) \in S
    BY <1>1
<1>. HIDE DEF S
<1>4. Min(S) \in S /\ Min(S) <= Ahead(mode)
    BY <1>3, MinFound
<1>5. Min(S) \in Nat
    BY <1>3, <1>4
<1>6. \A x \in Nat : x <= Ahead(mode) => x \in Dates
    BY <1>1, RecurrencesAssumption DEF Dates
<1>. QED BY <1>2, <1>4, <1>5, <1>6

\* A generation reads where the series goes on.
LEMMA ReadSteps ==
    ASSUME RecurrencesTypeOK, RowsFit, RowsStand, GenFit, LoopsStepped, RowsKept, NEW g \in Generators, GenerateRead(g)
    PROVE  GenFit' /\ LoopsStepped'
<1>. DEFINE mode == rec.mode
            slot == [gen[g] EXCEPT !.mode = mode, !.rule = rec.rule, !.until = Until(mode)]
            c == Onward(slot, NextDate(mode))
<1>1. /\ rec' = rec /\ mode \in Modes /\ rec.rule \in Schedules /\ rec \in RecurrenceType
      /\ gen' = [gen EXCEPT ![g] = IF Alive /\ rec.active /\ Recorder(mode) THEN c ELSE IdleGenerator]
    BY DEF GenerateRead, RecurrencesTypeOK, RecurrenceType
<1>2. CASE gen' = [gen EXCEPT ![g] = IdleGenerator]
    BY <1>1, <1>2, IdleFits, LoopMoves DEF Alive
<1>3. CASE gen' = [gen EXCEPT ![g] = c]
    <2>1. slot \in GeneratorType /\ slot.mode = mode /\ slot.rule = rec.rule
        <3>1. Until(mode) \in Dates
            BY <1>1, UntilFits DEF RecurrencesTypeOK
        <3>. HIDE DEF mode
        <3>. QED BY <1>1, <3>1 DEF GenFit, GeneratorType
    <2>2. PICK n \in Nat : n = NextDate(mode)
        BY <1>1, NextDateFits
    <2>3. c = Onward(slot, n)
        BY <2>2
    <2>. HIDE DEF slot, c, mode
    <2>4. c \in GeneratorType /\ (c.pc = "loop" => c.next = n /\ c.mode = mode /\ c.rule = rec.rule)
        BY <2>1, <2>3, OnwardFits
    <2>5. n = StartDate \/ \E d \in Dates : Reached(mode, d) /\ n = NextAfter(rec.rule, d)
        BY <1>1, <2>2, NextDateFits
    <2>6. PICK m \in Modes : m = mode
        BY <1>1
    <2>7. \A d \in Dates : Reached(m, d) => Reached(m, d)'
        BY DEF RowsKept
    <2>8. c.pc = "loop" /\ Alive => \/ c.next = StartDate
                                    \/ \E k \in Modes, d \in Dates :
                                           k = c.mode /\ Reached(k, d)' /\ c.next = NextAfter(c.rule, d)
        BY <2>4, <2>5, <2>6, <2>7
    <2>9. Alive' => Alive
        BY <1>1 DEF Alive
    <2>. QED BY <1>3, <2>4, <2>8, <2>9, LoopMoves
<1>. QED BY <1>1, <1>2, <1>3

\* A loop inserts a row, passes a date over, or misses it.
LEMMA InsertSteps ==
    ASSUME RowsFit, LinkedApart, RowsStand, GenFit, LoopsStepped, NEW g \in Generators, GenerateOne(g)
    PROVE  /\ RowsKept /\ GenFit' /\ LoopsStepped'
           /\ \A p \in occ' : p \in occ \/ (p.linked /\ (p.status = "SCHEDULED" => p.late = (removal.pc = "locked")))
           /\ occ \subseteq occ'
<1>1. PICK m \in Modes, d \in Dates : m = gen[g].mode /\ d = gen[g].next
    BY DEF GenFit, GeneratorType
<1>. DEFINE r == [mode |-> m, due |-> d, copy |-> Cardinality(Made(m, d)) + 1, date |-> d, linked |-> TRUE,
                  late |-> removal.pc = "locked", status |-> StatusOf(m, d)]
<1>2. /\ gen[g].pc = "loop" /\ gen' = Advanced(g) /\ rec' = rec /\ marks' = marks
      /\ occ' = IF Refused(m, d) \/ ~Alive THEN occ ELSE occ \cup {r}
    BY <1>1 DEF GenerateOne
<1>3. CASE occ' = occ /\ (Refused(m, d) \/ ~Alive)
    <2>1. RowsKept
        BY <1>2, <1>3, SameRows DEF RowsFit, LoopsStepped, Alive
    <2>2. Alive => Reached(m, d)'
        <3>1. ASSUME Alive
              PROVE  Reached(m, d)
            <4>1. PICK o \in occ : o.linked /\ o.mode = m /\ o.date = d
                BY <1>3, <3>1 DEF Refused, Taken, Linked
            <4>. QED BY <4>1 DEF RowsStand
        <3>. QED BY <2>1, <3>1 DEF RowsKept
    <2>. QED BY <1>1, <1>2, <1>3, <2>1, <2>2, LoopAdvances DEF Alive
<1>4. CASE occ' = occ \cup {r} /\ ~Refused(m, d) /\ Alive
    <2>1. Cardinality(Made(m, d)) \in Nat
        BY FS_Subset, FS_CardinalityType DEF RowsFit, Made
    <2>. DEFINE s == StatusOf(m, d)
    <2>2. s \in (IF m = "BILL" THEN {"PENDING"} ELSE {"POSTED", "SCHEDULED"})
        BY DEF StatusOf
    <2>3. /\ r \in OccurrenceType /\ r.mode = m /\ r.due = d /\ r.date = d /\ r.linked /\ r.status = s
          /\ r.late = (removal.pc = "locked")
        <3>1. (removal.pc = "locked") \in BOOLEAN
            OBVIOUS
        <3>2. r.mode = m /\ r.due = d /\ r.date = d /\ r.linked /\ r.status = s /\ r.late = (removal.pc = "locked")
            OBVIOUS
        <3>3. s \in {"SCHEDULED", "POSTED", "PENDING", "PAID", "CANCELED", "DELETED"}
            BY <2>2
        <3>. QED BY <2>1, <3>2, <3>3 DEF OccurrenceType
    <2>. HIDE DEF r, s
    <2>4. RowsFit'
        <3>1. IsFiniteSet(occ')
            BY <1>4, FS_AddElement DEF RowsFit
        <3>. QED BY <1>2, <1>4, <2>2, <2>3, <3>1 DEF RowsFit
    <2>5. LinkedApart'
        <3>1. \A o \in occ : ~(o.linked /\ o.mode = m /\ o.date = d)
            BY <1>4 DEF Refused, Taken, Linked
        <3>. QED BY <1>4, <2>3, <3>1 DEF LinkedApart
    <2>6. \A mode, e : Reached(mode, e) => Reached(mode, e)'
        BY <1>2, <1>4 DEF Reached, Made
    <2>7. Reached(m, d)'
        BY <1>4, <2>3 DEF Reached, Made
    <2>8. \A mode \in Modes, e \in Dates : Reached(mode, e) => Reached(mode, e)'
        BY <2>6
    <2>9. RowsStand'
        <3>1. ASSUME NEW p \in occ', p.linked, NEW mode \in Modes, mode = p.mode, NEW e \in Dates, e = p.date
              PROVE  Reached(mode, e)'
            <4>1. CASE p = r
                <5>1. mode = m /\ e = d
                    BY <2>3, <3>1, <4>1
                <5>. QED BY <2>7, <5>1
            <4>2. CASE p \in occ
                <5>1. Reached(mode, e)
                    BY <3>1, <4>2 DEF RowsStand
                <5>. QED BY <2>8, <5>1
            <4>. QED BY <1>4, <4>1, <4>2
        <3>2. \A p \in occ' : p.mode \in Modes /\ p.date \in Dates
            BY <2>4 DEF RowsFit, OccurrenceType
        <3>. QED BY <3>1, <3>2 DEF RowsStand, Reached, Made
    <2>10. RowsKept
        BY <1>2, <1>4, <2>4, <2>5, <2>6, <2>9 DEF RowsKept, Alive
    <2>11. GenFit' /\ LoopsStepped'
        BY <1>1, <1>2, <1>4, <2>7, <2>10, LoopAdvances
    <2>. QED BY <1>4, <2>3, <2>10, <2>11
<1>. QED BY <1>2, <1>3, <1>4

\* A loop reports the insert that failed and goes on.
LEMMA FailSteps ==
    ASSUME RowsFit, LinkedApart, RowsStand, GenFit, LoopsStepped, NEW g \in Generators, GenerateFails(g)
    PROVE  RowsKept /\ GenFit' /\ LoopsStepped'
<1>1. PICK m \in Modes, d \in Dates : m = gen[g].mode /\ d = gen[g].next
    BY DEF GenFit, GeneratorType
<1>2. /\ gen[g].pc = "loop" /\ gen' = Advanced(g) /\ rec' = rec /\ occ' = occ
      /\ marks' = marks \cup {<<m, d>>}
    BY <1>1 DEF GenerateFails
<1>3. RowsKept
    BY <1>2, SameRows DEF RowsFit, LoopsStepped, Alive
<1>4. Reached(m, d)'
    BY <1>2 DEF Reached
<1>. QED BY <1>1, <1>2, <1>3, <1>4, LoopAdvances DEF Alive

\* What the rows and the generations are to a step of the invariant.
LEMMA InvFits ==
    ASSUME RecurrencesInv
    PROVE  /\ RowsFit /\ GenFit /\ LinkedApart /\ RowsStand /\ LoopsStepped /\ RecurrencesTypeOK
           /\ rec \in RecurrenceType
           /\ Alive \/ \A o \in occ : ~o.linked
BY DEF RecurrencesInv, RecurrencesTypeOK, RowsFit, GenFit, GeneratorType, LoopsStepped

\* The steps that leave the rows alone.
LEMMA IdleSteps ==
    ASSUME RecurrencesInv,
           \/ \E g \in Generators : JobStarts(g) \/ Resume(g) \/ GenerateRead(g) \/ Restart(g)
           \/ Pause \/ Update \/ OwnerChanges \/ RemoveRows \/ NextDay \/ UNCHANGED recurrenceVars
    PROVE  RowsKept /\ GenFit' /\ LoopsStepped'
<1>1. occ' = occ /\ marks' = marks /\ (Alive <=> Alive')
    <2>1. occ' = occ /\ marks' = marks /\ rec'.status = rec.status
        <3>1. rec \in RecurrenceType
            BY InvFits
        <3>2. \A mode, how, end : [rec EXCEPT !.mode = mode, !.rule = how, !.end = end].status = rec.status
            BY <3>1 DEF RecurrenceType
        <3>3. \A a : [rec EXCEPT !.active = a].status = rec.status
            BY <3>1 DEF RecurrenceType
        <3>4. \/ rec' = rec \/ \E a : rec' = [rec EXCEPT !.active = a]
              \/ \E mode, how, end : rec' = [rec EXCEPT !.mode = mode, !.rule = how, !.end = end]
            BY Zenon DEF JobStarts, Resume, GenerateRead, Restart, Pause, Update, OwnerChanges, RemoveRows, NextDay,
                recurrenceVars
        <3>5. occ' = occ /\ marks' = marks
            BY DEF JobStarts, Resume, GenerateRead, Restart, Pause, Update, OwnerChanges, RemoveRows, NextDay,
                recurrenceVars
        <3>6. rec'.status = rec.status
            <4>1. CASE \E a : rec' = [rec EXCEPT !.active = a]
                BY <3>3, <4>1
            <4>2. CASE \E mode, how, end : rec' = [rec EXCEPT !.mode = mode, !.rule = how, !.end = end]
                <5>1. PICK mode, how, end : rec' = [rec EXCEPT !.mode = mode, !.rule = how, !.end = end]
                    BY <4>2
                <5>. QED BY <3>1, <5>1 DEF RecurrenceType
            <4>. QED BY <3>4, <4>1, <4>2
        <3>. QED BY <3>5, <3>6
    <2>. QED BY <2>1 DEF Alive
<1>2. RowsKept
    BY <1>1, InvFits, SameRows DEF RowsFit
<1>3. CASE \E g \in Generators : GenerateRead(g)
    BY <1>2, <1>3, InvFits, ReadSteps
<1>4. ASSUME \/ \E g \in Generators : JobStarts(g) \/ Resume(g) \/ Restart(g)
             \/ Pause \/ Update \/ OwnerChanges \/ RemoveRows \/ NextDay \/ UNCHANGED recurrenceVars
      PROVE  GenFit' /\ \A h \in Generators : gen'[h] = gen[h] \/ gen'[h].pc # "loop"
    <2>1. CASE gen' = gen
        BY <2>1, InvFits DEF GenFit
    <2>2. ASSUME NEW g \in Generators, NEW c \in GeneratorType, c.pc # "loop", gen' = [gen EXCEPT ![g] = c]
          PROVE  GenFit' /\ \A h \in Generators : gen'[h] = gen[h] \/ gen'[h].pc # "loop"
        BY <2>2, InvFits DEF GenFit
    <2>3. ASSUME NEW g \in Generators, JobStarts(g) \/ Resume(g)
          PROVE  GenFit' /\ \A h \in Generators : gen'[h] = gen[h] \/ gen'[h].pc # "loop"
        <3>. DEFINE c == [gen[g] EXCEPT !.pc = "asked"]
        <3>1. gen' = [gen EXCEPT ![g] = c]
            BY <2>3 DEF JobStarts, Resume
        <3>2. c \in GeneratorType /\ c.pc = "asked"
            BY InvFits DEF GenFit, GeneratorType
        <3>. HIDE DEF c
        <3>. QED BY <2>2, <3>1, <3>2
    <2>4. ASSUME NEW g \in Generators, Restart(g)
          PROVE  GenFit' /\ \A h \in Generators : gen'[h] = gen[h] \/ gen'[h].pc # "loop"
        BY <2>2, <2>4, IdleFits DEF Restart
    <2>. QED BY <1>4, <2>1, <2>3, <2>4 DEF Pause, Update, OwnerChanges, RemoveRows, NextDay, recurrenceVars
<1>5. CASE \/ \E g \in Generators : JobStarts(g) \/ Resume(g) \/ Restart(g)
           \/ Pause \/ Update \/ OwnerChanges \/ RemoveRows \/ NextDay \/ UNCHANGED recurrenceVars
    BY <1>1, <1>2, <1>4, <1>5, InvFits, LoopsKept
<1>. QED BY <1>3, <1>5

\* The steps that change the rows and leave the generations alone.
LEMMA RowChanges ==
    ASSUME RecurrencesInv,
           \/ StopBills \/ RemoveCommit
           \/ \E o \in occ : DeleteEntry(o) \/ EditEntry(o) \/ Post(o) \/ Settled(o)
           \/ \E o \in occ, d \in 0..MaxDate : MoveBill(o, d)
    PROVE  RowsKept /\ GenFit' /\ LoopsStepped'
<1>1. RowsKept
    <2>1. CASE StopBills
        BY <2>1, InvFits, StopRows
    <2>2. CASE RemoveCommit
        BY <2>2, InvFits, RemoveRowsGone DEF RecurrencesTypeOK
    <2>3. CASE \E o \in occ : DeleteEntry(o) \/ EditEntry(o) \/ Post(o) \/ Settled(o)
        BY <2>3, InvFits, RowSteps
    <2>4. CASE \E o \in occ, d \in 0..MaxDate : MoveBill(o, d)
        BY <2>4, InvFits, MoveRow
    <2>. QED BY <2>1, <2>2, <2>3, <2>4
<1>2. gen' = gen
    BY DEF StopBills, RemoveCommit, DeleteEntry, EditEntry, Post, Settled, SettleBill, MoveBill, Becomes, Rewrite
<1>3. Alive' => Alive
    <2>1. CASE StopBills
        BY <2>1 DEF StopBills
    <2>2. CASE RemoveCommit
        BY <2>2, InvFits DEF RemoveCommit, Alive, RecurrenceType
    <2>3. CASE rec' = rec
        BY <2>3 DEF Alive
    <2>. QED BY <2>1, <2>2, <2>3 DEF DeleteEntry, EditEntry, Post, Settled, SettleBill, MoveBill, Becomes, Rewrite
<1>. QED BY <1>1, <1>2, <1>3, InvFits, LoopsKept DEF GenFit

\* Every step keeps what is said of the rows and of the generations.
LEMMA CoreStep ==
    ASSUME RecurrencesInv, [RecurrencesNext]_recurrenceVars
    PROVE  RowsKept /\ GenFit' /\ LoopsStepped'
<1>1. CASE \E g \in Generators : GenerateOne(g)
    BY <1>1, InvFits, InsertSteps
<1>2. CASE \E g \in Generators : GenerateFails(g)
    BY <1>2, InvFits, FailSteps
<1>. QED BY Zenon, <1>1, <1>2, IdleSteps, RowChanges, RecurrencesSteps

-----------------------------------------------------------------------------
(* The removal *)

\* The same rows and the same removal.
LEMMA RemovalAside ==
    ASSUME RemovalSound, ScheduledLeftOnlyByOverlap, occ' = occ, removal' = removal
    PROVE  RemovalSound' /\ ScheduledLeftOnlyByOverlap'
BY DEF RemovalSound, ScheduledLeftOnlyByOverlap

\* One row that the removal does not hold becomes one that is not scheduled.
LEMMA RemovalRewrite ==
    ASSUME RemovalSound, ScheduledLeftOnlyByOverlap, NEW o \in occ, NEW r, o \notin removal.locked,
           r.status # "SCHEDULED", Rewrite(o, r)
    PROVE  RemovalSound' /\ ScheduledLeftOnlyByOverlap'
<1>1. occ' = (occ \ {o}) \cup {r} /\ removal' = removal
    BY DEF Rewrite
<1>. QED BY <1>1 DEF RemovalSound, ScheduledLeftOnlyByOverlap

\* Every step keeps the removal sound.
LEMMA RemovalStep ==
    ASSUME RecurrencesInv, [RecurrencesNext]_recurrenceVars
    PROVE  RemovalSound' /\ ScheduledLeftOnlyByOverlap'
<1>1. RemovalSound /\ ScheduledLeftOnlyByOverlap
    BY DEF RecurrencesInv
<1>2. \A o \in BillRows : o \notin removal.locked
    BY <1>1 DEF RemovalSound, BillRows
<1>3. CASE \/ \E g \in Generators : JobStarts(g) \/ Resume(g) \/ GenerateRead(g) \/ GenerateFails(g) \/ Restart(g)
           \/ Pause \/ Update \/ OwnerChanges \/ NextDay \/ UNCHANGED recurrenceVars
    <2>1. occ' = occ /\ removal' = removal
        BY <1>3 DEF JobStarts, Resume, GenerateRead, GenerateFails, Restart, Pause, Update, OwnerChanges, NextDay, recurrenceVars
    <2>. QED BY <1>1, <2>1, RemovalAside
<1>4. ASSUME NEW g \in Generators, GenerateOne(g)
      PROVE  RemovalSound' /\ ScheduledLeftOnlyByOverlap'
    <2>1. /\ \A p \in occ' : p \in occ \/ (p.linked /\ (p.status = "SCHEDULED" => p.late = (removal.pc = "locked")))
          /\ occ \subseteq occ'
        BY <1>4, InvFits, InsertSteps
    <2>2. removal' = removal
        BY <1>4 DEF GenerateOne
    <2>. QED BY <1>1, <2>1, <2>2 DEF RemovalSound, ScheduledLeftOnlyByOverlap
<1>5. CASE StopBills
    <2>1. removal' = removal /\ \A p \in occ' : p \in occ \/ p.status # "SCHEDULED"
        <3>. DEFINE G(o) == IF o \in Linked("BILL") /\ o.status = "PENDING" /\ o.date > today
                              THEN [o EXCEPT !.status = "CANCELED"] ELSE o
        <3>1. removal' = removal /\ occ' = {G(o) : o \in occ}
            BY <1>5 DEF StopBills
        <3>2. \A o \in occ : G(o) = o \/ G(o).status # "SCHEDULED"
            BY InvFits DEF RowsFit, OccurrenceType
        <3>. HIDE DEF G
        <3>. QED BY <3>1, <3>2
    <2>2. \A o \in occ : o.status = "SCHEDULED" => o \in occ'
        BY <1>5 DEF StopBills
    <2>. QED BY <1>1, <2>1, <2>2 DEF RemovalSound, ScheduledLeftOnlyByOverlap
<1>6. CASE RemoveRows
    <2>1. occ' = occ /\ removal' = [pc |-> "locked", locked |-> Scheduled]
        BY <1>6 DEF RemoveRows
    <2>2. Scheduled \subseteq occ /\ \A o \in Scheduled : o.status = "SCHEDULED"
        BY DEF Scheduled, Linked
    <2>3. \A o \in occ \ Scheduled : o.status = "SCHEDULED" => ~o.linked
        BY InvFits DEF RowsFit, OccurrenceType, Scheduled, Linked, Modes
    <2>. QED BY <1>1, <2>1, <2>2, <2>3 DEF RemovalSound, ScheduledLeftOnlyByOverlap
<1>7. CASE RemoveCommit
    <2>1. removal.pc = "locked" /\ removal' = [pc |-> "no", locked |-> {}]
        BY <1>7 DEF RemoveCommit
    <2>2. \A p \in occ' : p.status = "SCHEDULED" =>
                  \E o \in occ \ removal.locked : o.status = "SCHEDULED" /\ p.late = o.late
        BY <1>7, InvFits, RemoveRowsGone DEF RecurrencesTypeOK
    <2>. QED BY <1>1, <2>1, <2>2 DEF RemovalSound, ScheduledLeftOnlyByOverlap
<1>8. ASSUME NEW o \in occ, DeleteEntry(o) \/ EditEntry(o) \/ Post(o) \/ Settled(o)
      PROVE  RemovalSound' /\ ScheduledLeftOnlyByOverlap'
    <2>1. PICK r : Becomes(o, r) /\ o \in Entries \cup BillRows /\ r.status # "SCHEDULED"
        BY <1>8, InvFits, RowSteps
    <2>2. o \notin removal.locked
        BY <1>2, <2>1 DEF Entries
    <2>. QED BY <1>1, <2>1, <2>2, RemovalRewrite DEF Becomes
<1>9. ASSUME NEW o \in occ, NEW d \in 0..MaxDate, MoveBill(o, d)
      PROVE  RemovalSound' /\ ScheduledLeftOnlyByOverlap'
    <2>. DEFINE r == [o EXCEPT !.date = d]
    <2>1. Rewrite(o, r) /\ o \in BillRows
        BY <1>9 DEF MoveBill
    <2>2. r.status # "SCHEDULED"
        BY <2>1, InvFits DEF RowsFit, OccurrenceType, BillRows
    <2>. HIDE DEF r
    <2>. QED BY <1>1, <1>2, <2>1, <2>2, RemovalRewrite
<1>. QED BY Zenon, <1>3, <1>4, <1>5, <1>6, <1>7, <1>8, <1>9, RecurrencesSteps

-----------------------------------------------------------------------------
(* The theorems *)

\* The recurrence as it is created.
LEMMA RecurrencesStart == RecurrencesInit => RecurrencesInv
<1>. SUFFICES ASSUME RecurrencesInit PROVE RecurrencesInv
    OBVIOUS
<1>1. RecurrencesTypeOK
    <2>1. 0 \in 0..LastDay
        BY RecurrencesAssumption
    <2>2. gen \in [Generators -> GeneratorType]
        BY IdleFits DEF RecurrencesInit
    <2>3. rec \in RecurrenceType
        BY DEF RecurrencesInit, RecurrenceType
    <2>. QED BY <2>1, <2>2, <2>3 DEF RecurrencesInit, RecurrencesTypeOK, GeneratorType
<1>2. IsFiniteSet(occ)
    BY FS_EmptySet DEF RecurrencesInit
<1>3. LinkedApart /\ RowsStand /\ RemovalSound /\ ScheduledLeftOnlyByOverlap
    BY DEF RecurrencesInit, LinkedApart, RowsStand, RemovalSound, ScheduledLeftOnlyByOverlap
<1>4. LoopsStepped
    BY IdleFits DEF RecurrencesInit, LoopsStepped, SkippedOnlyByFailure
<1>. QED BY <1>1, <1>2, <1>3, <1>4 DEF RecurrencesInit, RecurrencesInv

\* Every step keeps the invariant.
LEMMA NextInv == RecurrencesInv /\ [RecurrencesNext]_recurrenceVars => RecurrencesInv'
<1>. SUFFICES ASSUME RecurrencesInv, [RecurrencesNext]_recurrenceVars PROVE RecurrencesInv'
    OBVIOUS
<1>1. RowsKept /\ GenFit' /\ LoopsStepped'
    BY CoreStep
<1>2. RemovalSound' /\ ScheduledLeftOnlyByOverlap'
    BY RemovalStep
<1>3. today' \in 0..LastDay /\ moves' \in Nat
    <2>1. today \in 0..LastDay /\ moves \in Nat
        BY DEF RecurrencesInv, RecurrencesTypeOK
    <2>2. today' = today \/ (today < LastDay /\ today' = today + 1)
        BY Zenon, RecurrencesSteps DEF JobStarts, Resume, GenerateRead, GenerateOne, GenerateFails, Restart, Pause,
            Update, OwnerChanges, StopBills, RemoveRows, RemoveCommit, DeleteEntry, EditEntry, Post, Settled, SettleBill,
            MoveBill, Becomes, Rewrite, NextDay, recurrenceVars
    <2>3. moves' = moves \/ moves' = moves + 1
        BY Zenon, RecurrencesSteps DEF JobStarts, Resume, GenerateRead, GenerateOne, GenerateFails, Restart, Pause,
            Update, OwnerChanges, StopBills, RemoveRows, RemoveCommit, DeleteEntry, EditEntry, Post, Settled, SettleBill,
            MoveBill, Becomes, Rewrite, NextDay, recurrenceVars, Outside
    <2>. QED BY <2>1, <2>2, <2>3, RecurrencesAssumption
<1>4. rec' \in RecurrenceType
    <2>1. rec \in RecurrenceType
        BY InvFits
    <2>2. \/ rec' = rec \/ \E a \in BOOLEAN : rec' = [rec EXCEPT !.active = a]
          \/ \E mode \in Modes, how \in Schedules, end \in Ends :
                 rec' = [rec EXCEPT !.mode = mode, !.rule = how, !.end = end]
          \/ rec' = [rec EXCEPT !.status = "DELETED", !.active = FALSE]
        BY Zenon, RecurrencesSteps DEF JobStarts, Resume, GenerateRead, GenerateOne, GenerateFails, Restart, Pause,
            Update, OwnerChanges, StopBills, RemoveRows, RemoveCommit, DeleteEntry, EditEntry, Post, Settled, SettleBill,
            MoveBill, Becomes, Rewrite, NextDay, recurrenceVars
    <2>3. \A a \in BOOLEAN : [rec EXCEPT !.active = a] \in RecurrenceType
        BY <2>1 DEF RecurrenceType
    <2>4. \A mode \in Modes, how \in Schedules, end \in Ends :
              [rec EXCEPT !.mode = mode, !.rule = how, !.end = end] \in RecurrenceType
        BY <2>1 DEF RecurrenceType
    <2>5. [rec EXCEPT !.status = "DELETED", !.active = FALSE] \in RecurrenceType
        BY <2>1 DEF RecurrenceType
    <2>6. CASE \E mode \in Modes, how \in Schedules, end \in Ends :
                  rec' = [rec EXCEPT !.mode = mode, !.rule = how, !.end = end]
        <3>1. PICK mode \in Modes, how \in Schedules, end \in Ends :
                  rec' = [rec EXCEPT !.mode = mode, !.rule = how, !.end = end]
            BY <2>6
        <3>. QED BY <2>4, <3>1
    <2>. QED BY <2>1, <2>2, <2>3, <2>5, <2>6
<1>5. owned' \in BOOLEAN
    <2>1. owned \in BOOLEAN
        BY DEF RecurrencesInv, RecurrencesTypeOK
    <2>2. owned' = owned \/ owned' = ~owned
        BY Zenon, RecurrencesSteps DEF JobStarts, Resume, GenerateRead, GenerateOne, GenerateFails, Restart, Pause,
            Update, OwnerChanges, StopBills, RemoveRows, RemoveCommit, DeleteEntry, EditEntry, Post, Settled, SettleBill,
            MoveBill, Becomes, Rewrite, NextDay, recurrenceVars
    <2>. QED BY <2>1, <2>2
<1>6. RecurrencesTypeOK'
    <2>1. removal'.locked \subseteq occ'
        BY <1>2 DEF RemovalSound
    <2>2. gen' \in [Generators -> GeneratorType]
        BY <1>1 DEF GenFit
    <2>3. RowsFit'
        BY <1>1 DEF RowsKept
    <2>4. /\ occ' \subseteq OccurrenceType /\ marks' \subseteq Modes \X Dates
          /\ \A o \in occ' : o.linked => o.status \in (IF o.mode = "BILL" THEN {"PENDING", "PAID", "CANCELED"}
                                                       ELSE {"SCHEDULED", "POSTED"})
        BY <2>3 DEF RowsFit
    <2>. QED BY Zenon, <1>3, <1>4, <1>5, <2>1, <2>2, <2>4 DEF RecurrencesTypeOK, GeneratorType, RecurrenceType
<1>. QED BY <1>1, <1>2, <1>3, <1>6 DEF RecurrencesInv, RowsKept, RowsFit

\* The invariant holds of every behaviour.
LEMMA RecurrencesSound == RecurrencesSpec => []RecurrencesInv
BY RecurrencesStart, NextInv, PTL DEF RecurrencesSpec

\* However many generations overlap, restart and repeat, two rows of a mode and a
\* date are there only when one was edited, deleted or moved: the unique index
\* keeps apart the rows that still stand where they were generated.
THEOREM DatesGeneratedOnce == RecurrencesSpec => []GeneratedAgainOnlyIfTouched
<1>1. RecurrencesInv => GeneratedAgainOnlyIfTouched
    BY DEF RecurrencesInv, LinkedApart, GeneratedAgainOnlyIfTouched
<1>. QED BY <1>1, RecurrencesSound, PTL

\* What is about to be inserted is one step, by the rule that was read, from a date
\* that was made, failed or that a bill was moved to, whatever is edited, deleted,
\* moved or updated while the generations overlap.
THEOREM GapsAreFailures == RecurrencesSpec => []SkippedOnlyByFailure
<1>1. RecurrencesInv => SkippedOnlyByFailure
    BY DEF RecurrencesInv, LoopsStepped
<1>. QED BY <1>1, RecurrencesSound, PTL

\* The removal of a recurrence leaves behind no scheduled row but one that a
\* generation inserted while it ran.
THEOREM RemovalLeavesNothingScheduled == RecurrencesSpec => []NothingScheduledLeft
<1>1. RecurrencesInv => NothingScheduledLeft
    BY DEF RecurrencesInv, NothingScheduledLeft
<1>. QED BY <1>1, RecurrencesSound, PTL

-----------------------------------------------------------------------------
(* Calendar: sums, and the days of the months *)

\* The terms f[1], ..., f[n] can be added up one by one.
AddsUp(g, N, f) == g = [n \in 0..N |-> IF n = 0 THEN 0 ELSE g[n - 1] + f[n]]

LEMMA SumsExist ==
    ASSUME NEW N \in Nat, NEW f, \A n \in 1..N : f[n] \in Int
    PROVE  \E g : AddsUp(g, N, f)
<1>. DEFINE Adds(k, g) == g \in [0..N -> Int] /\ g[0] = 0 /\ \A n \in 1..k : g[n] = g[n - 1] + f[n]
            Unreached == {k \in 0..N : \A g : ~Adds(k, g)}
<1>1. Unreached = {}
    <2>1. SUFFICES ASSUME Unreached # {} PROVE FALSE
        OBVIOUS
    <2>2. PICK k \in Unreached : \A m \in Unreached : k <= m
        <3>1. Unreached \in SUBSET Nat
            OBVIOUS
        <3>. QED BY <2>1, <3>1, Least
    <2>3. Adds(0, [n \in 0..N |-> 0])
        OBVIOUS
    <2>4. k \in 1..N /\ \E g : Adds(k - 1, g)
        <3>. HIDE DEF Adds
        <3>1. k # 0 /\ k \in 0..N
            BY <2>2, <2>3
        <3>2. k - 1 \in 0..N /\ ~(k <= k - 1)
            BY <3>1
        <3>. QED BY <2>2, <3>1, <3>2
    <2>5. PICK g : Adds(k - 1, g)
        BY <2>4
    <2>. DEFINE h == [g EXCEPT ![k] = g[k - 1] + f[k]]
    <2>6. h \in [0..N -> Int] /\ \A n \in 0..N : h[n] = IF n = k THEN g[k - 1] + f[k] ELSE g[n]
        BY <2>4, <2>5
    <2>7. h[0] = 0
        BY <2>4, <2>5, <2>6
    <2>8. ASSUME NEW n \in 1..k
          PROVE  h[n] = h[n - 1] + f[n]
        <3>1. n \in 0..N /\ n - 1 \in 0..N /\ n - 1 # k
            BY <2>4
        <3>2. CASE n = k
            BY <2>6, <3>1, <3>2
        <3>3. CASE n # k
            <4>1. n \in 1..(k - 1)
                BY <2>4, <3>3
            <4>. QED BY <2>5, <2>6, <3>1, <3>3, <4>1
        <3>. QED BY <3>2, <3>3
    <2>. HIDE DEF h
    <2>9. Adds(k, h)
        BY <2>6, <2>7, <2>8
    <2>. QED BY <2>2, <2>9
<1>2. PICK g : Adds(N, g)
    <2>. HIDE DEF Adds
    <2>. QED BY <1>1
<1>3. \A n \in 0..N : g[n] = IF n = 0 THEN 0 ELSE g[n - 1] + f[n]
    BY <1>2
<1>4. g = [n \in 0..N |-> g[n]]
    BY <1>2
<1>5. g = [n \in 0..N |-> IF n = 0 THEN 0 ELSE g[n - 1] + f[n]]
    BY <1>3, <1>4
<1>. QED BY <1>5 DEF AddsUp

\* What has been added up so far is a number.
LEMMA SumsFound ==
    ASSUME NEW N \in Nat, NEW f, \A n \in 1..N : f[n] \in Int, NEW g, AddsUp(g, N, f)
    PROVE  /\ g[0] = 0 /\ \A n \in 1..N : g[n] = g[n - 1] + f[n]
           /\ \A n \in 0..N : g[n] \in Int
<1>1. \A n \in 0..N : g[n] = IF n = 0 THEN 0 ELSE g[n - 1] + f[n]
    BY DEF AddsUp
<1>. DEFINE Wrong == {n \in 0..N : g[n] \notin Int}
<1>2. Wrong = {}
    <2>1. SUFFICES ASSUME Wrong # {} PROVE FALSE
        OBVIOUS
    <2>2. PICK k \in Wrong : \A m \in Wrong : k <= m
        <3>1. Wrong \in SUBSET Nat
            OBVIOUS
        <3>. QED BY <2>1, <3>1, Least
    <2>3. k \in 1..N /\ k - 1 \in 0..N
        BY <1>1, <2>2
    <2>4. g[k - 1] \in Int
        BY <2>2, <2>3
    <2>5. g[k] = g[k - 1] + f[k]
        BY <1>1, <2>3
    <2>. QED BY <2>2, <2>3, <2>4, <2>5
<1>3. \A n \in 1..N : g[n] = g[n - 1] + f[n]
    BY <1>1
<1>. QED BY <1>1, <1>2, <1>3

LEMMA MonthsLast == \A month : LastDayOf(month) \in 28..31
BY DEF LastDayOf

LEMMA DaysCounted ==
    /\ \A month \in 0..(LastMonth + 2) : DaysBefore[month] \in Int
    /\ \A month \in 0..(LastMonth + 1) : DaysBefore[month + 1] = DaysBefore[month] + LastDayOf(month)
<1>. DEFINE N == LastMonth + 2
            f == [n \in 1..N |-> LastDayOf(n - 1)]
<1>1. N \in Nat /\ \A n \in 1..N : f[n] \in Int
    BY CalendarAssumption, MonthsLast
<1>2. \A g : AddsUp(g, N, f) <=> g = [month \in 0..(LastMonth + 2) |->
                                        IF month = 0 THEN 0 ELSE g[month - 1] + LastDayOf(month - 1)]
    <2>1. \A g : [n \in 0..N |-> IF n = 0 THEN 0 ELSE g[n - 1] + f[n]]
               = [n \in 0..N |-> IF n = 0 THEN 0 ELSE g[n - 1] + LastDayOf(n - 1)]
        BY <1>1
    <2>. QED BY <2>1 DEF AddsUp
<1>3. DaysBefore = CHOOSE g : AddsUp(g, N, f)
    BY <1>2 DEF DaysBefore
<1>. HIDE DEF N, f
<1>4. AddsUp(DaysBefore, N, f)
    BY <1>1, <1>3, SumsExist
<1>5. /\ \A n \in 1..N : DaysBefore[n] = DaysBefore[n - 1] + f[n]
      /\ \A n \in 0..N : DaysBefore[n] \in Int
    BY <1>1, <1>4, SumsFound
<1>6. ASSUME NEW month \in 0..(LastMonth + 1)
      PROVE  DaysBefore[month + 1] = DaysBefore[month] + LastDayOf(month)
    <2>1. month + 1 \in 1..N /\ (month + 1) - 1 = month
        BY CalendarAssumption DEF N
    <2>2. f[month + 1] = LastDayOf(month)
        BY <2>1 DEF f
    <2>. QED BY <1>5, <2>1, <2>2
<1>. QED BY <1>5, <1>6 DEF N

\* A day carried over into the month before or after is that many days away.
LEMMA CarriedAlong ==
    ASSUME NEW month \in 1..(LastMonth + 1), NEW day \in (-27)..56
    PROVE  /\ DayNumber(Carried(month, day)) = DaysBefore[month] + day - 1
           /\ Carried(month, day).day \in 1..LastDayOf(Carried(month, day).month)
           /\ Carried(month, day).month \in {month - 1, month, month + 1}
           /\ day >= 1 => Carried(month, day).month # month - 1
           /\ day \in 1..LastDayOf(month) => Carried(month, day) = [month |-> month, day |-> day]
<1>1. /\ LastMonth \in Nat /\ month - 1 \in 0..(LastMonth + 1) /\ month \in 0..(LastMonth + 1)
      /\ (month - 1) + 1 = month
    BY CalendarAssumption
<1>2. /\ DaysBefore[month] = DaysBefore[month - 1] + LastDayOf(month - 1)
      /\ DaysBefore[month + 1] = DaysBefore[month] + LastDayOf(month)
      /\ DaysBefore[month - 1] \in Int /\ DaysBefore[month] \in Int
    BY <1>1, DaysCounted
<1>3. LastDayOf(month - 1) \in 28..31 /\ LastDayOf(month) \in 28..31 /\ LastDayOf(month + 1) \in 28..31
    BY MonthsLast
<1>4. CASE day < 1
    <2>1. Carried(month, day) = [month |-> month - 1, day |-> LastDayOf(month - 1) + day]
        BY <1>4 DEF Carried
    <2>. QED BY <1>1, <1>2, <1>3, <1>4, <2>1 DEF DayNumber
<1>5. CASE day > LastDayOf(month)
    <2>1. Carried(month, day) = [month |-> month + 1, day |-> day - LastDayOf(month)]
        BY <1>3, <1>5 DEF Carried
    <2>. QED BY <1>1, <1>2, <1>3, <1>5, <2>1 DEF DayNumber
<1>6. CASE day \in 1..LastDayOf(month)
    <2>1. Carried(month, day) = [month |-> month, day |-> day]
        BY <1>3, <1>6 DEF Carried
    <2>. QED BY <1>1, <1>2, <1>3, <1>6, <2>1 DEF DayNumber
<1>. QED BY <1>3, <1>4, <1>5, <1>6

-----------------------------------------------------------------------------
(* Calendar: the occurrences of a rule *)

OnCalendar(d) == d.month \in 1..LastMonth /\ d.day \in 1..LastDayOf(d.month)

\* Where the rule as it stands began, and how many occurrences came since.
From == IF base = NoDate THEN rule.start ELSE base
Since == IF base = NoDate THEN steps - 1 ELSE steps

Counted ==
    /\ Since \in Nat /\ OnCalendar(From) /\ OnCalendar(last)
    /\ Since = 0 => last = From
    /\ rule.frequency = "WEEKLY" => DayNumber(last) = DayNumber(From) + 7 * Since
    /\ rule.frequency # "WEEKLY" =>
          LET month == From.month + Since * MonthsOf(rule.frequency) IN
          /\ last.month = month
          /\ Since > 0 => last = [month |-> month, day |-> Smaller(RuleDay(rule), LastDayOf(month))]

OccurrencesCounted ==
    /\ subject = "rule" => rule \in Rules
    /\ IF last = NoDate THEN base = NoDate /\ steps = 0 ELSE Counted
    /\ subject # "rule" => last = NoDate

LEMMA RulesFit ==
    ASSUME NEW r \in Rules
    PROVE  /\ r.frequency \in Frequencies /\ OnCalendar(r.start) /\ r.start # NoDate /\ RuleDay(r) \in 1..31
           /\ \A f \in Frequencies, d \in MonthDays : [r EXCEPT !.frequency = f, !.day = d] \in Rules
<1>1. /\ r.frequency \in Frequencies /\ r.day \in MonthDays /\ r.start \in Starts
      /\ r.start.day <= LastDayOf(r.start.month)
    BY DEF Rules
<1>2. r.start.month \in 1..LastMonth /\ r.start.day \in 1..31 /\ LastDayOf(r.start.month) \in 28..31
    BY <1>1, CalendarAssumption, MonthsLast
<1>3. RuleDay(r) \in 1..31
    BY <1>1, <1>2, CalendarAssumption DEF RuleDay
<1>4. r.start # NoDate
    BY <1>2 DEF NoDate
<1>5. \A f \in Frequencies, d \in MonthDays : [r EXCEPT !.frequency = f, !.day = d] \in Rules
    BY DEF Rules
<1>6. OnCalendar(r.start)
    BY <1>1, <1>2 DEF OnCalendar
<1>. QED BY <1>1, <1>3, <1>4, <1>5, <1>6

\* The next date of a rule is a date, a week or some months on.
LEMMA NextFound ==
    ASSUME NEW r \in Rules, NEW before, OnCalendar(before), before # NoDate,
           CalculateNextOccurrenceDate(r, before).month <= LastMonth
    PROVE  LET next == CalculateNextOccurrenceDate(r, before)
               month == before.month + MonthsOf(r.frequency)
           IN  /\ OnCalendar(next)
               /\ r.frequency = "WEEKLY" => DayNumber(next) = DayNumber(before) + 7
               /\ r.frequency # "WEEKLY" => next = [month |-> month, day |-> Smaller(RuleDay(r), LastDayOf(month))]
<1>. DEFINE next == CalculateNextOccurrenceDate(r, before)
            month == before.month + MonthsOf(r.frequency)
<1>1. /\ LastMonth \in Nat /\ before.month \in 1..LastMonth /\ before.day \in 1..31 /\ RuleDay(r) \in 1..31
      /\ DaysBefore[before.month] \in Int
    <2>1. /\ LastMonth \in Nat /\ before.month \in 1..LastMonth /\ before.day \in 1..LastDayOf(before.month)
          /\ LastDayOf(before.month) \in 28..31 /\ RuleDay(r) \in 1..31
        BY CalendarAssumption, MonthsLast, RulesFit DEF OnCalendar
    <2>. QED BY <2>1, DaysCounted
<1>2. CASE r.frequency = "WEEKLY"
    <2>1. next = Carried(before.month, before.day + 7)
        BY <1>2 DEF CalculateNextOccurrenceDate, AddUtcDays
    <2>2. before.month \in 1..(LastMonth + 1) /\ before.day + 7 \in (-27)..56
        BY <1>1
    <2>. DEFINE c == Carried(before.month, before.day + 7)
    <2>3. /\ DayNumber(c) = DaysBefore[before.month] + (before.day + 7) - 1 /\ c.day \in 1..LastDayOf(c.month)
          /\ c.month \in {before.month - 1, before.month, before.month + 1}
          /\ before.day + 7 >= 1 => c.month # before.month - 1
        <3>. HIDE DEF c
        <3>. QED BY <2>2, CarriedAlong DEF c
    <2>4. c.month \in {before.month, before.month + 1}
        <3>. HIDE DEF c
        <3>. QED BY <1>1, <2>3
    <2>5. DayNumber(before) = DaysBefore[before.month] + before.day - 1
        BY DEF DayNumber
    <2>. HIDE DEF c
    <2>6. OnCalendar(next)
        BY <1>1, <2>1, <2>3, <2>4 DEF OnCalendar, c
    <2>7. DayNumber(next) = DayNumber(before) + 7
        BY <1>1, <2>1, <2>3, <2>5 DEF c
    <2>. QED BY <1>2, <2>6, <2>7
<1>3. CASE r.frequency # "WEEKLY"
    <2>1. next = [month |-> month, day |-> Smaller(RuleDay(r), LastDayOf(month))]
        BY <1>3 DEF CalculateNextOccurrenceDate, AddUtcMonths, WithUtcDayOfMonth
    <2>2. month \in Int /\ month >= 1
        BY <1>1 DEF MonthsOf
    <2>3. LastDayOf(month) \in 28..31
        BY MonthsLast
    <2>. HIDE DEF month, next
    <2>4. Smaller(RuleDay(r), LastDayOf(month)) \in 1..LastDayOf(month)
        BY <1>1, <2>3 DEF Smaller
    <2>5. next.month = month /\ next.day \in 1..LastDayOf(month) /\ month <= LastMonth
        BY <2>1, <2>4 DEF next
    <2>6. OnCalendar(next)
        BY <1>1, <2>2, <2>5 DEF OnCalendar
    <2>. QED BY <1>3, <2>1, <2>6 DEF next, month
<1>. QED BY <1>2, <1>3

LEMMA OccurrencesGoOn ==
    ASSUME OccurrencesCounted, steps \in Nat, Occur
    PROVE  OccurrencesCounted'
<1> DEFINE next == CalculateNextOccurrenceDate(rule, last)
<1>1. /\ subject = "rule" /\ rule \in Rules /\ next.month <= LastMonth
      /\ last' = next /\ steps' = steps + 1 /\ UNCHANGED <<subject, rule, base>>
    BY DEF Occur, OccurrencesCounted
<1>2. CASE last = NoDate
    <2>1. base = NoDate /\ steps = 0 /\ next = rule.start
        BY <1>2 DEF OccurrencesCounted, CalculateNextOccurrenceDate
    <2>2. last' # NoDate /\ last' = rule.start /\ OnCalendar(rule.start)
        BY <1>1, <2>1, RulesFit
    <2>3. Since' = 0 /\ From' = rule.start
        BY <1>1, <2>1 DEF Since, From
    <2>4. DayNumber(rule.start) \in Int /\ rule.start.month \in Int /\ MonthsOf(rule.frequency) \in Int
        BY <2>2, DaysCounted, CalendarAssumption, MonthsLast DEF OnCalendar, DayNumber, MonthsOf
    <2>5. Counted'
        BY <1>1, <2>2, <2>3, <2>4 DEF Counted, OnCalendar, DayNumber
    <2>. QED BY <1>1, <2>2, <2>5 DEF OccurrencesCounted
<1>3. CASE last # NoDate
    <2> DEFINE k == MonthsOf(rule.frequency)
    <2>1. /\ Counted /\ OnCalendar(last)
          /\ OnCalendar(next)
          /\ rule.frequency = "WEEKLY" => DayNumber(next) = DayNumber(last) + 7
          /\ rule.frequency # "WEEKLY" =>
                next = [month |-> last.month + k, day |-> Smaller(RuleDay(rule), LastDayOf(last.month + k))]
        BY <1>1, <1>3, NextFound DEF OccurrencesCounted, Counted
    <2>2. Since' = Since + 1 /\ From' = From /\ Since \in Nat
        BY <1>1, <2>1 DEF Since, From, Counted
    <2>3. last' # NoDate
        BY <1>1, <2>1 DEF OnCalendar, NoDate
    <2>4. /\ From.month \in Int /\ last.month \in Int /\ DayNumber(From) \in Int
          /\ k \in {1, 12}
        BY <2>1, DaysCounted, CalendarAssumption, MonthsLast DEF Counted, OnCalendar, DayNumber, MonthsOf
    <2>5. rule.frequency = "WEEKLY" => DayNumber(next) = DayNumber(From) + 7 * (Since + 1)
        BY <2>1, <2>2, <2>4 DEF Counted
    <2>6. rule.frequency # "WEEKLY" => last.month + k = From.month + (Since + 1) * k
        <3>1. rule.frequency # "WEEKLY" => last.month = From.month + Since * k
            BY <2>1 DEF Counted
        <3>2. (Since + 1) * k = Since * k + k /\ Since * k \in Int
            BY <2>2, <2>4
        <3>. QED BY <2>4, <3>1, <3>2
    <2>7. Since' \in Nat /\ Since' > 0
        BY <2>2
    <2>. HIDE DEF next, k
    <2>8. /\ OnCalendar(From)' /\ OnCalendar(last)'
          /\ rule'.frequency = "WEEKLY" => DayNumber(last)' = DayNumber(From)' + 7 * Since'
        <3>1. rule'.frequency = rule.frequency /\ last' = next
            BY <1>1
        <3>. QED BY <2>1, <2>2, <2>5, <3>1 DEF Counted, OnCalendar, DayNumber
    <2>9. rule'.frequency # "WEEKLY" =>
            LET month == From'.month + Since' * MonthsOf(rule'.frequency) IN
            /\ last'.month = month
            /\ last' = [month |-> month, day |-> Smaller(RuleDay(rule'), LastDayOf(month))]
        BY <1>1, <2>1, <2>2, <2>6 DEF k
    <2>10. Counted'
        BY <2>7, <2>8, <2>9 DEF Counted
    <2>. QED BY <1>1, <2>3, <2>10 DEF OccurrencesCounted
<1>. QED BY <1>2, <1>3

LEMMA RuleChanged ==
    ASSUME OccurrencesCounted, NEW frequency \in Frequencies, NEW day \in MonthDays, ChangeRule(frequency, day)
    PROVE  OccurrencesCounted'
<1>1. /\ subject = "rule" /\ rule \in Rules /\ last # NoDate /\ UNCHANGED <<subject, last>>
      /\ rule' = [rule EXCEPT !.frequency = frequency, !.day = day] /\ base' = last /\ steps' = 0
    BY DEF ChangeRule, OccurrencesCounted
<1>2. rule' \in Rules /\ OnCalendar(last)
    BY <1>1, RulesFit DEF OccurrencesCounted, Counted
<1>3. Since' = 0 /\ From' = last /\ last' = last
    BY <1>1 DEF Since, From
<1>4. DayNumber(last) \in Int /\ last.month \in Int /\ MonthsOf(rule'.frequency) \in Int
    BY <1>2, DaysCounted, CalendarAssumption, MonthsLast DEF OnCalendar, DayNumber, MonthsOf
<1>5. Counted'
    BY <1>2, <1>3, <1>4 DEF Counted, OnCalendar, DayNumber
<1>. QED BY <1>1, <1>2, <1>5 DEF OccurrencesCounted

LEMMA DaysKept == OccurrencesCounted => OccurrencesKeepTheirDay
<1>1. ASSUME OccurrencesCounted
      PROVE  LET from == IF base = NoDate THEN rule.start ELSE base
                 n    == IF base = NoDate THEN steps - 1 ELSE steps
                 months == from.month + n * MonthsOf(rule.frequency)
             IN  n > 0 => IF rule.frequency = "WEEKLY" THEN DayNumber(last) = DayNumber(from) + 7 * n
                          ELSE last = [month |-> months, day |-> Smaller(RuleDay(rule), LastDayOf(months))]
    <2>1. CASE last = NoDate
        BY <1>1, <2>1 DEF OccurrencesCounted
    <2>2. CASE last # NoDate
        BY <1>1, <2>2 DEF OccurrencesCounted, Counted, Since, From
    <2>. QED BY <2>1, <2>2
<1>. QED BY <1>1 DEF OccurrencesKeepTheirDay

-----------------------------------------------------------------------------
(* Calendar: the installments of a purchase *)

Installment == [amount : Int, date : [month : Int, day : Int]]

PurchaseDivided ==
    /\ parts \in Seq(Installment) /\ Len(parts) <= purchase.count
    /\ \A n \in 1..Len(parts) : parts[n] = Part(purchase, n)
    /\ purchase.count \in Nat /\ purchase.total \in Nat
    /\ purchase.count > 0 => purchase.date.month \in Nat /\ purchase.date.day \in Nat
    /\ purchase.count = 0 => purchase.total = 0

\* What even parts leave of a total is less than a cent for each of them.
LEMMA EvenParts ==
    ASSUME NEW total \in Nat, NEW count \in Nat \ {0}
    PROVE  /\ total \div count \in Nat
           /\ total - (total \div count) * count \in 0..(count - 1)
OBVIOUS

LEMMA PartOf ==
    ASSUME NEW p, NEW n \in Nat \ {0}, p.count \in Nat \ {0}, p.total \in Nat,
           p.date.month \in Nat, p.date.day \in Nat
    PROVE  Part(p, n) \in Installment
<1>. DEFINE even == p.total \div p.count
            day == Smaller(p.date.day, LastDayOf(p.date.month + (n - 1)))
<1>1. even \in Int /\ even * p.count \in Int
    BY EvenParts
<1>2. day \in Int
    BY MonthsLast DEF Smaller
<1>3. Part(p, n) = [amount |-> IF n = p.count THEN even + (p.total - even * p.count) ELSE even,
                    date |-> [month |-> p.date.month + (n - 1), day |-> day]]
    BY DEF Part, AddUtcMonths
<1>. HIDE DEF even, day
<1>4. (IF n = p.count THEN even + (p.total - even * p.count) ELSE even) \in Int
    BY <1>1
<1>. QED BY <1>2, <1>3, <1>4 DEF Installment

LEMMA PurchaseGoesOn ==
    ASSUME PurchaseDivided, Divide
    PROVE  PurchaseDivided'
<1> DEFINE n == Len(parts) + 1
<1>1. /\ Len(parts) < purchase.count /\ parts' = Append(parts, Part(purchase, n)) /\ UNCHANGED purchase
      /\ parts \in Seq(Installment) /\ Len(parts) \in Nat /\ purchase.count \in Nat
    BY DEF Divide, PurchaseDivided
<1>2. n \in Nat \ {0} /\ purchase.count \in Nat \ {0} /\ n <= purchase.count
    BY <1>1
<1>3. Part(purchase, n) \in Installment
    BY <1>2, PartOf DEF PurchaseDivided
<1>4. parts' \in Seq(Installment) /\ Len(parts') = n /\ \A i \in 1..n : parts'[i] = IF i = n THEN Part(purchase, n) ELSE parts[i]
    BY <1>1, <1>3
<1>5. \A i \in 1..Len(parts') : parts'[i] = Part(purchase', i)
    BY <1>1, <1>4 DEF PurchaseDivided
<1>. QED BY <1>1, <1>2, <1>4, <1>5 DEF PurchaseDivided

\* What the parts so far are.
Even == purchase.total \div purchase.count
Rest == purchase.total - Even * purchase.count

LEMMA PartsRead ==
    ASSUME PurchaseDivided, purchase.count > 0
    PROVE  /\ purchase.count \in Nat \ {0} /\ purchase.total \in Nat
           /\ Even \in Nat /\ Rest \in 0..(purchase.count - 1) /\ Even * purchase.count \in Nat
           /\ purchase.date.month \in Nat
           /\ \A n \in 1..Len(parts) :
                 /\ parts[n].amount = IF n = purchase.count THEN Even + Rest ELSE Even
                 /\ parts[n].date = AddUtcMonths(purchase.date, n - 1)
<1>1. purchase.count \in Nat \ {0} /\ purchase.total \in Nat /\ purchase.date.month \in Nat
    BY DEF PurchaseDivided
<1>2. Even \in Nat /\ Rest \in 0..(purchase.count - 1)
    BY <1>1, EvenParts DEF Even, Rest
<1>3. Even * purchase.count \in Nat
    BY <1>1, <1>2
<1>4. ASSUME NEW p, NEW n
      PROVE  /\ Part(p, n).amount = IF n = p.count THEN (p.total \div p.count) + (p.total - (p.total \div p.count) * p.count)
                                    ELSE p.total \div p.count
             /\ Part(p, n).date = AddUtcMonths(p.date, n - 1)
    BY DEF Part
<1>5. \A n \in 1..Len(parts) : /\ parts[n].amount = IF n = purchase.count THEN Even + Rest ELSE Even
                              /\ parts[n].date = AddUtcMonths(purchase.date, n - 1)
    BY <1>4 DEF PurchaseDivided, Even, Rest
<1>. QED BY <1>1, <1>2, <1>3, <1>5

\* The sum of the first n parts.
LEMMA PartsSum ==
    ASSUME PurchaseDivided, purchase.count > 0, Len(parts) = purchase.count,
           NEW sum, sum = [n \in 0..Len(parts) |-> IF n = 0 THEN 0 ELSE sum[n - 1] + parts[n].amount]
    PROVE  sum[purchase.count] = purchase.total
<1> DEFINE N == purchase.count
           f == [n \in 1..N |-> parts[n].amount]
           Wrong == {n \in 0..N : n < N /\ sum[n] # n * Even}
<1>1. /\ N \in Nat \ {0} /\ purchase.total \in Nat /\ Even \in Nat /\ Rest \in Int
      /\ Even * N \in Int /\ N - 1 \in 0..N /\ N - 1 < N /\ N \in 1..N
    BY PartsRead
<1>2. \A n \in 1..N : f[n] = (IF n = N THEN Even + Rest ELSE Even)
    BY PartsRead
<1>3. \A n \in 1..N : f[n] \in Int
    <2>. HIDE DEF f, N
    <2>. QED BY <1>1, <1>2
<1>4. AddsUp(sum, N, f)
    <2>1. [n \in 0..N |-> IF n = 0 THEN 0 ELSE sum[n - 1] + parts[n].amount]
          = [n \in 0..N |-> IF n = 0 THEN 0 ELSE sum[n - 1] + f[n]]
        <3>1. \A n \in 0..N : n # 0 => n \in 1..N /\ f[n] = parts[n].amount
            BY <1>1
        <3>. HIDE DEF f
        <3>. QED BY <3>1
    <2>2. sum = [n \in 0..N |-> IF n = 0 THEN 0 ELSE sum[n - 1] + parts[n].amount]
        OBVIOUS
    <2>. HIDE DEF f, N
    <2>. QED BY <2>1, <2>2 DEF AddsUp
<1>. HIDE DEF N, f
<1>5. /\ sum[0] = 0 /\ \A n \in 1..N : sum[n] = sum[n - 1] + f[n]
      /\ \A n \in 0..N : sum[n] \in Int
    BY <1>1, <1>3, <1>4, SumsFound
<1>6. Wrong = {}
    <2>1. SUFFICES ASSUME Wrong # {} PROVE FALSE
        OBVIOUS
    <2>2. PICK k \in Wrong : \A m \in Wrong : k <= m
        <3>1. Wrong \in SUBSET Nat
            BY <1>1
        <3>. QED BY <2>1, <3>1, Least
    <2>3. k # 0
        BY <1>1, <1>5, <2>2
    <2>4. k \in 1..N /\ k < N /\ k - 1 \in 0..N /\ k - 1 \notin Wrong
        BY <1>1, <2>2, <2>3
    <2>5. sum[k - 1] = (k - 1) * Even /\ f[k] = Even
        BY <1>1, <1>2, <2>4
    <2>6. (k - 1) * Even + Even = k * Even
        BY <1>1, <2>4
    <2>. QED BY <1>5, <2>2, <2>4, <2>5, <2>6
<1>7. sum[N - 1] = (N - 1) * Even
    <2>1. N - 1 \notin Wrong
        BY <1>6
    <2>. HIDE DEF N
    <2>. QED BY <1>1, <2>1
<1>8. sum[N] = (N - 1) * Even + (Even + Rest)
    <2>1. sum[N] = sum[N - 1] + f[N] /\ f[N] = Even + Rest
        BY <1>1, <1>2, <1>5
    <2>. QED BY <1>7, <2>1
<1>9. (N - 1) * Even + Even = Even * N /\ (N - 1) * Even \in Int
    BY <1>1
<1>10. sum[N] = purchase.total
    <2>1. Rest = purchase.total - Even * N
        BY DEF Rest, N
    <2>. QED BY <1>1, <1>8, <1>9, <2>1
<1>. QED BY <1>10 DEF N

LEMMA PurchaseAddsUp == PurchaseDivided => InstallmentsAddUp
<1>1. SUFFICES ASSUME PurchaseDivided, Len(parts) = purchase.count
               PROVE  LET sum[n \in 0..Len(parts)] == IF n = 0 THEN 0 ELSE sum[n - 1] + parts[n].amount IN
                      /\ sum[purchase.count] = purchase.total
                      /\ \A n \in 1..purchase.count :
                             /\ parts[n].amount \in (parts[purchase.count].amount - purchase.count + 1)..parts[purchase.count].amount
                             /\ parts[n].date.month = purchase.date.month + n - 1
                             /\ parts[n].date.day = Smaller(purchase.date.day, LastDayOf(parts[n].date.month))
    BY DEF InstallmentsAddUp
<1> DEFINE sum[n \in 0..Len(parts)] == IF n = 0 THEN 0 ELSE sum[n - 1] + parts[n].amount
           f == [n \in 1..Len(parts) |-> parts[n].amount]
<1>2. Len(parts) \in Nat /\ \A n \in 1..Len(parts) : f[n] \in Int /\ f[n] = parts[n].amount
    <2>1. parts \in Seq(Installment)
        BY <1>1 DEF PurchaseDivided
    <2>2. Len(parts) \in Nat /\ \A n \in 1..Len(parts) : parts[n] \in Installment
        BY <2>1
    <2>. QED BY <2>2 DEF Installment
<1>3. \A g : AddsUp(g, Len(parts), f)
             <=> g = [n \in 0..Len(parts) |-> IF n = 0 THEN 0 ELSE g[n - 1] + parts[n].amount]
    <2>1. \A g : [n \in 0..Len(parts) |-> IF n = 0 THEN 0 ELSE g[n - 1] + parts[n].amount]
               = [n \in 0..Len(parts) |-> IF n = 0 THEN 0 ELSE g[n - 1] + f[n]]
        BY <1>2
    <2>. QED BY <2>1 DEF AddsUp
<1>4. \E g : AddsUp(g, Len(parts), f)
    BY <1>2, SumsExist
<1>5. sum = [n \in 0..Len(parts) |-> IF n = 0 THEN 0 ELSE sum[n - 1] + parts[n].amount]
    <2>1. \E g : g = [n \in 0..Len(parts) |-> IF n = 0 THEN 0 ELSE g[n - 1] + parts[n].amount]
        BY <1>3, <1>4
    <2>. QED BY <2>1
<1>. HIDE DEF sum
<1>6. sum[purchase.count] = purchase.total
    <2>1. CASE purchase.count = 0
        BY <1>1, <1>5, <2>1 DEF PurchaseDivided
    <2>2. CASE purchase.count # 0
        <3>1. purchase.count > 0
            BY <1>1, <2>2 DEF PurchaseDivided
        <3>. QED BY <1>1, <1>5, <3>1, PartsSum
    <2>. QED BY <2>1, <2>2
<1>7. ASSUME NEW n \in 1..purchase.count
      PROVE  /\ parts[n].amount \in (parts[purchase.count].amount - purchase.count + 1)..parts[purchase.count].amount
             /\ parts[n].date.month = purchase.date.month + n - 1
             /\ parts[n].date.day = Smaller(purchase.date.day, LastDayOf(parts[n].date.month))
    <2>1. n \in Nat /\ purchase.count > 0 /\ n \in 1..Len(parts) /\ purchase.count \in 1..Len(parts)
        BY <1>1 DEF PurchaseDivided
    <2>2. /\ purchase.count \in Nat /\ Even \in Nat /\ Rest \in 0..(purchase.count - 1) /\ purchase.date.month \in Nat
          /\ parts[purchase.count].amount = Even + Rest
          /\ parts[n].amount = IF n = purchase.count THEN Even + Rest ELSE Even
          /\ parts[n].date = AddUtcMonths(purchase.date, n - 1)
        BY <1>1, <2>1, PartsRead
    <2>3. /\ parts[n].date.month = purchase.date.month + (n - 1)
          /\ parts[n].date.day = Smaller(purchase.date.day, LastDayOf(parts[n].date.month))
        BY <2>2 DEF AddUtcMonths
    <2>4. purchase.date.month + (n - 1) = purchase.date.month + n - 1
        BY <2>1, <2>2
    <2>5. parts[n].amount \in (parts[purchase.count].amount - purchase.count + 1)..parts[purchase.count].amount
        BY <2>1, <2>2
    <2>. QED BY <2>3, <2>4, <2>5
<1>. QED BY <1>6, <1>7 DEF sum

-----------------------------------------------------------------------------
(* Calendar: the page of a month *)

PageTurned == subject = "page" => leaf.weekStart \in 0..6 /\ leaf.month \in 1..(LastMonth + 1)

\* Days of the week come round after seven days.
ComesRound(a, b, start, offset) == offset \in 0..6 /\ (a + b - offset) % 7 = start

LEMMA WeeksComeRound ==
    ASSUME NEW a \in Int, NEW b \in Int, NEW start \in 0..6
    PROVE  ComesRound(a, b, start, (((a + b) % 7) - start + 7) % 7)
BY DEF ComesRound

LEMMA PageHolds == PageTurned /\ subject = "page" => PageHoldsItsMonth
<1>1. SUFFICES ASSUME leaf.weekStart \in 0..6, leaf.month \in 1..(LastMonth + 1)
               PROVE  PageHoldsItsMonth
    BY DEF PageTurned
<1> DEFINE month == leaf.month
           offset == (Weekday([month |-> month, day |-> 1]) - leaf.weekStart + 7) % 7
           days == [i \in 1..42 |-> Carried(month, i - offset)]
<1>2. days = PageDays(leaf)
    BY DEF PageDays
<1>3. DaysBefore[month] \in Int /\ LastDayOf(month) \in 28..31 /\ FirstWeekday \in Int
    BY <1>1, DaysCounted, MonthsLast, CalendarAssumption
<1>4. Weekday([month |-> month, day |-> 1]) = (DaysBefore[month] + FirstWeekday) % 7
    <2>1. DayNumber([month |-> month, day |-> 1]) = DaysBefore[month] + 1 - 1
        BY DEF DayNumber
    <2>2. DaysBefore[month] + 1 - 1 = DaysBefore[month]
        BY <1>3
    <2>. QED BY <2>1, <2>2 DEF Weekday
<1>5. offset \in 0..6 /\ (DaysBefore[month] + FirstWeekday - offset) % 7 = leaf.weekStart
    <2>1. ComesRound(DaysBefore[month], FirstWeekday, leaf.weekStart,
                     (((DaysBefore[month] + FirstWeekday) % 7) - leaf.weekStart + 7) % 7)
        BY <1>1, <1>3, WeeksComeRound
    <2>2. ComesRound(DaysBefore[month], FirstWeekday, leaf.weekStart, offset)
        BY <1>4, <2>1
    <2>. HIDE DEF offset, month
    <2>. QED BY <2>2 DEF ComesRound
<1>. HIDE DEF offset
<1>6. \A i \in 1..42 : days[i] = Carried(month, i - offset) /\ i - offset \in (-27)..56
    BY <1>5
<1>. HIDE DEF days
<1>7. ASSUME NEW i \in 1..42
      PROVE  DayNumber(days[i]) = DaysBefore[month] + (i - offset) - 1
    BY <1>1, <1>6, CarriedAlong
<1>8. ASSUME NEW day \in 1..LastDayOf(month)
      PROVE  \E i \in 1..42 : days[i] = [month |-> month, day |-> day]
    <2>1. day + offset \in 1..42 /\ (day + offset) - offset = day /\ day \in (-27)..56
        BY <1>3, <1>5
    <2>2. days[day + offset] = [month |-> month, day |-> day]
        BY <1>1, <1>6, <2>1, CarriedAlong
    <2>. QED BY <2>1, <2>2
<1>9. ASSUME NEW i \in 1..41
      PROVE  DayNumber(days[i + 1]) = DayNumber(days[i]) + 1
    <2>1. i \in 1..42 /\ i + 1 \in 1..42
        OBVIOUS
    <2>2. /\ DayNumber(days[i]) = DaysBefore[month] + (i - offset) - 1
          /\ DayNumber(days[i + 1]) = DaysBefore[month] + ((i + 1) - offset) - 1
        BY <1>7, <2>1
    <2>. QED BY <1>3, <1>5, <2>2
<1>10. Weekday(days[1]) = leaf.weekStart
    <2>1. DayNumber(days[1]) = DaysBefore[month] + (1 - offset) - 1
        BY <1>7
    <2>2. DayNumber(days[1]) + FirstWeekday = DaysBefore[month] + FirstWeekday - offset
        BY <1>3, <1>5, <2>1
    <2>. QED BY <1>5, <2>2 DEF Weekday
<1>. QED BY <1>2, <1>8, <1>9, <1>10 DEF PageHoldsItsMonth

-----------------------------------------------------------------------------
(* Calendar: the invariant *)

CalendarInv == steps \in Nat /\ OccurrencesCounted /\ PurchaseDivided /\ PageTurned

LEMMA CalendarStarts == CalendarInit => CalendarInv
<1>1. SUFFICES ASSUME CalendarInit
               PROVE  CalendarInv
    OBVIOUS
<1>2. OccurrencesCounted /\ steps \in Nat
    BY <1>1 DEF CalendarInit, OccurrencesCounted
<1>3. PurchaseDivided
    <2>1. parts = <<>> /\ parts \in Seq(Installment) /\ Len(parts) = 0
        BY <1>1 DEF CalendarInit
    <2>2. CASE subject = "purchase"
        <3>1. purchase \in [total : Totals, count : Counts, date : {r.start : r \in Rules}]
            BY <1>1, <2>2 DEF CalendarInit
        <3>2. /\ purchase.total \in Nat \ {0} /\ purchase.count \in Nat \ {0}
              /\ \E r \in Rules : purchase.date = r.start
            BY <3>1, CalendarAssumption
        <3>3. purchase.date.month \in Nat /\ purchase.date.day \in Nat
            <4>1. PICK r \in Rules : purchase.date = r.start
                BY <3>2
            <4>2. OnCalendar(purchase.date) /\ LastDayOf(purchase.date.month) \in 28..31 /\ LastMonth \in Nat
                BY <4>1, RulesFit, CalendarAssumption, MonthsLast
            <4>. QED BY <4>2 DEF OnCalendar
        <3>4. 1..Len(parts) = {} /\ Len(parts) <= purchase.count
            BY <2>1, <3>2
        <3>. QED BY <2>1, <3>2, <3>3, <3>4 DEF PurchaseDivided
    <2>3. CASE subject # "purchase"
        <3>1. purchase = [total |-> 0, count |-> 0, date |-> NoDate]
            BY <1>1, <2>3 DEF CalendarInit
        <3>. QED BY <2>1, <3>1 DEF PurchaseDivided
    <2>. QED BY <2>2, <2>3
<1>4. PageTurned
    <2>1. subject = "page" => leaf.month = 1 /\ leaf.weekStart \in {0, 1, 6}
        BY <1>1 DEF CalendarInit
    <2>. QED BY <2>1, CalendarAssumption DEF PageTurned
<1>. QED BY <1>2, <1>3, <1>4 DEF CalendarInv

LEMMA CalendarKept == CalendarInv /\ [CalendarNext \/ CalendarIdle]_calendarVars => CalendarInv'
<1>1. SUFFICES ASSUME CalendarInv, CalendarNext \/ CalendarIdle \/ UNCHANGED calendarVars
               PROVE  CalendarInv'
    OBVIOUS
<1>2. CASE Occur
    <2>1. OccurrencesCounted' /\ steps' \in Nat
        BY <1>1, <1>2, OccurrencesGoOn DEF CalendarInv, Occur
    <2>2. PurchaseDivided' /\ PageTurned'
        BY <1>1, <1>2 DEF Occur, CalendarInv, PurchaseDivided, PageTurned
    <2>. QED BY <2>1, <2>2 DEF CalendarInv
<1>3. ASSUME NEW frequency \in Frequencies, NEW day \in MonthDays, ChangeRule(frequency, day)
      PROVE  CalendarInv'
    <2>1. OccurrencesCounted' /\ steps' \in Nat
        BY <1>1, <1>3, RuleChanged DEF CalendarInv, ChangeRule
    <2>2. PurchaseDivided' /\ PageTurned'
        BY <1>1, <1>3 DEF ChangeRule, CalendarInv, PurchaseDivided, PageTurned
    <2>. QED BY <2>1, <2>2 DEF CalendarInv
<1>4. CASE Divide
    <2>1. PurchaseDivided'
        BY <1>1, <1>4, PurchaseGoesOn DEF CalendarInv
    <2>2. OccurrencesCounted' /\ PageTurned' /\ steps' \in Nat
        BY <1>1, <1>4 DEF Divide, CalendarInv, OccurrencesCounted, Counted, Since, From, PageTurned
    <2>. QED BY <2>1, <2>2 DEF CalendarInv
<1>5. CASE Turn
    <2>1. OccurrencesCounted' /\ PurchaseDivided' /\ steps' \in Nat
        BY <1>1, <1>5 DEF Turn, CalendarInv, OccurrencesCounted, Counted, Since, From, PurchaseDivided
    <2>2. PageTurned'
        <3>1. leaf' = [leaf EXCEPT !.month = @ + 1] /\ leaf.month < LastMonth /\ PageTurned /\ subject = "page"
            BY <1>1, <1>5 DEF Turn, CalendarInv
        <3>2. leaf'.weekStart = leaf.weekStart /\ (leaf'.month = leaf.month + 1 \/ leaf'.month = leaf.month)
            BY <3>1
        <3>. QED BY <3>1, <3>2, CalendarAssumption DEF PageTurned
    <2>. QED BY <2>1, <2>2 DEF CalendarInv
<1>6. CASE UNCHANGED calendarVars
    BY <1>1, <1>6 DEF calendarVars, CalendarInv, OccurrencesCounted, Counted, Since, From, PurchaseDivided, PageTurned
<1>. QED BY <1>1, <1>2, <1>3, <1>4, <1>5, <1>6 DEF CalendarNext, CalendarIdle

\* Occurrences keep their day, installments add up to the purchase and the page of
\* a month holds it, for any start, day, amount, number of parts and last month
\* (DatesAddUp, Calendar.tla).
THEOREM CalendarAddsUp == CalendarSpec => []DatesAddUp
<1>1. CalendarInv => DatesAddUp
    BY DaysKept, PurchaseAddsUp, PageHolds DEF CalendarInv, DatesAddUp
<1>. QED BY <1>1, CalendarStarts, CalendarKept, PTL DEF CalendarSpec
==============================================================================
