----------------------------- MODULE MCMembers ------------------------------
\* Two people. One browser with two tabs, used by the one who is remembered and by
\* the one who is not; or their household, with one account and two requests at a
\* time. A request names its user by an access token, whichever session gave it out.
EXTENDS Sessions, Households, TLC

CONSTANTS u1, u2, d1, t1, t2, a1, x1, r1, r2

MCDeviceOf == [t \in Tabs |-> d1]
Peers == {f @@ g : f \in Permutations(Tabs), g \in Permutations(Requests)}

VARIABLE concern

MembersInit == SessionsInit /\ HouseholdsInit /\ concern \in {"session", "household"}

MembersNext ==
    /\ UNCHANGED concern
    /\ \/ concern = "session" /\ SessionsNext /\ UNCHANGED householdVars
       \/ concern = "household" /\ HouseholdsNext /\ UNCHANGED sessionVars

MembersSpec == MembersInit /\ [][MembersNext]_<<sessionVars, householdVars, concern>>
=============================================================================
