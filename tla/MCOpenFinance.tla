---------------------------- MODULE MCOpenFinance ----------------------------
\* One transfer of the person's, seen from both of their accounts, and books
\* that hold nothing of it, its expense half as a statement brought it in, or an
\* expense of a third account that fits as well; or a connection through another
\* provider, whose keys are its own.
EXTENDS OpenFinance, Connections, TLC

CONSTANTS s1, s2

ThreeAccounts == {1, 2, 3}

SomeLogins == {{2}, {1, 2}}

TwoHalves == 1 :> [account |-> 1, out |-> TRUE, day |-> 0] @@ 2 :> [account |-> 2, out |-> FALSE, day |-> 0]

HalfEntry == [id |-> 1, type |-> "EXPENSE", accountId |-> 1, fromAccountId |-> None, toAccountId |-> None,
              amount |-> 1, day |-> 0, ext |-> None, by |-> "seed", edited |-> FALSE, stale |-> FALSE]

SomeMappings == {{}, {1}, {1, 2}}

ThirdEntry == [HalfEntry EXCEPT !.accountId = 3]

SomeBooks == {{}, {HalfEntry}, {ThirdEntry}}

SyncSymmetry == Permutations({s1, s2})

VARIABLE provider

ProvidersInit == OpenFinanceInit /\ ConnectionsInit /\ provider \in {"meupluggy", "fake"}

ProvidersNext ==
    /\ UNCHANGED provider
    /\ \/ provider = "meupluggy" /\ OpenFinanceNext /\ UNCHANGED connVars
       \/ provider = "fake" /\ (ConnectionsNext \/ ConnectionsIdle) /\ UNCHANGED ofVars

ProvidersSpec == ProvidersInit /\ [][ProvidersNext]_<<ofVars, connVars, provider>>
=============================================================================
