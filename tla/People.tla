------------------------------- MODULE People -------------------------------
\* The users of the application, who log in and belong to households.
EXTENDS Integers, FiniteSets

CONSTANTS Users, NoUser
=============================================================================
