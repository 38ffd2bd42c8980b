------------------------------ MODULE MCSignIn ------------------------------
EXTENDS SignIn, TLC

SignInSymmetry == Permutations(SignIns) \cup Permutations(Users) \cup Permutations(Profiles)

\* Bound: three of the five accounts there can be, and only one of them a
\* wallet's or a passkey's; another ends the behaviour.
FewAccounts ==
    /\ Cardinality(accounts) <= 3
    /\ Cardinality({a \in accounts : a[1] \in {"wallet", "passkey"}}) <= 1
=============================================================================
