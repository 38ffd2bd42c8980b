\* Two requests at a time, any number in turn, and three accounts (FewAccounts).
SPECIFICATION Spec
CONSTANTS
    SignIns = {r1, r2}
    Users = {u1}
    Profiles = {p1}
    Strategies = {"google", "guest", "passkey", "wallet"}
    MaxGuests = 1
    NoOne = NoOne
INVARIANTS SignInTypeOK SignedInIsVerified TokensNameOwnProfile VerifiedIsProven
CONSTRAINT FewAccounts
SYMMETRY SignInSymmetry
\* Every request was handled.
CHECK_DEADLOCK FALSE
