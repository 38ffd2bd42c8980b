SPECIFICATION Spec
CONSTANTS
    Profiles = {p1, p2}
    Wallets = {w1}
    Session = session
    SessionWallets = {s1}
    Delegations = {d1, d2}
    Requests = {r1, r2}
INVARIANT OneActiveDelegation
