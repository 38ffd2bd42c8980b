SPECIFICATION Spec
CONSTANTS
    Profiles = {p1, p2}
    Wallets = {w1, w2}
    Session = session
    SessionWallets = {s1}
    Delegations = {}
    Requests = {r1}
INVARIANT OnePrimary
