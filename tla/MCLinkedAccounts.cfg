\* Two profiles that may share a wallet, and have session wallets that change.
SPECIFICATION Spec
CONSTANTS
    Profiles = {p1, p2}
    Wallets = {w1}
    Session = session
    SessionWallets = {s1, s2}
    Delegations = {d1}
    Requests = {r1, r2}
INVARIANTS LinkedTypeOK PathFollowsDelegations
PROPERTY UnlinkKeepsPrimary
CONSTRAINT FewChoices
SYMMETRY LinkSymmetry
