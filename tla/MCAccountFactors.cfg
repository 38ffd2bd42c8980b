\* Two requests of the account, two setups or new batches of backup codes.
SPECIFICATION Spec
CONSTANTS
    Requests = {r1, r2}
    BatchSize = 1
    MaxBatches = 2
    MaxAsserts = 2
INVARIANTS EnabledWasProven GateNeedsProof
SYMMETRY RequestSymmetry
\* An "encoded" passkey is never found again: nothing more happens.
CHECK_DEADLOCK FALSE
