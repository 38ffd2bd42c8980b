\* Two tokens of any kinds, two requests in flight, two wrong guesses allowed.
SPECIFICATION Spec
CONSTANTS
    Tokens <- MCTokens
    Requests = {r1, r2}
    MaxAttempts = 2
    MaxRestarts = 1
INVARIANTS ConfirmedOnce GuessesBounded
PROPERTY KeepsPromise
SYMMETRY RequestSymmetry
\* Every token may have been generated and deleted: nothing is left to do.
CHECK_DEADLOCK FALSE
