\* One node through three runs with two attempts each: reuse chains, the
\* outbox across runs, late children of superseded attempts.
SPECIFICATION Spec
CONSTANTS
    Nodes = {extract}
    Critical = {extract}
    Operations = {receipt}
    Digests = {d1, d2}
    NoDigest = NoDigest
    Retryables = {TRUE}
    MaxRuns = 3
    MaxAttempts = 2
INVARIANTS
    TypeOK
    ParentIsPreviousRun
    OutputsHaveProvenance
    OneOpenRun
    ClosedRunDecision
    UncertainHoldsRunOpen
PROPERTIES
    ClaimedOnce
    ClosedRunFrozen
    UncertainQuarantined
    ImplementsBusinessKey
SYMMETRY DigestSymmetry
CHECK_DEADLOCK FALSE
