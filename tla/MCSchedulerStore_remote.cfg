\* A chain on a remote platform that may lose sight of its children, seen
\* from the control store.
SPECIFICATION Spec
CONSTANTS
    extract = extract
    products = products
    load = load
    cleanup = cleanup
    alert = alert
    writes = writes
    Nodes = {extract, load, cleanup}
    Plan <- ChainPlan
    Deps <- ChainDeps
    Trigger <- ChainTrigger
    Critical = {extract, load}
    ConditionFalse = {}
    MaxRetries <- ChainRetries
    Unreadable = {}
    Refused = {}
    Priors <- NoHistory
    Origins = {}
    MaxParallel = 2
    Budgets = {writes}
    Demand <- ChainDemand
    Limit <- OneWrite
    FailFast = FALSE
    Eager = TRUE
    Remote = TRUE
INVARIANTS
    OneWorkerPerNode
    UncertainContained
    QuietWhenClosed
PROPERTIES
    OnlyStoreOperations
