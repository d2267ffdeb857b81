\* A chain recovered from any history, under fail_fast and barrier scheduling.
SPECIFICATION Spec
CONSTANTS
    extract = extract
    products = products
    load = load
    cleanup = cleanup
    alert = alert
    writes = writes
    Nodes = {extract, load, cleanup}
    Plan <- ChainPlan
    Deps <- ChainDeps
    Trigger <- ChainTrigger
    Critical = {extract, load}
    ConditionFalse = {}
    MaxRetries <- ChainRetries
    Unreadable = {extract}
    Refused = {load}
    Priors <- AnyHistory
    Origins = {}
    MaxParallel = 2
    Budgets = {writes}
    Demand <- ChainDemand
    Limit <- OneWrite
    FailFast = TRUE
    Eager = FALSE
    Remote = FALSE
INVARIANTS
    ReuseOnlyBelowReuse
