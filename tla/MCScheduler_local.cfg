\* Four nodes, eager scheduling, local children, an unreadable source, no history.
SPECIFICATION Spec
CONSTANTS
    extract = extract
    products = products
    load = load
    cleanup = cleanup
    alert = alert
    writes = writes
    Nodes = {extract, load, products, alert}
    Plan <- ForkPlan
    Deps <- ForkDeps
    Trigger <- ForkTrigger
    Critical = {extract, load, products}
    ConditionFalse = {}
    MaxRetries <- ForkRetries
    Unreadable = {extract}
    Refused = {}
    Priors <- NoHistory
    Origins = {}
    MaxParallel = 2
    Budgets = {writes}
    Demand <- ForkDemand
    Limit <- OneWrite
    FailFast = FALSE
    Eager = TRUE
    Remote = FALSE
INVARIANTS
    TypeOK
    WithinBudgets
    SnapshotCurrent
    NeverRefused
    NeverStalls
    OutcomesJustified
PROPERTIES
    DependenciesSettled
