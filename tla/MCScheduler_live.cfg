\* Three nodes under the fairness of the code: the run ends.
SPECIFICATION FairSpec
CONSTANTS
    extract = extract
    products = products
    load = load
    cleanup = cleanup
    alert = alert
    writes = writes
    Nodes = {extract, cleanup, products}
    Plan <- SidePlan
    Deps <- SideDeps
    Trigger <- SideTrigger
    Critical = {extract, products}
    ConditionFalse = {cleanup}
    MaxRetries <- SideRetries
    Unreadable = {}
    Refused = {}
    Priors <- NoHistory
    Origins = {}
    MaxParallel = 2
    Budgets = {writes}
    Demand <- SideDemand
    Limit <- OneWrite
    FailFast = FALSE
    Eager = TRUE
    Remote = FALSE
PROPERTIES
    RunEnds
