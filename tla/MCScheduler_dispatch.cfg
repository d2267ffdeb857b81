\* The documented rule that an uncertain worker stops new dispatch.
SPECIFICATION Spec
CONSTANTS
    extract = extract
    products = products
    load = load
    cleanup = cleanup
    alert = alert
    writes = writes
    Nodes = {extract, cleanup, products}
    Plan <- SidePlan
    Deps <- SideDeps
    Trigger <- SideTrigger
    Critical = {extract, products}
    ConditionFalse = {}
    MaxRetries <- SideRetries
    Unreadable = {}
    Refused = {}
    Priors <- NoHistory
    Origins = {}
    MaxParallel = 2
    Budgets = {writes}
    Demand <- SideDemand
    Limit <- OneWrite
    FailFast = FALSE
    Eager = TRUE
    Remote = TRUE
PROPERTIES
    UncertainStopsDispatch
