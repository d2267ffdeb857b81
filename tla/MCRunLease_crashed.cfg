\* The documented rule that a crashed run retains its run lease.
SPECIFICATION Spec
CONSTANTS
    d1 = d1
    d2 = d2
    desk = desk
    job = job
    m1 = m1
    x1 = x1
    m2 = m2
    c1 = c1
    op = op
    Threads = {m1, x1, m2, c1, op}
    Drivers = {d1, d2, desk, job}
    DriverOf <- MCDriverOf
    Batches <- MCBatches
    Orchestrators = {d1, d2}
    Main <- MCMain
    Children = {c1}
    Desk = op
    MaxRows = 2
    Free = Free
    Orphan = Orphan
    Unread = Unread
PROPERTY
    CrashedRunRetainsLease
