SPECIFICATION FairSpec
CONSTANTS
    cm1 = cm1  cm2 = cm2  cc1 = cc1  cd1 = cd1  cp1 = cp1
    e1 = e1  e2 = e2  e3 = e3  e4 = e4  l1 = l1  k1 = k1  t1 = t1  ch1 = ch1
    None = None
    Merchants = {m1}
    Slugs = {s1}
    Customers = {u1}
    Clients = {c1}
    Phones = {p1}
    Deposits = {d1}
    Backfilled = {}
    Payouts = {o1}
    Transactions = {t1}
    Charges = {ch1}
    Calls = {cm1, cc1, cd1}
    CallOp <- MCCallOp
    Ids = {i1}
    Locations = {l1}
    Keys = {k1}
    Events = {e1}
    EventOf <- MCEventOf
    Deliveries = {w1}
    Queries = {}
CHECK_DEADLOCK FALSE
PROPERTY CapturePopulatesDeposit
