SPECIFICATION Spec
CONSTANTS
    cm1 = cm1  cm2 = cm2  cc1 = cc1  cd1 = cd1  cp1 = cp1
    e1 = e1  e2 = e2  e3 = e3  e4 = e4  l1 = l1  k1 = k1  t1 = t1  ch1 = ch1
    None = None
    Merchants = {m1, m2}
    Slugs = {s1, s2}
    Customers = {u1}
    Clients = {c1}
    Phones = {p1}
    Deposits = {d1}
    Backfilled = {}
    Payouts = {o1}
    Transactions = {t1, t2}
    Charges = {ch1}
    Calls = {cm1, cm2, cc1, cd1, cp1}
    CallOp <- MCCallOp
    Ids = {}
    Locations = {l1}
    Keys = {k1, k2}
    Events = {}
    EventOf <- MCEventOf
    Deliveries = {}
    Queries = {}
CHECK_DEADLOCK FALSE
INVARIANT InsertIsReported
