SPECIFICATION Spec
CONSTANTS
    i1 = i1  i2 = i2  l1 = l1  e1 = e1  e2 = e2  e3 = e3  d1 = d1  d2 = d2
    None = None  Blank = Blank
    Locations = {l1}
    LocationOf <- MCLocationOf
    Ids = {i1, i2}
    AccountOf <- MCAccountOf
    Events = {e1, e2, e3}
    Installs = {e1}
    Valid = {e1, e2}
    Endpoints = {Blank}
    Deliveries = {d1, d2}
    FailAt <- MCSomewhere
    MaxFailures = 1
SYMMETRY Symmetry
INVARIANT TypeOK
INVARIANT HandledOnce
INVARIANT AcknowledgedIsProcessed
