SPECIFICATION FairSpec
CONSTANTS
    i1 = i1  i2 = i2  l1 = l1  e1 = e1  e2 = e2  e3 = e3  d1 = d1  d2 = d2
    None = None  Blank = Blank
    Locations = {l1}
    LocationOf <- MCLocationOf
    Ids = {i1, i2}
    AccountOf <- MCSharedAccount
    Events = {e1}
    Installs = {e1}
    Valid = {e1}
    Endpoints = {Blank}
    Deliveries = {d1, d2}
    FailAt <- MCBeforeRecord
    MaxFailures = 1
PROPERTY InstallEventuallyProcessed
PROPERTY ImplementsEventLog
