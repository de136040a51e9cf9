SPECIFICATION Spec
CONSTANTS
    i1 = i1
    i2 = i2
    c1 = c1
    c2 = c2
    c3 = c3
    c4 = c4
    None = None
    Integrations <- MCIntegrations
    Calls <- MCCalls
SYMMETRY RefreshSymmetry
INVARIANTS TypeOK CurrentTokenIsKept SuccessIsStored
PROPERTIES LossIsFinal ImplementsTokenCustody
CHECK_DEADLOCK FALSE
