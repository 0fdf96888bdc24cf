CONSTANT KcpEnabled = TRUE
SPECIFICATION FairSpec
INVARIANT ClosedAfterBothHalves
PROPERTY RelayReturns
PROPERTY RefinesLifecycle
