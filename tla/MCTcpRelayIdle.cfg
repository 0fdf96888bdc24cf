CONSTANT KcpEnabled = TRUE
SPECIFICATION FairSpec
PROPERTY IdleRelayReturns
