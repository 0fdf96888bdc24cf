CONSTANTS
  s1 = s1
  s2 = s2
  s3 = s3
  k1 = k1
  k2 = k2
  None = None
  Senders <- MCSenders
  Keys <- MCKeys
SPECIFICATION FairSpec
INVARIANT NatEntryLive
PROPERTY NoSocketLeak
