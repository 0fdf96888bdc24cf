CONSTANTS
  d1 = d1
  d2 = d2
  t1 = t1
  None = None
  Datagrams <- MCOneDatagram
  TcpConns <- MCTcpConns
  PoolSize = 1
  MaxReadErrors = 1
SPECIFICATION FairSpec
INVARIANT BufferExclusive
 
PROPERTY LoopsExitAfterStop
