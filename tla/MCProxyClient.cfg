CONSTANTS
  d1 = d1
  d2 = d2
  t1 = t1
  None = None
  Datagrams <- MCDatagrams
  TcpConns <- MCTcpConns
  PoolSize = 1
  MaxReadErrors = 0
SPECIFICATION FairSpec
INVARIANT BufferExclusive
INVARIANT NoBufferLeak
PROPERTY LoopsExitAfterStop
