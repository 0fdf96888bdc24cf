CONSTANTS
  d1 = d1
  d2 = d2
  t1 = t1
  None = None
  Datagrams <- MCDatagrams
  TcpConns <- MCTcpConns
  PoolSize = 1
  MaxReadErrors = 1

SPECIFICATION Spec
INVARIANT NoNilBackendPanic
