SPECIFICATION Spec
CONSTANTS
  TcpConns = {c1, c2, c3}
  CLIENTNUM = 3
  NoConn = NoConn
  UartConns = {u1, u2, u3}
  MAX_CLIENT_NUM = 2
  NoSock = NoSock
  LateConnects = FALSE
INVARIANTS TcpInv UartInv
PROPERTIES TcpStops UartMutexFreed UartStops
CHECK_DEADLOCK FALSE
