\* Close signals on a server connection.
SPECIFICATION Spec
CONSTANTS
  PanicOn = {}
  OutGrow = FALSE
  InGrow = FALSE
  MsgErrs = {}
  MaxAddrs = 1
  Tokens = {t1}
  NoConn = NoConn
  ALL = ALL
  QUEUE = QUEUE
  TIMER = TIMER
  IdSpace = 2
  QueueCap = 2
  Slots = {}
  NoTimer = NoTimer
  ShutdownOnInterrupt = TRUE
  OsMayFail = FALSE
  TcpNodelay = FALSE
  MayNotResolve = FALSE
  TimeoutErrs = {}
  NewTimeoutErrs = {}
  Modes = {TRUE}
  Calls = {"Close"}
  Replies = {}
  PeerActs = {"Connect"}
  MaxConns = 1
PROPERTIES CloseCodeSent
