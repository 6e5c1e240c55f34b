\* Broadcasts, closes and a shutdown on a server with two connections.
SPECIFICATION Spec
CONSTANTS
  PanicOn = {}
  OutGrow = FALSE
  InGrow = FALSE
  MsgErrs = {}
  MaxAddrs = 1
  Tokens = {t1, t2}
  NoConn = NoConn
  ALL = ALL
  QUEUE = QUEUE
  TIMER = TIMER
  IdSpace = 2
  QueueCap = 2
  Slots = {}
  NoTimer = NoTimer
  ShutdownOnInterrupt = TRUE
  OsMayFail = FALSE
  TcpNodelay = FALSE
  MayNotResolve = FALSE
  TimeoutErrs = {}
  NewTimeoutErrs = {}
  Modes = {TRUE}
  Calls = {"Broadcast", "Close", "Shutdown"}
  Replies = {}
  PeerActs = {"Connect", "Send", "Reset"}
  MaxConns = 2
INVARIANTS NoStranded ClosedOnce
SYMMETRY Symmetry
