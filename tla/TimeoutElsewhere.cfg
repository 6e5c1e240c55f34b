\* A timeout comes due when another connection has the slab entry.
SPECIFICATION Spec
CONSTANTS
  PanicOn = {}
  OutGrow = FALSE
  InGrow = FALSE
  MsgErrs = {}
  MaxAddrs = 1
  Tokens = {t1}
  NoConn = NoConn
  ALL = ALL
  QUEUE = QUEUE
  TIMER = TIMER
  IdSpace = 2
  QueueCap = 2
  Slots = {s1}
  NoTimer = NoTimer
  ShutdownOnInterrupt = TRUE
  OsMayFail = FALSE
  TcpNodelay = FALSE
  MayNotResolve = FALSE
  TimeoutErrs = {}
  NewTimeoutErrs = {}
  Modes = {TRUE}
  Calls = {"Timeout"}
  Replies = {}
  PeerActs = {"Connect", "Reset"}
  MaxConns = 2
INVARIANTS TimeoutsRouted
