\* System calls fail, names do not resolve, and some errors panic.
SPECIFICATION Spec
CONSTANTS
  PanicOn = {"Internal", "Shutdown"}
  OutGrow = FALSE
  InGrow = FALSE
  MsgErrs = {}
  MaxAddrs = 1
  Tokens = {t1}
  NoConn = NoConn
  ALL = ALL
  QUEUE = QUEUE
  TIMER = TIMER
  IdSpace = 1
  QueueCap = 1
  Slots = {}
  NoTimer = NoTimer
  ShutdownOnInterrupt = TRUE
  OsMayFail = TRUE
  TcpNodelay = TRUE
  MayNotResolve = TRUE
  TimeoutErrs = {}
  NewTimeoutErrs = {}
  Modes = {TRUE, FALSE}
  Calls = {"Message", "Connect", "Shutdown"}
  Replies = {}
  PeerActs = {"Connect", "Reset"}
  MaxConns = 2
INVARIANTS TypeOK ClosedBeforeLost NeverConnecting NoStranded
PROPERTIES LifecycleSpec
