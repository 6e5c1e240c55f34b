\* Timeouts that outlive their connection, a full timer, handlers that fail.
SPECIFICATION Spec
CONSTANTS
  PanicOn = {}
  OutGrow = FALSE
  InGrow = FALSE
  MsgErrs = {}
  MaxAddrs = 1
  Tokens = {t1}
  NoConn = NoConn
  ALL = ALL
  QUEUE = QUEUE
  TIMER = TIMER
  IdSpace = 2
  QueueCap = 2
  Slots = {s1, s2}
  NoTimer = NoTimer
  ShutdownOnInterrupt = TRUE
  OsMayFail = FALSE
  TcpNodelay = FALSE
  MayNotResolve = FALSE
  TimeoutErrs = {"Io", "Capacity"}
  NewTimeoutErrs = {}
  Modes = {TRUE}
  Calls = {"Timeout", "Cancel"}
  Replies = {"Message"}
  PeerActs = {"Connect", "Reset"}
  MaxConns = 2
INVARIANTS ClosedOnce NoPanic
SYMMETRY Symmetry
