\* What the fair loop does in the end.
SPECIFICATION FairSpec
CONSTANTS
  PanicOn = {}
  OutGrow = FALSE
  InGrow = FALSE
  MsgErrs = {"Capacity"}
  MaxAddrs = 1
  Tokens = {t1}
  NoConn = NoConn
  ALL = ALL
  QUEUE = QUEUE
  TIMER = TIMER
  IdSpace = 2
  QueueCap = 1
  Slots = {s1}
  NoTimer = NoTimer
  ShutdownOnInterrupt = TRUE
  OsMayFail = FALSE
  TcpNodelay = FALSE
  MayNotResolve = FALSE
  TimeoutErrs = {}
  NewTimeoutErrs = {"Http"}
  Modes = {TRUE}
  Calls = {"Shutdown", "Timeout"}
  Replies = {}
  PeerActs = {"Connect", "Send", "Reset"}
  MaxConns = 2
PROPERTIES ShutdownStops ResetNoticed TimeoutsFire
