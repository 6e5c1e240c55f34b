\* One slab entry that two connections use in turn, accepted by a server or asked
\* for by either side, and Senders that outlive their connection.
SPECIFICATION Spec
CONSTANTS
  PanicOn = {}
  OutGrow = FALSE
  InGrow = FALSE
  MsgErrs = {"Custom"}
  MaxAddrs = 1
  Tokens = {t1}
  NoConn = NoConn
  ALL = ALL
  QUEUE = QUEUE
  TIMER = TIMER
  IdSpace = 2
  QueueCap = 2
  Slots = {}
  NoTimer = NoTimer
  ShutdownOnInterrupt = TRUE
  OsMayFail = FALSE
  TcpNodelay = FALSE
  MayNotResolve = FALSE
  TimeoutErrs = {}
  NewTimeoutErrs = {}
  Modes = {TRUE, FALSE}
  Calls = {"Message", "Broadcast", "Close", "Connect"}
  Replies = {"Message"}
  PeerActs = {"Connect", "Send", "Close", "Reset"}
  MaxConns = 2
INVARIANTS Routed NoStranded ClosedOnce
PROPERTIES LifecycleSpec
