----------------------------- MODULE EventLoop -----------------------------
(***************************************************************************)
(* The event loop of the library (src/src/io.rs, struct Handler): one      *)
(* thread that owns the listener, the slab of connections, the timer and   *)
(* the receiving end of the bounded command queue, and handles batches of  *)
(* readiness events.  Around it run the application's threads, which only  *)
(* hold Senders (src/src/communication.rs), and the peers.                 *)
(*                                                                         *)
(* A step of the loop is the handling of one event.  The other threads and *)
(* the peers step between any two of them.                                 *)
(***************************************************************************)
EXTENDS Connection, Sequences, FiniteSets

CONSTANTS
  Tokens,            \* indices of the slab: settings.max_connections of them
  NoConn,            \* a vacant slab entry
  ALL, QUEUE, TIMER, \* the reserved tokens
  IdSpace,           \* number of connection ids: 2^32 for the u32 counter
  QueueCap,          \* max_connections * queue_size
  Slots,             \* entries of the timer: TIMER_CAPACITY of them
  NoTimer,           \* a free timer entry
  ShutdownOnInterrupt, \* settings.shutdown_on_interrupt
  OsMayFail,         \* may register, reregister, connect, accept and poll fail
  TcpNodelay,        \* settings.tcp_nodelay: an option to be set on every socket
  MayNotResolve,     \* may an address passed to connect not resolve
  TimeoutErrs,       \* error kinds the user's on_timeout may return
  NewTimeoutErrs,    \* error kinds the user's on_new_timeout may return
  Modes,             \* TRUE: the application listens, FALSE: it does not
  Calls,             \* the Sender calls the application's threads make
  Replies,           \* the Sender calls made from callbacks on the loop's thread
  PeerActs,          \* what the peers do
  MaxConns           \* bound of the model: connections ever asked for

AllCalls == {"Message", "Broadcast", "Close", "Connect", "Shutdown", "Timeout", "Cancel"}

ASSUME LoopAssumption ==
  /\ {ALL, QUEUE, TIMER} \cap Tokens = {} /\ ALL # QUEUE /\ ALL # TIMER /\ QUEUE # TIMER
  /\ IdSpace \in Nat \ {0}
  /\ QueueCap \in Nat \ {0}
  /\ ShutdownOnInterrupt \in BOOLEAN /\ OsMayFail \in BOOLEAN /\ MayNotResolve \in BOOLEAN
  /\ TcpNodelay \in BOOLEAN
  /\ TimeoutErrs \subseteq Kinds /\ NewTimeoutErrs \subseteq Kinds
  /\ Modes \subseteq BOOLEAN
  /\ Calls \subseteq AllCalls
  /\ Replies \subseteq AllCalls \ {"Connect", "Cancel"}
  /\ PeerActs \subseteq {"Connect", "Send", "Close", "Reset"}
  /\ MaxConns \in Nat

\* Connections are numbered 1, 2, ... in the order their ids are drawn.
Uid == Nat \ {0}
Id == 0..(IdSpace - 1)
Conn == ConnOf(Uid, Id, Nat)

ASSUME VacantAssumption == NoConn \notin Conn

\* The Timeout struct, with the number of the sender that asked for it (0: the
\* broadcaster XnetSocket::broadcaster returns).
Timeout == [connection: Tokens \cup {ALL}, owner: Nat]
Handle == [slot: Slots, entry: Timeout]

ASSUME TimerAssumption == NoTimer \notin Timeout \cup Handle

Signals == {"Message", "Close", "Connect", "Shutdown", "Timeout", "Cancel"}
Command == [token: Tokens \cup {ALL}, signal: Signals, id: Id, from: Nat,
            timeout: Handle \cup {NoTimer}]

Event == [token: Tokens \cup {ALL, QUEUE, TIMER}, ready: SUBSET {"r", "w"}]

VARIABLES
  pc,         \* where the loop's thread is
  active,     \* Handler.state
  listener,   \* Handler.listener is Some
  slab,       \* Handler.connections
  home,       \* the token of the Sender of every connection ever numbered
  lost,       \* history: the connections given to Factory::connection_lost
  queue,      \* the commands in the channel
  queueArmed, \* the registration of queue_rx, oneshot, is armed
  timers,     \* Handler.timer
  due,        \* the entries of the timer whose time has come
  batch,      \* the events of the current tick still to be handled
  backlog     \* TCP connections waiting in the listener

loop == <<pc, active, listener, batch>>
vars == <<loop, slab, home, lost, queue, queueArmed, timers, due, backlog>>

Lost == [uid: Uid, closes: 0..2, registered: BOOLEAN]

TypeOK ==
  /\ pc \in {"init", "poll", "batch", "exited", "panicked", "blocked"}
  /\ active \in BOOLEAN /\ listener \in BOOLEAN
  /\ slab \in [Tokens -> Conn \cup {NoConn}]
  /\ home \in Seq(Tokens)
  /\ lost \subseteq Lost
  /\ queue \in Seq(Command)
  /\ queueArmed \in BOOLEAN
  /\ timers \in [Slots -> Timeout \cup {NoTimer}]
  /\ due \subseteq Slots
  /\ batch \subseteq Event
  /\ backlog \in Nat

Init ==
  /\ pc = "init" /\ active = FALSE /\ listener = FALSE
  /\ slab = [t \in Tokens |-> NoConn]
  /\ home = <<>> /\ lost = {}
  /\ queue = <<>> /\ queueArmed = FALSE
  /\ timers = [s \in Slots |-> NoTimer] /\ due = {}
  /\ batch = {} /\ backlog = 0

Live == {t \in Tokens : slab[t] # NoConn}
Running == pc \in {"poll", "batch"}

\* Mutant of IdOf: the counter does not wrap.
IdUnwrapped(u) == u - 1

\* next_connection_id: a wrapping counter.
NextUid == Len(home) + 1
IdOf(u) == (u - 1) % IdSpace

-----------------------------------------------------------------------------
(* Sender *)

\* The command the Sender of connection u (0: the broadcaster) puts in the queue.
CommandOf(u, call, h) ==
  [token |-> IF u = 0 \/ call = "Broadcast" THEN ALL ELSE home[u],
   signal |-> IF call = "Broadcast" THEN "Message" ELSE call,
   id |-> IF u = 0 THEN 0 ELSE IdOf(u), from |-> u, timeout |-> h]

\* The data of a direct message bears the number of its sender, a broadcast 0.
ItemOf(cmd) == IF cmd.token = ALL THEN 0 ELSE cmd.from

\* A queue after a callback of connection u, which may have called its Sender:
\* never when the queue is full, see SelfBlock.
Answered(told, u) ==
  {queue} \cup (IF told /\ Len(queue) < QueueCap
              THEN {Append(queue, CommandOf(u, call, NoTimer)) : call \in Replies} ELSE {})

\* Bound of the model: no more connections are asked for than MaxConns.
Asked == Len(home) + backlog + Cardinality({i \in 1..Len(queue) : queue[i].signal = "Connect"})
Room == Asked < MaxConns

\* A thread of the application calls its Sender; it waits while the queue is full.
\* Only a timeout handed out by on_new_timeout can be cancelled.
AppSend ==
  /\ pc \in {"init", "poll", "batch"}
  /\ Len(queue) < QueueCap
  /\ \E u \in 0..Len(home), call \in Calls :
       /\ call = "Connect" => Room
       /\ \E h \in IF call = "Cancel"
                   THEN {[slot |-> s, entry |-> timers[s]] : s \in {s \in Slots : timers[s] # NoTimer}}
                   ELSE {NoTimer} :
            queue' = Append(queue, CommandOf(u, call, h))
  /\ UNCHANGED <<loop, slab, home, lost, queueArmed, timers, due, backlog>>

-----------------------------------------------------------------------------
(* The kernel, the peers and the clock *)

PeerConnect ==
  /\ "Connect" \in PeerActs /\ listener /\ Running /\ Room
  /\ backlog' = backlog + 1
  /\ UNCHANGED <<loop, slab, home, lost, queue, queueArmed, timers, due>>

\* The peer of a connection sends data, closes, resets, or answers its handshake.
Peer ==
  /\ Running
  /\ \E t \in Live :
       \/ /\ "Send" \in PeerActs /\ slab[t].net = "up" /\ ~slab[t].data
          /\ slab' = [slab EXCEPT ![t].data = TRUE]
       \/ /\ "Close" \in PeerActs /\ slab[t].net = "up"
          /\ slab' = [slab EXCEPT ![t].net = "eof"]
       \/ /\ "Reset" \in PeerActs /\ slab[t].net \in {"up", "eof"}
          /\ slab' = [slab EXCEPT ![t].net = "reset"]
       \/ /\ slab[t].net = "syn"
          /\ \E n \in {"up", "refused"} : slab' = [slab EXCEPT ![t].net = n]
  /\ UNCHANGED <<loop, home, lost, queue, queueArmed, timers, due, backlog>>

TimerExpires ==
  /\ Running
  /\ \E s \in Slots \ due : timers[s] # NoTimer /\ due' = due \cup {s}
  /\ UNCHANGED <<loop, slab, home, lost, queue, queueArmed, timers, backlog>>

-----------------------------------------------------------------------------
(* Running the loop *)

Listen ==
  /\ pc = "init" /\ ~listener /\ TRUE \in Modes
  /\ listener' = TRUE
  /\ UNCHANGED <<pc, active, batch, slab, home, lost, queue, queueArmed, timers, due, backlog>>

Run ==
  /\ pc = "init" /\ listener \in Modes
  /\ pc' = "poll" /\ active' = TRUE /\ queueArmed' = TRUE
  /\ UNCHANGED <<listener, batch, slab, home, lost, queue, timers, due, backlog>>

\* No address can be bound, or the queue or the timer cannot be registered.
StartFails ==
  /\ pc = "init" /\ OsMayFail
  /\ pc' = "exited"
  /\ UNCHANGED <<active, listener, batch, slab, home, lost, queue, queueArmed, timers, due, backlog>>

\* What the kernel reports of a socket.
Readiness(c) ==
  (IF c.data \/ c.net \in {"eof", "reset", "refused"} THEN {"r"} ELSE {})
    \cup (IF c.net = "syn" THEN {} ELSE {"w"})

\* Oneshot registrations: only an armed one reports.  Errors are always reported.
Reports(c) ==
  /\ c.poll = "armed"
  /\ Readiness(c) \cap c.interest # {} \/ c.net \in {"reset", "refused"}

Ready ==
  {[token |-> t, ready |-> Readiness(slab[t]) \cap slab[t].interest] :
       t \in {t \in Live : Reports(slab[t])}}
    \cup {[token |-> ALL, ready |-> {"r"}] : b \in {b \in {TRUE} : listener /\ backlog > 0}}
    \cup {[token |-> QUEUE, ready |-> {"r"}] : b \in {b \in {TRUE} : queueArmed /\ queue # <<>>}}
    \cup {[token |-> TIMER, ready |-> {"r"}] : b \in {b \in {TRUE} : due # {}}}

\* Poll::poll returns every event that is ready and disarms the oneshot ones.
PollEvents ==
  /\ pc = "poll" /\ Ready # {}
  /\ pc' = "batch" /\ batch' = Ready
  /\ slab' = [t \in Tokens |-> IF t \in Live /\ Reports(slab[t])
                               THEN [slab[t] EXCEPT !.poll = "spent"] ELSE slab[t]]
  /\ queueArmed' = (queueArmed /\ queue = <<>>)
  /\ UNCHANGED <<active, listener, home, lost, queue, timers, due, backlog>>

\* A signal interrupts the poll, or it fails and ends the loop.
PollFails ==
  /\ pc = "poll" /\ OsMayFail
  /\ \/ pc' = "batch" /\ active' = ~ShutdownOnInterrupt
     \/ pc' = "exited" /\ active' = FALSE
  /\ UNCHANGED <<listener, batch, slab, home, lost, queue, queueArmed, timers, due, backlog>>

\* After the batch: check_count, then the condition of the loop.
FinishTick ==
  /\ pc = "batch" /\ batch = {}
  /\ active' = (active /\ ~(Live = {} /\ ~listener))
  /\ pc' = IF active' THEN "poll" ELSE "exited"
  /\ UNCHANGED <<listener, batch, slab, home, lost, queue, queueArmed, timers, due, backlog>>

\* mio puts the sockets' events into a batch before those of the user-space
\* registrations, the queue and the timer.
InOrder(e) == e.token \in {QUEUE, TIMER} => \A f \in batch : f.token \in {QUEUE, TIMER}
Handling(e) == pc = "batch" /\ e \in batch /\ InOrder(e)

-----------------------------------------------------------------------------
(* Scheduling and releasing connections *)

Armed(c) == [c EXCEPT !.poll = "armed", !.interest = c.events]

\* schedule: reregistering fails for a socket that is not registered, and may fail
\* when no event is asked for.
MayFail(c) == OsMayFail \/ c.poll = "off" \/ c.events = {}
MustFail(c) == c.poll = "off"

\* Mutant of Scheduled: the error is dropped.
ScheduledIgnored(c) ==
  (IF MustFail(c) THEN {} ELSE {Armed(c)}) \cup (IF MayFail(c) THEN {c} ELSE {})

\* The connection after schedule, an error having been reported to it.
Scheduled(c) ==
  (IF MustFail(c) THEN {} ELSE {Armed(c)}) \cup (IF MayFail(c) THEN {Error(c, "Io")} ELSE {})

Outcome(c, keep) == [conn |-> c, keep |-> keep]

\* Mutants of CheckActive: an inactive connection stays; nothing is rescheduled; a
\* failed schedule is taken to have called disconnect already.
CheckActiveKeeps(c) ==
  {Outcome(Armed(c), TRUE)} \cup (IF MayFail(c) THEN {Outcome(Error(c, "Io"), FALSE)} ELSE {})
CheckActiveUnarmed(c) == {Outcome(c, c.events # {})}
CheckActiveUntold(c) ==
  IF c.events = {} THEN {Outcome(c, FALSE)}
  ELSE (IF MustFail(c) THEN {} ELSE {Outcome(Armed(c), TRUE)})
         \cup (IF MayFail(c) THEN {Outcome(c, FALSE)} ELSE {})

\* check_active: release a connection that waits for no event, or that cannot be
\* scheduled.
CheckActive(c) ==
  IF c.events = {} THEN {Outcome(c, FALSE)}
  ELSE (IF MustFail(c) THEN {} ELSE {Outcome(Armed(c), TRUE)})
         \cup (IF MayFail(c) THEN {Outcome(Error(c, "Io"), FALSE)} ELSE {})

LostOf(c, reg) == [uid |-> c.uid, closes |-> c.closes, registered |-> reg]

\* Mutant of Settle: the entry of a lost connection stays occupied.
SettleOccupied(t, o) ==
  /\ slab' = [slab EXCEPT ![t] = o.conn]
  /\ lost' = IF o.keep \/ o.conn.crash THEN lost ELSE lost \cup {LostOf(o.conn, TRUE)}
  /\ pc' = IF o.conn.crash THEN "panicked" ELSE pc

\* Put the outcome of check_active into the slab, or hand the connection's handler
\* to Factory::connection_lost.  A panic on the way leaves the entry occupied.
Settle(t, o) ==
  /\ slab' = [slab EXCEPT ![t] = IF o.keep \/ o.conn.crash THEN o.conn ELSE NoConn]
  /\ lost' = IF o.keep \/ o.conn.crash THEN lost ELSE lost \cup {LostOf(o.conn, TRUE)}
  /\ pc' = IF o.conn.crash THEN "panicked" ELSE pc

-----------------------------------------------------------------------------
(* handle_event: the listener *)

NewConn == New(NextUid, IdOf(NextUid))

\* Mutant of Accepted: a failed registration leaves accept early.
AcceptedUnopened ==
  {Open(Armed(AsServer(NewConn)))}
    \cup (IF OsMayFail THEN {Error(AsServer(NewConn), "Io")} ELSE {})

\* accept: the connection gets an id and a Sender and is registered before it is
\* opened.  A failed registration is reported to it and it is opened all the same,
\* unless that panics before.
Accepted ==
  LET unregistered == Error(AsServer(NewConn), "Io") IN
  {Open(Armed(AsServer(NewConn)))}
    \cup (IF ~OsMayFail THEN {}
          ELSE {IF "NewConnection" \in PanicOn THEN unregistered ELSE Open(unregistered)})

\* set_nodelay is called, and fails.
OptionMayFail == TcpNodelay /\ OsMayFail

\* The socket is dropped when its option cannot be set or the slab is full.
HandleAccept ==
  \E e \in batch :
    /\ Handling(e) /\ e.token = ALL
    /\ batch' = batch \ {e}
    /\ backlog' = backlog - 1
    /\ \/ /\ OptionMayFail \/ Live = Tokens
          /\ pc' = IF "NewConnection" \in PanicOn THEN "panicked" ELSE pc
          /\ UNCHANGED <<slab, home>>
       \/ \E t \in Tokens \ Live, c \in Accepted :
              /\ slab' = [slab EXCEPT ![t] = c]
              /\ home' = Append(home, t)
              /\ pc' = IF c.poll = "off" /\ "NewConnection" \in PanicOn THEN "panicked" ELSE pc
    /\ UNCHANGED <<active, listener, lost, queue, queueArmed, timers, due>>

\* TcpListener::accept fails: logged, and the connection waits on.
AcceptFails ==
  \E e \in batch :
    /\ Handling(e) /\ e.token = ALL /\ OsMayFail
    /\ batch' = batch \ {e}
    /\ UNCHANGED <<pc, active, listener, slab, home, lost, queue, queueArmed, timers, due, backlog>>

-----------------------------------------------------------------------------
(* handle_event: a socket *)

\* The handling of a failed read or write; "reset" ends it.
Recover(r) ==
  IF r.err = "Refused" /\ CanReset(r.conn) THEN Result(Reset(r.conn), "reset", r.told)
  ELSE Result(Fail(r), "ok", r.told)

AfterRead(c, ready) ==
  IF "r" \in ready \cap c.events THEN {Recover(r) : r \in Read(c)} ELSE {Result(c, "ok", FALSE)}

AfterWrite(r, ready) ==
  IF r.err = "ok" /\ ~r.conn.crash /\ "w" \in ready \cap r.conn.events
  THEN {Result(Recover(w).conn, "ok", r.told) : w \in Write(r.conn)}
  ELSE {r}

HandleIo(c, ready) == UNION {AfterWrite(r, ready) : r \in AfterRead(c, ready)}

\* An event for a vacant slab entry makes the index expression panic.
HandleConn ==
  \E e \in batch :
    /\ Handling(e) /\ e.token \in Tokens
    /\ batch' = batch \ {e}
    /\ IF slab[e.token] = NoConn
       THEN pc' = "panicked" /\ UNCHANGED <<slab, lost, queue>>
       ELSE \E r \in HandleIo(slab[e.token], e.ready) :
              /\ \E o \in CheckActive(r.conn) : Settle(e.token, o)
              /\ queue' \in Answered(r.told, r.conn.uid)
    /\ UNCHANGED <<active, listener, home, queueArmed, timers, due, backlog>>

-----------------------------------------------------------------------------
(* handle_event: the timer *)

\* The callback on_timeout, and what an error of it does.
Triggered(c, owner, err) ==
  LET d == [c EXCEPT !.fired = @ \cup {owner}] IN IF err = "ok" THEN d ELSE Error(d, err)

\* Mutant of OnTimeout: the slab is indexed, as everywhere in handle_event.
OnTimeoutIndexed(t, owner) ==
  /\ pc' = IF t \in Live THEN pc ELSE "panicked"
  /\ UNCHANGED <<slab, lost, queue>>

\* Mutant of OnTimeout: a connection that is closing is not told.
OnTimeoutOpen(t, owner) ==
  IF t \notin Live \/ slab[t].state # "Open"
  THEN UNCHANGED <<pc, slab, lost, queue>>
  ELSE LET c == Triggered(slab[t], owner, "ok") IN
       /\ \E o \in CheckActive(c) : Settle(t, o)
       /\ queue' \in Answered(TRUE, c.uid)

\* handle_timeout: to whatever connection has the token, if any.
OnTimeout(t, owner) ==
  IF t \notin Live
  THEN UNCHANGED <<pc, slab, lost, queue>>
  ELSE \E err \in {"ok"} \cup TimeoutErrs :
         LET c == Triggered(slab[t], owner, err) IN
         /\ \E o \in CheckActive(c) : Settle(t, o)
         /\ queue' \in Answered(TRUE, c.uid)

\* One entry that is due.
HandleTimeout ==
  \E e \in batch, s \in due :
    /\ Handling(e) /\ e.token = TIMER
    /\ timers' = [timers EXCEPT ![s] = NoTimer] /\ due' = due \ {s}
    /\ OnTimeout(timers[s].connection, timers[s].owner)
    /\ UNCHANGED <<active, listener, batch, home, queueArmed, backlog>>

\* Timer::poll has no more entries.
TimersDone ==
  \E e \in batch :
    /\ Handling(e) /\ e.token = TIMER /\ due = {}
    /\ batch' = batch \ {e}
    /\ UNCHANGED <<pc, active, listener, slab, home, lost, queue, queueArmed, timers, due, backlog>>

\* The loop's thread sends while the queue is full and waits for itself: in a callback
\* (of the factory, on_message, on_timeout), or in XnetSocket::connect before run.
SelfBlock ==
  /\ Len(queue) >= QueueCap
  /\ \/ pc = "init" /\ "Connect" \in Calls
     \/ Replies # {} /\ \E e \in batch :
       /\ Handling(e)
       /\ \/ e.token = ALL /\ Live # Tokens
          \/ /\ e.token \in Live
             /\ \E r \in AfterRead(slab[e.token], e.ready) : r.told
          \/ e.token = TIMER /\ \E s \in due : timers[s].connection \in Live
  /\ pc' = "blocked"
  /\ UNCHANGED <<active, listener, batch, slab, home, lost, queue, queueArmed, timers, due, backlog>>

-----------------------------------------------------------------------------
(* handle_event: the queue, and handle_queue *)

\* Mutant of Take: the receiver is not rearmed.
TakeUnarmed(signal) ==
  \E e \in batch :
    /\ Handling(e) /\ e.token = QUEUE
    /\ queue # <<>> /\ Head(queue).signal = signal
    /\ queue' = Tail(queue)
    /\ batch' = batch \ {e}
    /\ UNCHANGED <<listener, backlog, queueArmed>>

\* One command is taken per event (the loop over MESSAGES_PER_TICK always breaks),
\* then the receiver is rearmed; a failure of that is ignored.
Take(signal) ==
  \E e \in batch :
    /\ Handling(e) /\ e.token = QUEUE
    /\ queue # <<>> /\ Head(queue).signal = signal
    /\ queue' = Tail(queue)
    /\ batch' = batch \ {e}
    /\ queueArmed' \in {TRUE} \cup (IF OsMayFail THEN {FALSE} ELSE {})
    /\ UNCHANGED <<listener, backlog>>

\* The state change of a command on one connection, before any scheduling.
Applied(cmd, c) ==
  CASE cmd.signal = "Message" -> SendMessage(c, ItemOf(cmd))
    [] cmd.signal = "Close" -> {Result(SendClose(c), "ok", FALSE)}
    [] OTHER -> {Result(c, "ok", FALSE)}

\* Mutant of Direct: the id of the command is not compared.
DirectUnchecked(cmd) ==
  LET t == cmd.token IN
  IF t \notin Live THEN {slab}
  ELSE {[slab EXCEPT ![t] = d] : d \in UNION {Scheduled(Fail(r)) : r \in Applied(cmd, slab[t])}}

\* A command of one connection: ignored unless that connection still has the slab
\* entry, whose connection is scheduled in any case.
Direct(cmd) ==
  LET t == cmd.token IN
  IF t \notin Live THEN {slab}
  ELSE {[slab EXCEPT ![t] = d] :
          d \in UNION {Scheduled(Fail(r)) :
            r \in IF slab[t].id = cmd.id THEN Applied(cmd, slab[t])
                  ELSE {Result(slab[t], "ok", FALSE)}}}

\* Mutant of Reported: a broadcast does not schedule the connections.
ReportedUnscheduled(r) == {Fail(r)}

\* A broadcast: applied to every connection, then every one is scheduled, then the
\* errors of both are reported.
Reported(r) ==
  (IF MustFail(r.conn) THEN {} ELSE {Fail([r EXCEPT !.conn = Armed(@)])})
    \cup (IF MayFail(r.conn) THEN {Error(Fail(r), "Io")} ELSE {})
Broadcast(cmd) ==
  LET After(t) == UNION {Reported(r) : r \in Applied(cmd, slab[t])}
  IN {f \in [Tokens -> {NoConn} \cup UNION {After(t) : t \in Live}] :
        \A t \in Tokens : IF t \in Live THEN f[t] \in After(t) ELSE f[t] = NoConn}

Crashed(s) == \E t \in Tokens : s[t] # NoConn /\ s[t].crash

Deliver(signal) ==
  LET cmd == Head(queue) IN
  /\ Take(signal)
  /\ slab' \in IF cmd.token = ALL THEN Broadcast(cmd) ELSE Direct(cmd)
  /\ pc' = IF Crashed(slab') THEN "panicked" ELSE pc
  /\ UNCHANGED <<active, home, lost, timers, due>>

QueueMessage == Deliver("Message")
QueueClose == Deliver("Close")

\* shutdown: every connection starts closing and the loop ends with this batch.
\* Only the connection with the command's token is scheduled, or all of them.
QueueShutdown ==
  LET cmd == Head(queue)
      down == [t \in Tokens |-> IF t \in Live THEN Shutdown(slab[t]) ELSE NoConn]
      chosen == IF cmd.token = ALL THEN Live ELSE {cmd.token} \cap Live
  IN /\ Take("Shutdown")
     /\ active' = FALSE
     /\ slab' \in {f \in [Tokens -> {NoConn} \cup UNION {{down[t]} \cup Scheduled(down[t]) : t \in Live}] :
                     \A t \in Tokens : IF t \in chosen THEN f[t] \in Scheduled(down[t])
                                       ELSE f[t] = down[t]}
     /\ pc' = IF "Shutdown" \in PanicOn \/ Crashed(slab') THEN "panicked" ELSE pc
     /\ UNCHANGED <<home, lost, timers, due>>

\* A connect that failed: reported to the connection that has the token now.
Refuse(cmd, kind) ==
  IF cmd.token \in Live
  THEN /\ slab' = [slab EXCEPT ![cmd.token] = Error(@, kind)]
       /\ pc' = IF Crashed(slab') THEN "panicked" ELSE pc
  ELSE /\ pc' = IF "NewConnection" \in PanicOn THEN "panicked" ELSE pc
       /\ UNCHANGED slab

\* connect: no entry is vacant; the address has no answer (unwrap); the option of the
\* socket cannot be set, which gives the handler to nobody; every address fails; the
\* registration fails; or one address is tried, n others are left.
QueueConnect ==
  LET cmd == Head(queue) IN
  /\ Take("Connect")
  /\ IF Live = Tokens
     THEN Refuse(cmd, "Capacity") /\ UNCHANGED <<home, lost>>
     ELSE \E t \in Tokens \ Live :
            /\ home' = Append(home, t)
            /\ \/ MayNotResolve /\ pc' = "panicked" /\ UNCHANGED <<slab, lost>>
               \/ OptionMayFail /\ Refuse(cmd, "Io") /\ UNCHANGED lost
               \/ /\ OsMayFail
                  /\ \E kind \in {"Internal", "Io"} : Refuse(cmd, kind)
                  /\ lost' = lost \cup {LostOf(NewConn, FALSE)}
               \/ /\ \E n \in 0..(MaxAddrs - 1) :
                       slab' = [slab EXCEPT ![t] = Armed(AsClient(Open(NewConn), n))]
                  /\ UNCHANGED <<pc, lost>>
  /\ UNCHANGED <<active, timers, due>>

\* on_new_timeout, called for every connection in the set with the new handle.
Announced(ts) ==
  LET After(c) == {c} \cup {Error(c, kind) : kind \in NewTimeoutErrs}
  IN {f \in [Tokens -> {NoConn} \cup UNION {After(slab[t]) : t \in Live}] :
        \A t \in Tokens : IF t \in ts THEN f[t] \in After(slab[t]) ELSE f[t] = slab[t]}

QueueTimeout ==
  LET cmd == Head(queue)
      told == IF cmd.token = ALL THEN Live ELSE {cmd.token} \cap Live
  IN /\ Take("Timeout")
     /\ \/ \E s \in Slots :
             /\ timers[s] = NoTimer
             /\ timers' = [timers EXCEPT ![s] = [connection |-> cmd.token, owner |-> cmd.from]]
             /\ slab' \in Announced(told)
             /\ pc' = IF Crashed(slab') THEN "panicked" ELSE pc
        \/ /\ \A s \in Slots : timers[s] # NoTimer
           /\ slab' = IF cmd.token \in Live
                      THEN [slab EXCEPT ![cmd.token] = Error(@, "Timer")] ELSE slab
           /\ pc' = IF (cmd.token = ALL /\ "Timer" \in PanicOn) \/ Crashed(slab')
                    THEN "panicked" ELSE pc
           /\ UNCHANGED timers
     /\ UNCHANGED <<active, home, lost, due>>

\* The entry is freed, due or not, unless the handle is an old one.
QueueCancel ==
  LET h == Head(queue).timeout
      found == h # NoTimer /\ timers[h.slot] = h.entry
  IN /\ Take("Cancel")
     /\ timers' = IF found THEN [timers EXCEPT ![h.slot] = NoTimer] ELSE timers
     /\ due' = IF found THEN due \ {h.slot} ELSE due
     /\ UNCHANGED <<pc, active, slab, home, lost>>

-----------------------------------------------------------------------------
HandleQueue ==
  \/ QueueMessage \/ QueueClose \/ QueueConnect \/ QueueShutdown
  \/ QueueTimeout \/ QueueCancel

\* The steps of the loop's thread.
LoopStep ==
  \/ PollEvents \/ PollFails \/ FinishTick
  \/ HandleAccept \/ AcceptFails \/ HandleConn
  \/ HandleTimeout \/ TimersDone \/ SelfBlock \/ HandleQueue

\* The loop has ended, panicked, or waits for itself.
Stopped == pc \in {"exited", "panicked", "blocked"} /\ UNCHANGED vars

Next ==
  \/ Listen \/ Run \/ StartFails \/ LoopStep
  \/ AppSend \/ PeerConnect \/ Peer \/ TimerExpires
  \/ Stopped

Spec == Init /\ [][Next]_vars

\* The loop's thread is never descheduled for ever.
FairSpec == Spec /\ WF_vars(LoopStep)

-----------------------------------------------------------------------------
(* Properties *)

\* Data reaches only the connection it was sent on, however the slab entry was
\* reused since: what out_buffer holds was sent on this connection or broadcast.
\* It is promised only while the ids have not wrapped.  (io.rs, handle_queue)
Routed ==
  Len(home) <= IdSpace => \A t \in Live : slab[t].out \subseteq {0, slab[t].uid}

\* The stage of connection u: its entry in the slab or what connection_lost was given;
\* "twice", which is no stage, when it is found more than once.
Entries(u) == {t \in Live : slab[t].uid = u}
Given(u) == {l \in lost : l.uid = u}
StageOf(c) ==
  CASE c.state = "Connecting" -> "dropped"
    [] c.state = "Open" /\ c.closes = 0 -> "open"
    [] c.state \notin {"Connecting", "Open"} /\ c.closes = 0 -> "closing"
    [] OTHER -> "told"
EndOf(l) == IF ~l.registered THEN "refused" ELSE IF l.closes > 0 THEN "lost" ELSE "untold"
LifeOf(u) ==
  CASE Entries(u) = {} /\ Given(u) = {} -> "dropped"
    [] Given(u) = {} /\ \E t \in Tokens : Entries(u) = {t} ->
         StageOf(slab[CHOOSE t \in Tokens : Entries(u) = {t}])
    [] Entries(u) = {} /\ \E l \in lost : Given(u) = {l} ->
         EndOf(CHOOSE l \in lost : Given(u) = {l})
    [] OTHER -> "twice"

Handlers == INSTANCE Lifecycle WITH life <- [u \in 1..Len(home) |-> LifeOf(u)]

\* The loop implements the life cycle of handlers: each is in one place, goes one way
\* through its stages, also when its slab entry is reused or system calls fail, and is
\* given up only after on_close.  (io.rs, accept, connect, check_active, handle_queue)
LifecycleSpec == Handlers!Spec

\* No connection is forgotten by the poll: one whose handler was not told on_close
\* waits for an event it is armed for, and for writability whenever output is left.
\* (io.rs, check_active and schedule; connection.rs, check_events)
NoStranded ==
  Running => \A t \in Live :
    LET c == slab[t]
        pending == \E e \in batch : e.token = t
    IN c.closes = 0 /\ c.poll # "off" =>
         /\ c.poll = "spent" <=> pending
         /\ ~pending => c.events \cap c.interest # {}
         /\ ~pending /\ c.out # {} => "w" \in c.events \cap c.interest

\* on_close is called once in the life of a connection, just before its handler is
\* given to connection_lost: never while it stays in the slab.
\* (connection.rs, disconnect; io.rs, check_active)
ClosedOnce ==
  /\ Running => \A t \in Live : slab[t].closes = 0
  /\ \A l \in lost : l.registered => l.closes = 1

\* Even when the system calls of the loop fail, no connection that was registered
\* is given to connection_lost before its handler was told on_close.
ClosedBeforeLost == \A l \in lost : l.registered => l.closes > 0

\* No event is handled for a slab entry that an earlier event of the same batch
\* vacated: without error kinds that panic and unresolvable names, nothing panics.
\* (io.rs, handle_event, the index expressions)
NoPanic == pc # "panicked"

\* Every connection in the slab has been opened, also when its registration failed and
\* the loop goes on: no command, timeout or event meets one that is still connecting.
\* Only a panic in accept leaves one.  (io.rs, accept and connect)
NeverConnecting == pc # "panicked" => \A t \in Live : slab[t].state # "Connecting"

\* A shutdown that is in the queue ends the loop.  (io.rs, shutdown, event_loop)
ShutdownStops ==
  (Running /\ \E i \in 1..Len(queue) : queue[i].signal = "Shutdown") ~> ~Running

\* The reset of a peer is noticed: its connection is released, or the loop ends.
ResetNoticed ==
  \A u \in 1..MaxConns :
    (Running /\ \E t \in Live : slab[t].uid = u /\ slab[t].net = "reset")
      ~> (~Running \/ \A t \in Live : slab[t].uid # u)

\* A timeout that is due is given to the connection that asked for it, also when it is
\* closing, while it keeps its slab entry.  (io.rs, handle_event, handle_timeout)
TimeoutsFire ==
  \A u \in 1..MaxConns :
    (Running /\ \E s \in due : timers[s].owner = u /\ timers[s].connection \in Entries(u))
      ~> (~Running \/ \A t \in Entries(u) : u \in slab[t].fired)

\* A timeout is given to the handler of the connection that asked for it.
\* (communication.rs, Sender::timeout)
TimeoutsRouted == Len(home) <= IdSpace => \A t \in Live : slab[t].fired \subseteq {0, slab[t].uid}

\* Closing sends a close code: a connection that starts closing has output for its
\* peer.  (communication.rs, Sender::close)
CloseCodeSent ==
  [][\A t \in Tokens :
       /\ t \in Live /\ slab'[t] # NoConn
       /\ slab[t].state = "Open" /\ slab'[t].state = "AwaitingClose"
       => slab'[t].out # {}]_vars
=============================================================================
