----------------------------- MODULE Connection -----------------------------
(***************************************************************************)
(* One connection of the socket library, as src/src/connection.rs has it:  *)
(* a record holding what the event loop reads and writes, and one operator *)
(* per method.  A method that can end in several ways (a system call, a    *)
(* user callback) is a set of results.                                     *)
(*                                                                         *)
(* Bytes are abstracted: out_buffer is the set of the senders whose data   *)
(* is not all written yet, in_buffer the flag "its vector is not empty".   *)
(* The modules OutBuffer and InBuffer hold the byte-level detail.          *)
(***************************************************************************)
EXTENDS Integers

CONSTANTS
  PanicOn,      \* settings.panic_on_*: the error kinds (and events) that panic
  OutGrow,      \* settings.out_buffer_grow
  InGrow,       \* settings.in_buffer_grow
  MsgErrs,      \* error kinds the user's on_message may return
  MaxAddrs      \* most addresses a name resolves to

Kinds == {"Internal", "Capacity", "Protocol", "Encoding", "Io", "Http",
          "Queue", "Timer", "Custom"}

\* Settings has no panic flag for Http and Custom errors; the last two flags
\* are about new connections and shutdown instead of an error kind.
Panics == (Kinds \ {"Http", "Custom"}) \cup {"NewConnection", "Shutdown"}

ASSUME ConnectionAssumption ==
  /\ PanicOn \subseteq Panics
  /\ OutGrow \in BOOLEAN /\ InGrow \in BOOLEAN
  /\ MsgErrs \subseteq Kinds
  /\ MaxAddrs \in Nat \ {0}

States == {"Connecting", "Open", "AwaitingClose", "RespondingClose", "FinishedClose"}

\* What the kernel knows of the socket: a client's handshake in flight, both
\* directions up, the peer's FIN received, a reset, a refused connect.
Nets == {"syn", "up", "eof", "reset", "refused"}

\* The mio interests a connection may have.
Interests == SUBSET {"r", "w"}

\* uid, closes and fired are history: the number of the connection, how often
\* on_close was called (2 stands for more), whose timeouts on_timeout was given.
ConnOf(Uid, Id, Sender) ==
  [uid: Uid, id: Id, state: States, client: BOOLEAN, addrs: 0..MaxAddrs,
   events: Interests, out: SUBSET Sender, got: BOOLEAN, data: BOOLEAN, net: Nets,
   poll: {"off", "armed", "spent"}, interest: Interests,
   closes: 0..2, fired: SUBSET Sender, crash: BOOLEAN]

IsClosing(c) == c.state \in {"AwaitingClose", "FinishedClose"}

\* Connection::new: an accepted or connecting socket, not registered yet.
New(u, i) ==
  [uid |-> u, id |-> i, state |-> "Connecting", client |-> FALSE, addrs |-> 0,
   events |-> {}, out |-> {}, got |-> FALSE, data |-> FALSE, net |-> "up",
   poll |-> "off", interest |-> {}, closes |-> 0, fired |-> {}, crash |-> FALSE]

\* open, only ever called on a new connection.
Open(c) == [c EXCEPT !.state = "Open"]

AsServer(c) == [c EXCEPT !.events = @ \cup {"r"}]

\* as_client: `connect` has opened the connection before, the state its match wants.
AsClient(c, n) ==
  [c EXCEPT !.addrs = n, !.events = @ \cup {"r"}, !.client = TRUE, !.net = "syn"]

\* Mutant of CheckEvents: output does not ask for writability.
CheckEventsReadable(c) == [c EXCEPT !.events = @ \cup {"r"}]

\* check_events: always readable, writable while output is left.
CheckEvents(c) ==
  IF c.state = "Connecting" THEN c
  ELSE [c EXCEPT !.events = @ \cup {"r"} \cup (IF c.out = {} THEN {} ELSE {"w"})]

\* Mutant of Disconnect: a connection that is closing is taken to be told already.
DisconnectQuiet(c) ==
  [c EXCEPT !.closes = IF c.state # "Open" THEN @ ELSE IF @ = 2 THEN 2 ELSE @ + 1,
            !.events = {}]

\* disconnect: on_close, unless the closing handshake has told the handler.
Disconnect(c) ==
  [c EXCEPT !.closes = IF c.state \in {"RespondingClose", "FinishedClose", "Connecting"}
                         THEN @
                         ELSE IF @ = 2 THEN 2 ELSE @ + 1,
            !.events = {}]

\* send_close: changes the state and buffers nothing for the peer.
SendClose(c) ==
  CheckEvents([c EXCEPT !.state = CASE @ = "Open" -> "AwaitingClose"
                                    [] @ = "RespondingClose" -> "FinishedClose"
                                    [] OTHER -> @])

\* error: report to the handler, then close, disconnect or go on, by kind.
Error(c, kind) ==
  CASE c.state = "Connecting" ->
         [c EXCEPT !.events = IF c.client THEN {} ELSE (@ \ {"r"}) \cup {"w"}]
    [] c.state # "Connecting" /\ kind \in PanicOn ->
         [c EXCEPT !.crash = TRUE]
    [] c.state # "Connecting" /\ kind \notin PanicOn ->
         CASE kind \in {"Internal", "Capacity", "Protocol", "Encoding"} -> SendClose(c)
           [] kind \in {"Http", "Io"} -> Disconnect(c)
           [] OTHER -> c

-----------------------------------------------------------------------------
\* The result of a fallible method: the connection after it, its error kind
\* ("ok" when none, "Refused" for an Io error CONNECTION_REFUSED) and whether
\* it called on_message.
Result(c, err, told) == [conn |-> c, err |-> err, told |-> told]

\* The handling of a result by the event loop.
Fail(r) == CASE r.err = "ok" -> r.conn
             [] r.err = "Refused" -> Error(r.conn, "Io")
             [] OTHER -> Error(r.conn, r.err)

\* send_message, with check_buffer_out: a message may be empty; a full buffer that
\* may not grow is an error, and full it can only be of data not yet written.
SendMessage(c, m) ==
  IF IsClosing(c) THEN {Result(c, "ok", FALSE)}
  ELSE {Result(CheckEvents([c EXCEPT !.out = out]), "ok", FALSE) : out \in {c.out, c.out \cup {m}}}
         \cup (IF OutGrow \/ c.out = {} THEN {} ELSE {Result(c, "Capacity", FALSE)})

\* read_data: the bytes are no text, or on_message is called and may fail.
ReadData(c) ==
  {Result(c, "Encoding", FALSE), Result(c, "ok", TRUE)}
     \cup {Result(c, e, TRUE) : e \in MsgErrs}

\* Mutant of ReadEof: the end of the stream is not told to the handler.
ReadEofQuiet(c) == IF c.got THEN c ELSE [c EXCEPT !.events = {}]

\* The tail of read after a successful read_data at end of file: only an
\* in_buffer that never held a byte counts as length 0.
ReadEof(c) ==
  IF c.got THEN c
  ELSE IF "w" \in c.events THEN [c EXCEPT !.events = @ \ {"r"}]
  ELSE Disconnect(c)

\* read, with buffer_in.  Data that fills in_buffer exactly stays in it without
\* a callback (the third set) or overflows it (the fourth).
Read(c) ==
  LET d == [c EXCEPT !.data = FALSE, !.got = TRUE] IN
  CASE c.state = "Connecting" -> {Result(c, "Internal", FALSE)}
    [] c.state # "Connecting" /\ c.data ->
         ReadData(d) \cup {Result(d, "ok", FALSE)}
           \cup (IF InGrow THEN {} ELSE {Result(d, "Capacity", FALSE)})
    [] c.state # "Connecting" /\ ~c.data ->
         CASE c.net = "eof" ->
                {IF r.err = "ok" THEN Result(ReadEof(r.conn), "ok", TRUE) ELSE r :
                    r \in {q \in ReadData(c) : q.err = "Encoding" => c.got}}
           [] c.net = "reset" -> {Result(c, "Io", FALSE)}
           [] c.net = "refused" -> {Result(c, "Refused", FALSE)}
           [] OTHER -> {Result(c, "ok", FALSE)}

\* write: the socket takes some or all of the output, would block, or fails.  A
\* server's last write when FinishedClose ends the connection.
Write(c) ==
  LET w == [c EXCEPT !.events = @ \ {"w"}] IN
  CASE c.state = "Connecting" -> {Result(c, "Internal", FALSE)}
    [] c.state # "Connecting" /\ c.net = "reset" -> {Result(w, "Io", FALSE)}
    [] c.state # "Connecting" /\ c.net = "refused" -> {Result(w, "Refused", FALSE)}
    [] OTHER ->
         IF c.out = {} /\ c.state = "FinishedClose" /\ ~c.client
         THEN {Result([w EXCEPT !.events = {}], "ok", FALSE)}
         ELSE {Result(CheckEvents([w EXCEPT !.out = left]), "ok", FALSE) : left \in SUBSET c.out}

\* reset: a refused client goes on to its next address, while it is connecting.
CanReset(c) == c.client /\ c.state = "Connecting" /\ c.addrs > 0
Reset(c) == [c EXCEPT !.addrs = @ - 1, !.events = (@ \ {"w"}) \cup {"r"}, !.net = "syn",
                      !.poll = "armed", !.interest = (c.events \ {"w"}) \cup {"r"}]

\* Mutant of Shutdown: the connection is cut at once.
ShutdownCuts(c) == Disconnect(c)

\* shutdown: on_shutdown, then send_close, which never fails.
Shutdown(c) == SendClose(c)
=============================================================================
