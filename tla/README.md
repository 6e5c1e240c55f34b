# A TLA+ development of XnetSocket

XnetSocket is an event-driven TCP library: one thread runs a `mio` event loop that owns every
connection, and the rest of the application talks to it through `Sender`s, over one bounded
channel. This directory models the loop, the connections and their buffers, checks them with TLC
and proves the central properties, and those of the conversions, with TLAPS. Paths below are relative to the repository root.

## 1. Inventory

| Component | State it keeps | Operations |
|---|---|---|
| Event loop, `src/io.rs` (`Handler<F>`) | listener, slab of connections, timer, both ends of the command queue, `state`, `next_connection_id`, the batch of events of the tick | `listen`, `run`, `event_loop`, `handle_event`, `accept`, `connect`, `handle_queue`, `handle_timeout`, `schedule`, `check_active`, `check_count`, `shutdown` |
| Connection, `src/connection.rs` | `state`, `events`, `in_buffer`, `out_buffer`, `endpoint`, `addresses`, `connection_id` | `open`, `as_server`, `as_client`, `reset`, `read`, `write`, `send_message`, `send_close`, `error`, `disconnect`, `shutdown`, `check_events`, `check_buffer_out`, `buffer_in` |
| Senders, `src/communication.rs` | token, connection id, the sending end of the queue | `send`, `broadcast`, `close`, `close_with_reason`, `connect`, `shutdown`, `timeout`, `cancel` |
| Stream, `src/stream.rs` | the socket | `try_read_buf`, `try_write_buf` |
| XnetSocket, Builder, Settings, `src/lib.rs` | poll, settings | `listen`, `connect`, `run`, `broadcaster` |
| Handler, Factory, `src/handler.rs`, `src/factory.rs` | the user's | callbacks `on_message`, `on_timeout`, `on_new_timeout`, `on_close`, `on_error`, `connection_lost`, ... |
| Messages, codes, errors: `src/message.rs`, `src/protocol.rs`, `src/result.rs` | none | conversions |

**Interaction.** Threads of the application and callbacks of the user call a `Sender`; the call
puts a `Command` with the token and the id of the Sender's connection into the bounded channel
and waits while it is full. The loop polls; the poll returns a batch of events (sockets, the
listener `ALL`, the channel `QUEUE`, the timer `TIMER`), and `handle_event` handles them one by
one. Sockets and the channel are registered *oneshot*: after an event they are silent until the
loop reregisters them. A command takes effect only when the loop gets to it, which may be long
after the connection it names has gone and its slab entry has been given to another one.

**What is hard here.**

* commands, timeouts and events of a batch that outlive the connection they name (stale tokens);
* oneshot registrations that some path forgets to renew;
* errors: each error kind, in each state, from each callback, leads somewhere else
  (`Connection::error`), and reporting an error may itself fail a registration;
* the life cycle seen by the user: `on_close` once, then `connection_lost`, on every path;
* the two buffers: cursors over vectors that are compacted, grown or refused when they are full;
* bounded resources: the slab, the queue, the timer, ids of 32 bits.

**What makes each component correct.** *Event loop*: data and timeouts reach the connection they
were meant for; no connection is forgotten by the poll; each is told `on_close` once before it is
given up; a shutdown ends the loop; nothing panics that the settings do not ask to.
*Connection*: it only talks when open, and its interests follow from its buffers. *Output buffer*:
the bytes accepted leave in order, none lost or repeated, all of them in the end. *Input buffer*:
`on_message` gets the peer's bytes in order, and whole characters. *Both together*: end to end, an
accepted byte arrives once, in order, unless an end goes away. *Senders*: a command bears the
identity of its connection. *Messages, codes*: the tables agree with each other, and what a
conversion loses is known.

## 2. Modules

```
Connection          one connection as a record, one operator per method (no state of its own)
  EventLoop         the loop, its environment, its properties           EXTENDS Connection
                    implements Lifecycle
    MCEventLoop     symmetry for TLC                                    EXTENDS EventLoop
    EventLoop_proofs                                      EXTENDS EventLoop, Connection_proofs
      Lifecycle_proofs  the life cycle of connections     EXTENDS EventLoop_proofs
  Connection_proofs what the operators keep
Lifecycle           what the handler of a connection may expect (abstract)
ByteChannel         what a FIFO of bytes promises (abstract)
  OutBuffer         out_buffer byte by byte, implements ByteChannel
    OutBuffer_proofs
  InBuffer          in_buffer byte by byte, implements ByteChannel
    InBuffer_proofs
  Pipe              OutBuffer of one end, the network, InBuffer of the other; implements ByteChannel
    Pipe_proofs                      EXTENDS Pipe; instantiates OutBuffer_proofs, InBuffer_proofs
Codes               opcodes and close codes, with their theorems
  Messages          kinds of message, what is sent and what is received, with its theorems
```

### Connection and EventLoop

A connection is a record: `state`, `events`, `client` (`endpoint`), `addrs` (how many addresses
are left), `out` and `got` for the buffers, and the socket's side: `net` and `data` (what the
kernel knows), `poll` and `interest` (the oneshot registration). The two buffers are abstracted to
what the loop can tell apart: `out` is the set of the senders whose data is not all written, `got`
says that `in_buffer`'s vector is not empty. `uid`, `closes` and `fired` are history. A method
that may end in several ways (system calls, user callbacks) is a *set* of results, each with the
connection after it, its error and whether a callback ran.

The variables of `EventLoop` are the fields of `Handler` (`active`, `listener`, `slab`, `queue`,
`timers`), the registrations (`queueArmed`), the batch, the listener's `backlog`, the timer
entries that are `due`, and the history `home` (which slab entry each connection ever numbered
had, so the ids in all Senders ever handed out) and `lost` (what `connection_lost` got).

| Action | Code |
|---|---|
| `AppSend` | any call of any `Sender`, also of one whose connection is gone |
| `PeerConnect`, `Peer`, `TimerExpires` | the peers, the kernel and the clock |
| `Listen`, `Run`, `StartFails` | `listen`, `run` up to the first poll, and their failures |
| `PollEvents`, `PollFails` | `Poll::poll` with all its events; an interrupt or a failure |
| `HandleAccept`, `AcceptFails` | the event of the listener, with the whole of `accept`: a failing `set_nodelay` or a full slab drops the socket; a failed registration is reported to the connection, which is opened all the same unless `panic_on_new_connection` is set |
| `HandleConn` | the event of a socket: `read`, then `write`, error handling, `check_active` |
| `HandleTimeout`, `TimersDone` | one timeout that is due, with `handle_timeout` and `check_active`; no more |
| `QueueMessage`, `QueueClose`, `QueueConnect`, `QueueShutdown`, `QueueTimeout`, `QueueCancel` | one command each: `try_recv`, its branch of `handle_queue`, scheduling, the rearm of the receiver |
| `QueueConnect` in particular | the whole of `connect`, one disjunct for each way out: a full slab, a name that does not resolve, a failing `set_nodelay`, no address or a failed registration, a connection under way |
| `FinishTick` | `check_count` and the loop's condition |
| `SelfBlock` | a callback on the loop's own thread, or `XnetSocket::connect` before `run`, sends into a full queue |

Grain: one event is one step. All of it runs on the loop's thread without meeting the others,
except for the queue, to which other threads add (also while an event is handled: the command is
then behind those of the callback or before them, and both orders are among the model's
behaviours, since `AppSend` is enabled before and after every step). Sends from callbacks are
modelled for `on_message` and `on_timeout`, and as blocking for the factory as well; a send from
the factory that does not block is an `AppSend` right after the step.

Time is a choice: an entry of the timer may come due at any moment. So is the kernel: how much of
the output a write takes, whether a write blocks, and (with `OsMayFail`) whether a registration,
a connect, an accept, a poll or, with `TcpNodelay`, the option of a new socket fails. Even without `OsMayFail`, reregistering fails for a socket
that was never registered, and may fail when no interest is left. `mio` reports the sockets of a
batch before its user-space registrations, the queue and the timer (`InOrder`), and `NoPanic`
depends on it: the timer's event could otherwise release a connection before its own event.

### Lifecycle

What the user may rely on: every handler made by the factory goes one way through the stages
`open`, `closing`, `told` (of `on_close`), `lost` (given to `connection_lost`), each step optional
except that nothing is lost untold; or it is `refused` at birth (registering the socket failed, so it
never was a connection), or `dropped`: a panic or a failing `set_nodelay` in `connect` leaves it to nobody, and a panic
in `accept` leaves it in an entry that is still connecting. `EventLoop` computes the stage of
connection number `u` from where it is (`Entries`, `Given`) and what it holds; a connection that is in two places, or
was given up twice, has a stage that `Lifecycle` does not know, and the refinement fails.
The stage `told` of a connection that stays in the slab is what io.rs:621 leads to.

### OutBuffer, InBuffer, ByteChannel, Pipe

The same buffers, byte by byte: `vec`, `pos` and `cap` are the vector, the position of the cursor
over it and the vector's capacity. Bytes are numbered in the order of the stream, so that order
and loss are visible. `OutBuffer` has one action per operation (`Send` with `check_buffer_out`,
`Refuse`, `Close`, `Write`, `Fail`). `InBuffer` splits `buffer_in` at its reads of the socket,
since bytes arrive between two of them: `ReadSome`, `ReadFull`, `ReadEnd`, `ReadBlocks`, `ReadFails`.
Of the rest of the connection it has what decides whether the socket is read again: `reads` and `writes`
are the two interests in `events`, `Output` is any operation that ends in `check_events` (a message to send, a
close, a writable event), `Breaks` a failing write or rearm, and `failed` tells that the last read ended in an
error, which `Error` turns into a close, a disconnect or nothing. `on_message` returns an error of a kind in
`MsgErrs` whenever it likes, and `read` then returns before it looks at the length. Kinds that
the settings turn into panics end the loop and are left to `EventLoop`. `Grown` is `Vec::reserve`. `ByteChannel` says what both promise: what was delivered are the accepted bytes in
order, none twice, and without gaps until a part is refused (`refused`: `in_buffer` gave a chunk
that is not UTF-8 to nobody).

`Pipe` composes them into one direction between two endpoints of this library, each with its own
thread: `Write` of the one end is what `Carry` brings, byte by byte, to the other, and the two
sockets hold at most `Window` bytes that are not read, so a slow reader blocks the writer. Either
end may start closing (`Reply` is the reader's output of its own, or its close), the reader may fail to
read, and either may go away (`Leave`; `Drop`: the sender's loop ended, io.rs:306, and what was unsent is
never written), after which the other notices the end of the stream or a failing write.

### Codes and Messages

`Codes` has the four tables of `protocol.rs`; numbers are bytes and 16-bit words. `Messages` has
the two kinds of message with their conversions, what `send_message` puts into the buffer (the
bytes alone) and what `read_data` makes of them (a text, or an error). Both are functions without
state, so no run reaches them: their theorems are the check. Whether bytes encode a string is a
constant operator, `IsUtf8`.

## 3. Runs

| Run | Properties | Shows |
|---|---|---|
| routing | `Routed`, `NoStranded`, `ClosedOnce`, `LifecycleSpec` | two connections use one slab entry in turn, with messages, broadcasts, closes and connects of both in the queue |
| timers | `ClosedOnce`, `NoPanic` | timeouts that outlive their connection, cancels with old handles, a full timer, failing handlers |
| broadcast | `NoStranded`, `ClosedOnce` | broadcasts over two connections, with a full output buffer, closes and a shutdown |
| failures | `TypeOK`, `ClosedBeforeLost`, `NeverConnecting`, `NoStranded`, `LifecycleSpec` | every system call may fail, names may not resolve, internal errors and shutdowns panic, one id for all connections; an accepted socket that cannot be registered stays in the slab and the loop goes on |
| liveness | `ShutdownStops`, `ResetNoticed`, `TimeoutsFire` | the fair loop comes to a queued shutdown, notices a reset, and gives a due timeout to the connection that asked for it |
| out_buffer | `TypeOK`, `NothingLost`, `WriteInterest`, `ChannelSpec`, `GrowsOnlyWhenFull`, `AllWritten` | the output buffer with messages of 0 to 5 bytes over a vector of 3 |
| in_buffer | `TypeOK`, `NothingLost`, `WholeCharacters`, `ChannelSpec`, `EmptyStreamEnds`, `AllAtEnd` | the input buffer with a text three times its size, with characters of one and two bytes; reads, writes and `on_message` may fail; at the end of the stream everything that was withheld comes out |
| pipe | `Conserved`, `EndToEndSpec`, `Arrives`, `WrittenArrives` | two endpoints over a small window: end to end one ordered channel, also while either is closing |
| timeout_elsewhere | `TimeoutsRouted` **violated** | finding 1 |
| silent_close | `CloseCodeSent` **violated** | finding 2 |
| empty_message | `NoEmptyMessage` **violated** | finding 3 |
| withheld | `AllDelivered` **violated** | finding 4 |

**Bounds.** `MaxConns` (connections ever asked for) is 2: every property about confusion of
connections needs a first and a second one, and one slab entry (`Tokens`) makes the second reuse
the first's; the broadcast run has two entries, so that both live at once. `QueueCap` is 2: two
commands in flight are what it takes for one to release a connection and the other
to name it; it is 1 in failures and in liveness, which are about single steps that fail and about
progress, and where senders wait for room all the time. `Slots` is 1 or 2: an expired and a
pending timeout. `IdSpace` is 2, as many as there
are connections, and 1 in failures, where ids wrap. The buffers have `Capacity` 3 and messages up
to 5 bytes, so each of "fits", "fills exactly", "does not fit", "does not fit when empty" occurs;
`MaxBytes` lets the vector be rebuilt several times. In pipe the window is 3, as small as the
buffers, with messages of 1 to 3 bytes and 6 bytes in all: each of the three places is full, empty and in
between while the others are not, and both vectors are rebuilt. `Leads` are the bytes whose
character goes on in the next byte, chosen so that chunks end within and between characters. `MsgErrs` has in in_buffer
one kind for each way `error` goes (`Internal` closes, `Http` disconnects, `Custom` is only reported) and in pipe
one that closes. `PanicOn` of failures leaves out `NewConnection`, with which every failed registration would
end the run at once: what `panic_on_new_connection` does (the entry stays connecting, the loop is over) is in
the model and covered by the theorems, whose constants it is among.
`Symmetry` (of tokens and timer entries) is
used in safety runs only; the code prefers the first vacant entry, the model any, which
adds behaviours and loses none. Deadlock is checked in every run: a loop that ended is `Stopped`,
a pipe with nothing left to do is `Quiet`.

**Fairness.** `EventLoop!FairSpec` has weak fairness of `LoopStep`, all steps of the loop's thread
together: the operating system goes on scheduling it, and `poll` with a pending event returns.
Nothing is assumed of peers, clock or application. It suffices since every batch is finite and
all its events are handled before the next poll. `TimeoutsFire` assumes in particular nothing of the
clock: it starts with a timeout that is due. `OutBuffer!FairSpec` assumes that a socket armed
for writing takes at least a byte sooner or later, as a peer that reads makes it. `InBuffer!FairSpec`
has weak fairness of the loop's steps on the connection, none of the peer and none of the output: a readable
event may also come for nothing, and `EmptyStreamEnds` speaks of behaviours in which, from some point on, no output is
pending. Its second exception, a handler that fails again and again on the empty messages of
the end, is what the code allows: an error of `on_message` returns before the disconnect (connection.rs:379). In `Pipe!FairSpec` the
peer is part of the model and nothing needs to be assumed of it beyond its own loop: fair are a write that has
room in the window (`WriteSome`), the network (`Carry`, `CarryEnd`: TCP delivers while both ends
live) and the reader's loop (`Read`).

Each property of a passing run comes with a mutant, an operator in the module whose comment names
the mistake it stands for: an id that is not compared, a rearm that is forgotten, a cursor
that is not moved back. TLC finds the property violated when the mutant replaces the original.

## 4. Findings

1. `TimeoutsRouted`: `handle_timeout` (io.rs:632) looks up the token only. A timeout whose
   connection is gone goes to the `on_timeout` of the connection that has the slab entry now; for
   `Message` and `Close` the code does compare `connection_id` (io.rs:552, 565).
2. `CloseCodeSent`: `send_close` buffers nothing (connection.rs:494 is commented out), while
   `Sender::close` is documented to "Send a close code to the other endpoint".
3. `NoEmptyMessage`: `read` calls `read_data` before it looks at the length (connection.rs:379), so
   `on_message` gets an empty message at the end of the stream; and once any data was received the
   length is never 0, so this repeats (connection.rs:537).
4. `AllDelivered`: bytes that fill `in_buffer` exactly stay in it when the next read would block
   (connection.rs:556).

Further behaviour met while modelling, which no document contradicts, is listed under `hazards` in
PROJECT.json: connections left in the slab after a failed `schedule` on the queue's path
(io.rs:621), the self-deadlock of a callback on a full queue, the handler that a failing
`set_nodelay` in `connect` gives to nobody (io.rs:163).

## 5. Proofs

Every safety invariant, every safety action property and every refinement that a passing run checks
is also a theorem. All hold for every value of the constants, from the assumptions named in the modules
(`ConnectionAssumption`, `LoopAssumption`, `VacantAssumption`, `TimerAssumption`,
`BufferAssumption`, `InBufferAssumption`, `PipeAssumption`: types, and that the markers for vacant
entries are no entries). Two theorems have hypotheses of their own, `ToldOnlyOnce` and
`NothingPanics`; see below.

| Theorem | States | Of |
|---|---|---|
| `TypeCorrect` | `Spec => []TypeOK` | EventLoop, OutBuffer, InBuffer |
| `DataIsRouted` | `Spec => []Routed` | EventLoop |
| `NothingStranded` | `Spec => []NoStranded` | EventLoop |
| `AlwaysOpened` | `Spec => []NeverConnecting` | EventLoop |
| `ToldBeforeLost` | `Spec => []ClosedBeforeLost` | EventLoop |
| `ToldOnlyOnce` | `Spec => []ClosedOnce`, under two conditions | EventLoop |
| `NothingPanics` | `Spec => []NoPanic`, under two conditions | EventLoop |
| `LifecycleImplemented` | `Spec => LifecycleSpec` | EventLoop, Lifecycle |
| `NothingIsLost` | `Spec => []NothingLost` | OutBuffer, InBuffer |
| `InterestIsExact`, `GrowthIsNeeded` | `WriteInterest`, `GrowsOnlyWhenFull` | OutBuffer |
| `CharactersStayWhole` | `Spec => []WholeCharacters` | InBuffer |
| `Refinement` | `Spec => ChannelSpec` | OutBuffer, InBuffer, ByteChannel |
| `BytesAreConserved` | `Spec => []Conserved` | Pipe |
| `EndToEndRefinement` | `Spec => EndToEndSpec` | Pipe, ByteChannel |

**EventLoop_proofs.** `TypeCorrect` (`Spec => []TypeOK`) and `DataIsRouted` (`Spec => []Routed`).
`Routed` is not inductive: it says nothing of the commands still in the queue. `IInv` adds that a
connection's id is the id of its number, `c.id = IdOf(c.uid)`, and its number was given out
(`Good`); that a command bears the id of the connection whose Sender made it (`GoodCommand`); that
an entry that is due is not free (`TimersOK`); and that the listener's event in a batch is unique
and has a connection waiting (`BatchOK`), without which `backlog` could become negative. The
heart is `AppliedIsGood`: where the ids agree, or the command is a broadcast, the data added is
that connection's own, by `IdsDiffer`: among the first `IdSpace` connections equal ids mean equal
numbers. The rest is that every operation of a connection keeps its identity and adds no output
(`Kept`, proved operator by operator in Connection_proofs), and one lemma per action.

**Lifecycle_proofs.** What a connection's operators do to it is proved first, in the last part of
Connection_proofs. A method takes a connection *onward* (`Onward`): its number stays, the count of
`on_close` only grows, the state goes from `Open` to `AwaitingClose` and not back, and a panic needs a
setting. It leaves the connection *whole* (`Whole`): opened, and as long as it is alive it asks for
events, for writability too when output is left. The invariant of the loop is then `LoopInv`:

* `WholeSlab`: every connection in the slab is whole, unless the loop panicked (a panic in `accept` leaves one that
  was not opened; after it nothing changes any more, so the life cycle needs nothing of it);
* `Attended`, while the loop runs: a socket has at most one event in the batch, its slab entry
  is occupied until that event is handled, and every connection without an event in the batch is
  registered for what it asks for (`Fit`) if it is alive and was ever registered;
* `BatchPhase`: there is no batch outside the tick and no connection before `run`;
* `ToldLost`: what `connection_lost` got had been told `on_close`, once if the loop is `Quiet`.

None of the properties is inductive alone: `NoStranded` after a batch needs that the poll marked
exactly the sockets of the batch as `spent`; `NoPanic` needs that only the event being handled can
vacate its slab entry, which holds because the listener, the timer and the queue come after the
sockets (`InOrder` of `EventLoop`); and `ClosedBeforeLost` needs that `check_active`
releases only what an error emptied of its events, which the same `disconnect` told of `on_close`.
`LoopInductive` proves one lemma per action and, along with it, what the
step did to the connections (`Evolves`): all go on, or one is released, or one enters the slab, or
one is numbered and given up or dropped at once.

From `Evolves` the refinement follows without looking at an action again. `Unique` (every number is
in one slab entry or was given up once) is preserved by each of the five cases; under `Unique` the
`CHOOSE`s of `LifeOf` are determined (`LifeFound`); a connection that goes on keeps its stage or
comes to a later one (`StageGoesOn`, `LifeGoesOn`); and a new one is born in one of `Births`
(`LifeBegins`). `LifecycleImplemented` has no hypotheses: it covers failing system calls, panics and
wrapped ids.

`ToldOnlyOnce` assumes that the loop's system calls do not fail and that `on_new_timeout` returns no
`Io` or `Http` error, and `NothingPanics` that no `panic_on_*` setting is on and that names resolve.
None of the four conditions can be left out: without it TLC finds the invariant violated. The first two
are the paths on which `error` disconnects and no `check_active` follows (io.rs:621, and `new_timeout`
in `handle_queue`), so that the connection stays and may be told again; the other two are the panics
the code has on purpose, and the `unwrap` of a name that does not resolve (io.rs:47).

**OutBuffer_proofs.** With `IInv == TypeOK /\ NothingLost /\ WriteInterest`: `NothingIsLost`,
`InterestIsExact`, `GrowthIsNeeded` (an action property, also for a buffer that may grow, which
the run does not set) and `Refinement` (`Spec => ChannelSpec`: `Send` maps to `Accept`, `Write` to
`Deliver`, all others stutter). The types are needed because the labels of the unsent bytes are an
equation over sequences; `NothingLost` carries the labels through the rebuilding of the vector.

**InBuffer_proofs.** `IInv` is `TypeOK`, `NothingLost`, `WholeCharacters` and `InOrder`: with `Consumed`
for the number of bytes taken from the socket and past the cursor no more, everything consumed was delivered
until a chunk is refused, and afterwards the last byte delivered is not after `Consumed`. Errors of `on_message` and of
the socket need no case of their own in it: they change the state and the interests, and the bytes stay where they are. The step
that matters is `ReadDataStep`: the chunk is the bytes from `Consumed + 1` to the last one taken
(`ChunkProperties`), so appending it continues the stream or leaves a gap, but never steps back; and a
text joined to whole characters leaves characters whole (`WholeJoin`). `RebuildStep` shows that moving
the cursor changes neither `Consumed` nor the labels past it. The lemmas assume nothing of who sends, so
that Pipe can use them.

**Pipe_proofs.** Both modules of proofs are instantiated with the pipe's variables, as `OutP` and `InP`
(`SameOut` and `SameIn` identify their actions with those of `Out` and `In`). The invariant is that of
both buffers and `Flow`: the network hands over only what was written, and the sockets hold at most
`Window`. `BytesAreConserved` adds up the two equations of the buffers. `EndToEndRefinement` maps `Send` to
`Accept` and each step of the reader to what it is to the reader's own channel: what it may deliver
has arrived, so it was accepted.

**Codes.** `OpCodesRoundTrip`: the two opcode tables agree on all 256 bytes. `CloseCodesRoundTrip`:
each of the 2^16 close codes is written back as the number it was read from. `CloseCodeKept`: the
other way round a `CloseCode` is kept exactly if it is not an `Other` with the number of a
named code. **Messages.** For any set of valid encodings: a text read in one chunk is the message sent (`TextSurvives`);
a binary message never arrives as one, but as the text that `into_text` makes of it or as an
`Encoding` error (`BinaryIsReadAsText`); texts read together are one message (`TextsRunTogether`,
assuming that the encodings of two strings concatenate to one, which UTF-8 satisfies).

**Only model-checked.** The liveness properties `ShutdownStops`, `ResetNoticed`, `TimeoutsFire`,
`AllWritten`, `EmptyStreamEnds`, `AllAtEnd`, `Arrives` and `WrittenArrives`: fairness and ENABLED are out of the
prover's reach. The four properties of the findings are false, and TLC has the counterexamples.

## 6. Not modelled

* `Display` of messages and codes, error formatting and conversions between error types, logging;
  `src/util.rs` (re-exports) and the two example programs.
* `MAX_EVENTS` (1024 events at most in a batch), tick length and wheel of the timer, and what `tcp_nodelay` does
  to the packets: they change when things happen, not what may happen. That setting the option
  may fail is modelled (`OptionMayFail`).
* Sends from `on_close`, `on_error` and `on_new_timeout`, other than as an `AppSend` after the step.
* A call of a `Sender` after the loop has ended: the receiver is gone or never read again (a
  second `run` returns an error, as `mio` registers a channel or a timer only once).
* A queue of capacity 0 (`max_connections` times `queue_size`, one of them set to 0): a rendezvous
  channel, on which no command of a callback could ever be sent.
* Two event loops composed in one model: their states multiply beyond what TLC can enumerate.
  What passes between two ends are bytes and the end of the stream, which `Pipe` models with the
  buffers of both sides; the loop with its peers is `EventLoop`, where the peer may do anything.
* Resolving the address to listen on. `Stream::is_negotiating` (always false) and what depends on it.
* The codes and reasons of closes, which never leave the process.

Hazards without a property (`hazards` in PROJECT.json, each with its note) are cases in which the code
does block, drop or do nothing, and in which no document says otherwise: a callback on a full queue and
`connect` before `run` on a full queue (both modelled, `SelfBlock`), senders waiting when the loop ended,
commands left when a client ended, timeouts of the broadcaster, ids that have wrapped, valid text that is cut within a
character and refused, a name that does not resolve and panics the loop.

## 7. Plan

Done, in this order: Connection, EventLoop with its runs, the buffers with their refinement, the
proofs of OutBuffer, then of EventLoop; then Lifecycle with its refinement, more failures and
liveness of EventLoop, Pipe, Codes and Messages; then the proofs of the life cycle, of InBuffer and
of Pipe.

Next, most important first:

1. The safety that the liveness properties rest on, as invariants with proofs: in a running loop
   without failing registrations the receiver of the queue is armed or its event is in the
   batch, with a command to take; an event in the batch can always be handled, so no tick gets stuck;
   a due timeout stays due until it is handled or cancelled.
2. What the loop does with a connection that was told `on_close` and stays (io.rs:621): which
   messages can still reach it.
3. A bound on the input vector's capacity in terms of the text that is not delivered yet, as
   `GrowsOnlyWhenFull` gives one for the output.
