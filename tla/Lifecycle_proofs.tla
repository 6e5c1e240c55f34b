-------------------------- MODULE Lifecycle_proofs --------------------------
(***************************************************************************)
(* Proofs about what EventLoop does with connections and their handlers,   *)
(* for any number of slab entries, connections, timer entries and queued   *)
(* commands, and whatever fails: no connection is forgotten by the poll,   *)
(* none is still connecting in the slab of a loop that has not panicked,   *)
(* none is given up before on_close, nothing panics that no setting asks   *)
(* for, and the loop implements Lifecycle.                                 *)
(***************************************************************************)
EXTENDS EventLoop_proofs

\* Nothing but the connections' own errors calls on_close: then it is called once.
Quiet == ~OsMayFail /\ NewTimeoutErrs \cap {"Http", "Io"} = {}

-----------------------------------------------------------------------------
(* One connection *)

\* The poll watches for what the connection asks for.
Watched(c) ==
  c.interest # {} /\ c.interest \subseteq c.events /\ (c.out # {} => "w" \in c.interest)

\* A connection without an event in the batch: alive and registered, it is watched.
Fit(c) == Alive(c) /\ c.poll # "off" => c.poll = "armed" /\ Watched(c)

\* A connection as it always is in a loop that is Quiet.
Calm(c) == c.closes = 0 /\ c.poll # "off"
Tame(c, d) == Quiet /\ Calm(c) /\ ~d.crash => Calm(d)

\* What a command may do with a connection in the slab.
Moves(c, d) == Goes(c, d) /\ (Fit(c) => Fit(d)) /\ Tame(c, d)

LEMMA TameTransitive ==
  ASSUME NEW c, NEW d, NEW e, Tame(c, d), Tame(d, e), Onward(d, e)
  PROVE  Tame(c, e)
BY DEF Tame, Onward

LEMMA ArmedGoes ==
  ASSUME NEW c \in Conn, Whole(c)
  PROVE  LET d == Armed(c) IN
         /\ Goes(c, d) /\ d.poll = "armed" /\ Fit(d)
         /\ d.closes = c.closes /\ d.crash = c.crash
<1>1. /\ Armed(c).poll = "armed" /\ Armed(c).interest = c.events /\ Armed(c).events = c.events
      /\ Armed(c).closes = c.closes /\ Armed(c).crash = c.crash /\ Armed(c).uid = c.uid
      /\ Armed(c).state = c.state /\ Armed(c).out = c.out /\ c.closes >= c.closes
  BY DEF Armed, Conn, ConnOf
<1>2. Goes(c, Armed(c))
  BY <1>1 DEF Goes, Onward, Whole, Alive
<1>3. Fit(Armed(c))
  BY <1>1 DEF Fit, Watched, Whole, Alive
<1> QED
  BY <1>1, <1>2, <1>3

LEMMA SteadyMoves ==
  ASSUME NEW c \in Conn, NEW d \in Conn, Goes(c, d), Steady(c, d), Fit(c)
  PROVE  Fit(d)
<1> SUFFICES ASSUME Alive(d), d.poll # "off" PROVE d.poll = "armed" /\ Watched(d)
  BY DEF Fit
<1>1. Alive(c)
  BY AliveBefore DEF Goes, Conn
<1>2. c.poll = "armed" /\ Watched(c) /\ c.events \subseteq d.events
  BY <1>1 DEF Fit, Steady
<1> QED
  BY <1>2 DEF Steady, Watched

LEMMA ErrorMoves ==
  ASSUME NEW c \in Conn, Whole(c), NEW kind, OsMayFail \/ kind \notin {"Http", "Io"} \/ ~Quiet
  PROVE  Moves(c, Error(c, kind))
<1>1. PICK d : d = Error(c, kind)
  OBVIOUS
<1>2. /\ Goes(c, d) /\ Steady(c, d)
      /\ kind \notin {"Http", "Io"} => d.closes = c.closes
  BY <1>1, ErrorGoes DEF Conn
<1>3. d \in Conn
  BY <1>1, ErrorKeeps DEF Conn, Kept
<1>4. Fit(c) => Fit(d)
  BY <1>2, <1>3, SteadyMoves
<1>5. Tame(c, d)
  BY <1>2 DEF Tame, Calm, Quiet, Steady
<1> QED
  BY <1>1, <1>2, <1>4, <1>5 DEF Moves

LEMMA SelfMoves == ASSUME NEW c \in Conn, Whole(c) PROVE Moves(c, c)
BY OnwardSelf DEF Moves, Goes, Tame, Conn

LEMMA ShutdownMoves == ASSUME NEW c \in Conn, Whole(c) PROVE Moves(c, SendClose(c))
<1>1. PICK d : d = SendClose(c)
  OBVIOUS
<1>2. Goes(c, d) /\ Steady(c, d) /\ d.closes = c.closes
  BY <1>1, SendCloseGoes DEF Conn, Whole
<1>3. d \in Conn
  BY <1>1, SendCloseKeeps DEF Conn, Kept
<1>4. Fit(c) => Fit(d)
  BY <1>2, <1>3, SteadyMoves
<1>5. Tame(c, d)
  BY <1>2 DEF Tame, Calm, Steady
<1> QED
  BY <1>1, <1>2, <1>4, <1>5 DEF Moves

\* A calm connection asks for events and is registered: without failing system calls
\* scheduling it succeeds.
LEMMA CalmIsScheduled ==
  ASSUME NEW c, Whole(c), Quiet, Calm(c), ~c.crash
  PROVE  ~MayFail(c)
BY DEF Whole, Alive, Calm, Quiet, MayFail

LEMMA ScheduledMoves ==
  ASSUME NEW c \in Conn, Whole(c), NEW d \in Scheduled(c)
  PROVE  Goes(c, d) /\ Fit(d) /\ Tame(c, d)
<1>1. CASE d = Armed(c)
  BY <1>1, ArmedGoes DEF Tame, Calm
<1>2. CASE d = Error(c, "Io") /\ MayFail(c)
  <2>1. Goes(c, d) /\ ~Alive(d)
    BY <1>2, IoErrorEnds DEF Conn, Whole
  <2>2. Tame(c, d)
    BY <1>2, <2>1, CalmIsScheduled DEF Tame, Goes, Onward
  <2> QED
    BY <2>1, <2>2 DEF Fit
<1> QED
  BY <1>1, <1>2 DEF Scheduled

LEMMA AppliedGoes ==
  ASSUME NEW cmd, ItemOf(cmd) \in Nat, NEW c \in Conn, Whole(c), NEW r \in Applied(cmd, c)
  PROVE  /\ r.conn \in Conn /\ Goes(c, r.conn) /\ Tame(c, r.conn)
         /\ r.err \notin {"Http", "Io", "Refused"}
<1>1. CASE cmd.signal = "Message"
  <2>1. r \in SendMessage(c, ItemOf(cmd))
    BY <1>1 DEF Applied
  <2>2. /\ Goes(c, r.conn) /\ r.conn.closes = c.closes /\ r.conn.poll = c.poll
        /\ r.err \notin {"Http", "Io", "Refused"}
    BY <2>1, SendMessageGoes DEF Conn
  <2>3. r.conn \in Conn
    BY <2>1, SendMessageAdds DEF Conn
  <2> QED
    BY <2>2, <2>3 DEF Tame, Calm
<1>2. CASE cmd.signal # "Message"
  <2>1. (r.conn = SendClose(c) \/ r.conn = c) /\ r.err = "ok"
    BY <1>2 DEF Applied, Result
  <2>2. Moves(c, c) /\ Moves(c, SendClose(c)) /\ SendClose(c) \in Conn
    BY SelfMoves, ShutdownMoves, SendCloseKeeps DEF Conn, Kept
  <2> QED
    BY <2>1, <2>2 DEF Moves
<1> QED
  BY <1>1, <1>2

LEMMA GoesTransitive ==
  ASSUME NEW c \in Conn, NEW d \in Conn, NEW e \in Conn, Goes(c, d), Goes(d, e)
  PROVE  Goes(c, e)
BY OnwardTransitive DEF Goes, Conn

\* The handling of a result that is no I/O error.
LEMMA FailTame ==
  ASSUME NEW r, r.conn \in Conn, Whole(r.conn), r.err \notin {"Http", "Io", "Refused"}
  PROVE  LET d == Fail(r) IN
         /\ d \in Conn /\ Goes(r.conn, d) /\ Steady(r.conn, d) /\ Tame(r.conn, d)
<1>1. PICK d : d = Fail(r)
  OBVIOUS
<1>2. Goes(r.conn, d) /\ Steady(r.conn, d) /\ d.closes = r.conn.closes
  BY <1>1, FailGoes DEF Conn
<1>3. d \in Conn
  BY <1>1, FailKeeps DEF Conn, Kept
<1> QED
  BY <1>1, <1>2, <1>3 DEF Tame, Calm, Steady

\* A direct command: applied, its error handled, the connection scheduled.
LEMMA DirectMoves ==
  ASSUME NEW c \in Conn, NEW r, r.conn \in Conn, Goes(c, r.conn), Tame(c, r.conn),
         r.err \notin {"Http", "Io", "Refused"}, NEW d \in Scheduled(Fail(r))
  PROVE  Moves(c, d)
<1>1. PICK b : b = Fail(r)
  OBVIOUS
<1>2. b \in Conn /\ Goes(r.conn, b) /\ Tame(r.conn, b)
  BY <1>1, FailTame DEF Goes
<1>3. Goes(b, d) /\ Fit(d) /\ Tame(b, d) /\ d \in Conn
  BY <1>1, <1>2, ScheduledMoves, ScheduledKeeps DEF Goes, Kept, Conn
<1>4. Goes(c, b) /\ Tame(c, b)
  BY <1>2, GoesTransitive, TameTransitive DEF Goes
<1>5. Goes(c, d) /\ Tame(c, d)
  BY <1>2, <1>3, <1>4, GoesTransitive, TameTransitive DEF Goes
<1> QED
  BY <1>3, <1>5 DEF Moves

\* A broadcast: applied and scheduled, then the errors of both reported.
LEMMA ReportedMoves ==
  ASSUME NEW c \in Conn, NEW r, r = Result(r.conn, r.err, r.told), r.conn \in Conn,
         Goes(c, r.conn), Tame(c, r.conn),
         r.err \notin {"Http", "Io", "Refused"}, NEW d \in Reported(r)
  PROVE  Moves(c, d)
<1>1. Whole(r.conn)
  BY DEF Goes
<1>2. CASE d = Fail([r EXCEPT !.conn = Armed(@)])
  <2>1. PICK q : q = [r EXCEPT !.conn = Armed(@)]
    OBVIOUS
  <2>2. q.conn = Armed(r.conn) /\ q.err = r.err
    BY <2>1 DEF Result
  <2>3. PICK b : b = q.conn
    OBVIOUS
  <2>4. b \in Conn /\ Goes(r.conn, b) /\ Fit(b) /\ Tame(r.conn, b)
    BY <1>1, <2>2, <2>3, ArmedGoes, ArmedKeeps DEF Kept, Conn, Tame, Calm
  <2>5. d \in Conn /\ Goes(b, d) /\ Steady(b, d) /\ Tame(b, d)
    BY <1>2, <2>1, <2>2, <2>3, <2>4, FailTame DEF Goes
  <2>6. Fit(d)
    BY <2>4, <2>5, SteadyMoves
  <2>7. Goes(c, b) /\ Tame(c, b)
    BY <2>4, GoesTransitive, TameTransitive DEF Goes
  <2>8. Goes(c, d) /\ Tame(c, d)
    BY <2>4, <2>5, <2>7, GoesTransitive, TameTransitive DEF Goes
  <2> QED
    BY <2>6, <2>8 DEF Moves
<1>3. CASE d = Error(Fail(r), "Io") /\ MayFail(r.conn)
  <2>1. PICK b : b = Fail(r)
    OBVIOUS
  <2>2. b \in Conn /\ Goes(r.conn, b)
    BY <1>1, <2>1, FailTame
  <2>3. Goes(b, d) /\ ~Alive(d) /\ d \in Conn
    BY <1>3, <2>1, <2>2, IoErrorEnds, ErrorKeeps DEF Conn, Goes, Whole, Kept
  <2>4. Goes(c, b)
    BY <2>2, GoesTransitive
  <2>5. Goes(c, d)
    BY <2>2, <2>3, <2>4, GoesTransitive
  <2>6. ~d.crash => ~r.conn.crash
    BY <2>2, <2>3 DEF Goes, Onward
  <2>7. Tame(c, d)
    BY <1>1, <1>3, <2>6, CalmIsScheduled DEF Tame
  <2> QED
    BY <2>3, <2>5, <2>7 DEF Moves, Fit
<1> QED
  BY <1>2, <1>3, Zenon DEF Reported

\* An opened connection has no further address to try.
LEMMA NoReset ==
  ASSUME NEW r, r.conn.state \in {"Open", "AwaitingClose"}
  PROVE  Recover(r) = Result(Fail(r), "ok", r.told)
BY DEF Recover, CanReset

LEMMA AfterReadGoes ==
  ASSUME NEW c \in Conn, Whole(c), NEW ready, NEW r \in AfterRead(c, ready)
  PROVE  /\ r.conn \in Conn /\ Goes(c, r.conn) /\ Once(c, r.conn) /\ r.conn.poll = c.poll
<1>1. CASE r = Result(c, "ok", FALSE)
  BY <1>1, SelfMoves DEF Result, Moves, Once, ToldOnce
<1>2. CASE \E q \in Read(c) : r = Recover(q)
  <2>1. PICK q \in Read(c) : r = Recover(q)
    BY <1>2
  <2>2. /\ Goes(c, q.conn) /\ q.conn.poll = c.poll /\ q.conn \in Conn
        /\ q.err = "ok" => Once(c, q.conn)
        /\ q.err # "ok" => q.conn.closes = c.closes
    BY ReadGoes, ReadKeeps DEF Conn, Kept
  <2>3. r.conn = Fail(q)
    BY <2>1, <2>2, NoReset DEF Goes, Whole, Result
  <2>4. PICK d : d = Fail(q)
    OBVIOUS
  <2>5. /\ d \in Conn /\ Goes(q.conn, d) /\ Steady(q.conn, d) /\ Once(q.conn, d)
        /\ q.err = "ok" => d = q.conn
    BY <2>2, <2>4, FailGoes, FailKeeps DEF Conn, Kept, Goes
  <2>6. Goes(c, d) /\ d.poll = c.poll
    BY <2>2, <2>5, GoesTransitive DEF Steady
  <2>7. Once(c, d)
    BY <2>2, <2>5 DEF Once, ToldOnce
  <2> QED
    BY <2>3, <2>4, <2>5, <2>6, <2>7
<1> QED
  BY <1>1, <1>2 DEF AfterRead

\* The handling of a socket's event.
LEMMA HandleIoGoes ==
  ASSUME NEW c \in Conn, Whole(c), NEW ready, NEW r \in HandleIo(c, ready)
  PROVE  /\ r.conn \in Conn /\ Goes(c, r.conn) /\ Once(c, r.conn) /\ r.conn.poll = c.poll
<1>1. PICK q \in AfterRead(c, ready) : r \in AfterWrite(q, ready)
  BY DEF HandleIo
<1>2. q.conn \in Conn /\ Goes(c, q.conn) /\ Once(c, q.conn) /\ q.conn.poll = c.poll
  BY AfterReadGoes
<1>3. CASE r = q
  BY <1>2, <1>3
<1>4. CASE /\ "w" \in q.conn.events
           /\ \E w \in Write(q.conn) : r = Result(Recover(w).conn, "ok", q.told)
  <2>1. PICK w \in Write(q.conn) : r = Result(Recover(w).conn, "ok", q.told)
    BY <1>4
  <2>2. /\ w.conn.state \in {"Open", "AwaitingClose"}
        /\ Goes(q.conn, Fail(w)) /\ Once(q.conn, Fail(w)) /\ Fail(w).poll = q.conn.poll
    BY <1>2, WriteGoes DEF Conn, Goes
  <2>3. r.conn = Fail(w)
    BY <2>1, <2>2, NoReset DEF Result
  <2>4. PICK d : d = Fail(w)
    OBVIOUS
  <2>5. w.conn \in Conn
    BY <1>2, WriteKeeps DEF Conn, Kept
  <2>6. d \in Conn
    BY <2>4, <2>5, FailKeeps DEF Conn, Kept
  <2>7. Goes(c, d)
    BY <1>2, <2>2, <2>4, <2>6, GoesTransitive
  <2>8. Once(c, d)
    BY <1>2, <1>4, <2>2, <2>4 DEF Once, ToldOnce
  <2> QED
    BY <1>2, <2>2, <2>3, <2>4, <2>6, <2>7, <2>8
<1> QED
  BY <1>1, <1>3, <1>4 DEF AfterWrite

\* check_active keeps a connection that is watched, and releases one only after its
\* handler was told, or in a panic.
LEMMA CheckActiveGoes ==
  ASSUME NEW c \in Conn, Whole(c), NEW o \in CheckActive(c)
  PROVE  /\ o.conn \in Conn /\ Goes(c, o.conn)
         /\ o.keep => Fit(o.conn)
         /\ ~o.keep /\ ~o.conn.crash => o.conn.closes > 0
         /\ Quiet /\ c.poll # "off" /\ ToldOnce(c) /\ ~o.conn.crash
              => IF o.keep THEN Calm(o.conn) ELSE o.conn.closes = 1
<1>2. o.conn \in Conn
  BY CheckActiveKeepsIdentity DEF Kept, Conn
<1>3. \/ c.events = {} /\ o = Outcome(c, FALSE)
      \/ c.events # {} /\ o = Outcome(Armed(c), TRUE)
      \/ c.events # {} /\ o = Outcome(Error(c, "Io"), FALSE) /\ MayFail(c)
  BY Zenon DEF CheckActive
<1>4. CASE c.events = {} /\ o = Outcome(c, FALSE)
  <2>1. o.conn = c /\ ~o.keep
    BY <1>4 DEF Outcome
  <2>2. ~c.crash => c.closes > 0
    BY <1>4 DEF Whole, Alive, Conn, ConnOf
  <2>3. ToldOnce(c) /\ ~c.crash => c.closes = 1
    BY <2>2 DEF ToldOnce
  <2> QED
    BY <1>2, <2>1, <2>2, <2>3, SelfMoves DEF Moves
<1>5. CASE c.events # {} /\ o = Outcome(Armed(c), TRUE)
  <2>1. o.conn = Armed(c) /\ o.keep
    BY <1>5 DEF Outcome
  <2>2. Goes(c, o.conn) /\ Fit(o.conn) /\ o.conn.poll = "armed" /\ o.conn.closes = c.closes
    BY <2>1, ArmedGoes
  <2>3. ToldOnce(c) => Calm(o.conn)
    BY <1>5, <2>2 DEF ToldOnce, Calm
  <2> QED
    BY <1>2, <2>1, <2>2, <2>3
<1>6. CASE c.events # {} /\ o = Outcome(Error(c, "Io"), FALSE) /\ MayFail(c)
  <2>1. o.conn = Error(c, "Io") /\ ~o.keep
    BY <1>6 DEF Outcome
  <2>2. Goes(c, o.conn) /\ (o.conn.crash \/ o.conn.closes > 0)
    BY <2>1, IoErrorEnds DEF Conn, Whole
  <2>3. ~(Quiet /\ c.poll # "off")
    BY <1>6 DEF Quiet, MayFail
  <2> QED
    BY <1>2, <2>1, <2>2, <2>3
<1> QED
  BY <1>3, <1>4, <1>5, <1>6

\* on_timeout and what its error does.
LEMMA TriggeredGoes ==
  ASSUME NEW c \in Conn, Whole(c), NEW owner \in Nat, NEW err
  PROVE  LET d == Triggered(c, owner, err) IN
         d \in Conn /\ Goes(c, d) /\ Once(c, d) /\ d.poll = c.poll
<1>1. PICK b : b = [c EXCEPT !.fired = @ \cup {owner}]
  OBVIOUS
<1>2. /\ b \in Conn /\ b.uid = c.uid /\ b.closes = c.closes /\ b.state = c.state
      /\ b.crash = c.crash /\ b.events = c.events /\ b.out = c.out /\ b.poll = c.poll
      /\ b.closes >= c.closes
  BY <1>1 DEF Conn, ConnOf
<1>3. Goes(c, b)
  BY <1>2 DEF Goes, Onward, Whole, Alive
<1>4. PICK d : d = Triggered(c, owner, err)
  OBVIOUS
<1>5. d = b \/ d = Error(b, err)
  BY <1>1, <1>4 DEF Triggered
<1>6. CASE d = b
  BY <1>2, <1>3, <1>4, <1>6 DEF Once, ToldOnce
<1>7. CASE d = Error(b, err)
  <2>1. Goes(b, d) /\ Steady(b, d) /\ Once(b, d) /\ d \in Conn
    BY <1>2, <1>3, <1>7, ErrorGoes, ErrorKeeps DEF Conn, Goes, Kept
  <2>2. Goes(c, d)
    BY <1>2, <1>3, <2>1, GoesTransitive
  <2> QED
    BY <1>2, <1>4, <2>1, <2>2 DEF Once, ToldOnce, Steady
<1> QED
  BY <1>5, <1>6, <1>7

\* A connection that enters the slab, and one that does so without a panic.
Newborn(c) ==
  c.uid = NextUid /\ c.state \in {"Connecting", "Open"} /\ c.closes = 0 /\ ~c.crash
Fresh(c) == c.state = "Open" /\ Whole(c) /\ Fit(c) /\ (Quiet => Calm(c))

LEMMA AcceptedIsFresh ==
  ASSUME NEW c \in Accepted
  PROVE  Newborn(c) /\ (Fresh(c) \/ (c.poll = "off" /\ "NewConnection" \in PanicOn))
<1> DEFINE n == NewConn
<1>1. /\ n.uid = NextUid /\ n.state = "Connecting" /\ ~n.client /\ n.events = {} /\ n.out = {}
      /\ n.poll = "off" /\ n.closes = 0 /\ ~n.crash
      /\ n = [uid |-> n.uid, id |-> n.id, state |-> n.state, client |-> n.client,
              addrs |-> n.addrs, events |-> n.events, out |-> n.out, got |-> n.got,
              data |-> n.data, net |-> n.net, poll |-> n.poll, interest |-> n.interest,
              closes |-> n.closes, fired |-> n.fired, crash |-> n.crash]
  BY DEF NewConn, New
<1> HIDE DEF n
<1>2. CASE c = Open(Armed(AsServer(n)))
  BY <1>1, <1>2 DEF Open, Armed, AsServer, Newborn, Fresh, Whole, Fit, Watched, Calm
<1>3. CASE /\ OsMayFail
           /\ IF "NewConnection" \in PanicOn THEN c = Error(AsServer(n), "Io")
              ELSE c = Open(Error(AsServer(n), "Io"))
  <2>1. PICK s : s = AsServer(n)
    OBVIOUS
  <2>2. /\ s = [n EXCEPT !.events = {"r"}] /\ s.state = "Connecting" /\ ~s.client
    BY <1>1, <2>1 DEF AsServer
  <2>3. PICK e : e = [n EXCEPT !.events = {"w"}]
    OBVIOUS
  <2>4. Error(s, "Io") = e
    <3>1. Error(s, "Io") = [s EXCEPT !.events = (@ \ {"r"}) \cup {"w"}]
      BY <2>2 DEF Error
    <3> QED
      BY <1>1, <2>2, <2>3, <3>1
  <2>5. CASE c = e /\ "NewConnection" \in PanicOn
    BY <1>1, <2>3, <2>5 DEF Newborn
  <2>6. CASE c = Open(e)
    BY <1>1, <1>3, <2>3, <2>6 DEF Open, Newborn, Fresh, Whole, Fit, Quiet
  <2> QED
    BY <1>3, <2>1, <2>4, <2>5, <2>6
<1> QED
  BY <1>2, <1>3, Zenon DEF Accepted, n

LEMMA ConnectedIsFresh ==
  ASSUME NEW n
  PROVE  LET c == Armed(AsClient(Open(NewConn), n)) IN Newborn(c) /\ Fresh(c)
BY DEF NewConn, New, Open, AsClient, Armed, Newborn, Fresh, Whole, Fit, Watched, Calm

-----------------------------------------------------------------------------
(* The inductive invariant of the loop *)

Pending == {e.token : e \in batch}

\* Only a panic in accept leaves a connection that is still connecting.
WholeSlab == pc # "panicked" => \A t \in Live : Whole(slab[t])

ToldLost == \A l \in lost : l.registered => l.closes > 0 /\ (Quiet => l.closes = 1)

BatchPhase ==
  /\ pc = "init" => Live = {} /\ batch = {}
  /\ pc = "poll" => batch = {}

\* While the loop runs nothing has panicked, a socket has one event in the batch at
\* most, its slab entry is occupied until that is handled, and every other
\* connection is watched.
Attended ==
  /\ \A e, f \in batch : e.token = f.token /\ e.token \in Tokens => e = f
  /\ \A e \in batch : e.token \in Tokens => e.token \in Live /\ slab[e.token].poll = "spent"
  /\ \A t \in Live : /\ ~slab[t].crash
                     /\ t \notin Pending => Fit(slab[t])
                     /\ Quiet => Calm(slab[t])

LoopInv == WholeSlab /\ ToldLost /\ BatchPhase /\ (Running => Attended)

\* What a step does with the connections: all go on, one is released, one enters the
\* slab, one is made and given up at once, or is dropped in a panic.
Continues ==
  \A t \in Tokens : IF slab[t] = NoConn THEN slab'[t] = NoConn
                    ELSE slab'[t] # NoConn /\ Onward(slab[t], slab'[t])
Released ==
  \E t \in Live : /\ slab' = [slab EXCEPT ![t] = NoConn]
                  /\ \E l \in Lost : /\ lost' = lost \cup {l}
                                     /\ l.uid = slab[t].uid /\ l.registered /\ l.closes > 0
Entered ==
  \E t \in Tokens \ Live : \E c \in Conn : slab' = [slab EXCEPT ![t] = c] /\ Newborn(c)
Numbered == \E t \in Tokens : home' = Append(home, t)

Evolves ==
  \/ Continues /\ UNCHANGED <<home, lost>>
  \/ Released /\ UNCHANGED home
  \/ Entered /\ Numbered /\ UNCHANGED lost
  \/ Continues /\ Numbered /\ UNCHANGED lost
  \/ Continues /\ Numbered /\ lost' = lost \cup {LostOf(NewConn, FALSE)}

LEMMA SlabType ==
  ASSUME IInv
  PROVE  /\ slab \in [Tokens -> Conn \cup {NoConn}]
         /\ \A t \in Live : t \in Tokens /\ slab[t] \in Conn /\ Good(slab[t])
         /\ NoConn \notin Conn
BY NoConnIsNot DEF IInv, GoodSlab, Good, Live

LEMMA ContinuesSelf == ASSUME IInv, UNCHANGED slab PROVE Continues
<1> SUFFICES ASSUME NEW t \in Tokens, slab[t] # NoConn PROVE Onward(slab[t], slab[t])
  BY DEF Continues
<1>1. slab[t] \in Conn
  BY SlabType
<1> QED
  BY <1>1, OnwardSelf DEF Conn

\* A step that leaves the connections alone.
LEMMA StillStep ==
  ASSUME IInv, LoopInv, UNCHANGED <<slab, lost, home>>,
         batch' \subseteq batch, \A e \in batch : e \in batch' \/ e.token \notin Tokens,
         pc' = "init" => pc = "init" /\ UNCHANGED batch, pc' = "poll" => batch' = {},
         pc = "panicked" => pc' = "panicked",
         Running' => pc \in {"init", "poll", "batch"}
  PROVE  LoopInv' /\ Evolves
<1>1. Evolves
  BY ContinuesSelf DEF Evolves
<1>2. WholeSlab' /\ ToldLost' /\ Live' = Live
  BY DEF LoopInv, WholeSlab, ToldLost, Live
<1>3. BatchPhase'
  BY <1>2 DEF LoopInv, BatchPhase
<1>4. ASSUME Running' PROVE Attended'
  <2>1. CASE pc = "init"
    <3>1. Live = {} /\ batch' = {}
      BY <2>1 DEF LoopInv, BatchPhase
    <3> QED
      BY <1>2, <3>1 DEF Attended
  <2>2. CASE pc # "init"
    <3>1. Attended
      BY <1>4, <2>2 DEF LoopInv, Running
    <3>2. \A t \in Live : t \notin Pending' => t \notin Pending
      BY DEF Pending, Live
    <3>3. \A t \in Live : slab'[t] = slab[t]
      OBVIOUS
    <3> QED
      BY <1>2, <3>1, <3>2 DEF Attended
  <2> QED
    BY <2>1, <2>2
<1> QED
  BY <1>1, <1>2, <1>3, <1>4 DEF LoopInv

\* The steps of the other threads and of the clock, and those of the loop's thread
\* that touch no connection.
LEMMA StillSteps ==
  ASSUME IInv, LoopInv,
         \/ AppSend \/ PeerConnect \/ TimerExpires \/ Listen \/ Run \/ StartFails \/ PollFails
         \/ FinishTick \/ AcceptFails \/ TimersDone \/ SelfBlock \/ UNCHANGED vars
  PROVE  LoopInv' /\ Evolves
<1>1. UNCHANGED <<slab, lost, home>>
  BY DEF AppSend, PeerConnect, TimerExpires, Listen, Run, StartFails, PollFails, FinishTick,
         AcceptFails, TimersDone, SelfBlock, vars
<1>2. CASE UNCHANGED <<pc, batch>>
  <2>1. pc = "poll" => batch = {}
    BY DEF LoopInv, BatchPhase
  <2> QED
    BY <1>1, <1>2, <2>1, StillStep DEF Running
<1>3. CASE Run \/ StartFails \/ PollFails \/ FinishTick \/ SelfBlock
  <2>1. /\ UNCHANGED batch /\ pc' # "init" /\ (pc' = "poll" => batch = {})
        /\ pc # "panicked" /\ (Running' => pc \in {"init", "poll", "batch"})
    BY <1>3 DEF Run, StartFails, PollFails, FinishTick, SelfBlock, Handling, Running, LoopInv,
                BatchPhase
  <2> QED
    BY <1>1, <2>1, StillStep
<1>4. CASE AcceptFails \/ TimersDone
  <2>1. PICK e \in batch : /\ pc = "batch" /\ e.token \in {ALL, TIMER}
                           /\ batch' = batch \ {e} /\ UNCHANGED pc
    BY <1>4 DEF AcceptFails, TimersDone, Handling
  <2>2. e.token \notin Tokens
    BY <2>1, LoopAssumption
  <2> QED
    BY <1>1, <2>1, <2>2, StillStep
<1> QED
  BY <1>2, <1>3, <1>4 DEF AppSend, PeerConnect, TimerExpires, Listen, vars, loop

\* What a peer does changes nothing the loop knows of a connection.
LEMMA PeerStep == ASSUME IInv, LoopInv, Peer PROVE LoopInv' /\ Evolves
<1>1. UNCHANGED <<pc, batch, home, lost>> /\ Running
  BY DEF Peer, loop
<1>2. PICK t, d :
        /\ t \in Live
        /\ slab' = [slab EXCEPT ![t] = d]
        /\ d = [slab[t] EXCEPT !.data = TRUE] \/ \E n \in Nets : d = [slab[t] EXCEPT !.net = n]
  <2>1. PICK t \in Live :
          \/ slab' = [slab EXCEPT ![t].data = TRUE]
          \/ slab' = [slab EXCEPT ![t].net = "eof"]
          \/ slab' = [slab EXCEPT ![t].net = "reset"]
          \/ \E n \in {"up", "refused"} : slab' = [slab EXCEPT ![t].net = n]
    BY DEF Peer
  <2> QED
    BY <2>1 DEF Nets
<1>3. /\ slab \in [Tokens -> Conn \cup {NoConn}] /\ t \in Tokens /\ NoConn \notin Conn
      /\ slab[t] \in Conn
  BY <1>2, SlabType
<1>4. PICK c : c = slab[t]
  OBVIOUS
<1>5. /\ d.state = c.state /\ d.uid = c.uid /\ d.closes = c.closes /\ d.crash = c.crash
      /\ d.events = c.events /\ d.out = c.out /\ d.poll = c.poll /\ d.interest = c.interest
      /\ d \in Conn /\ d.closes >= c.closes
  <2>1. c \in Conn
    BY <1>3, <1>4
  <2>2. CASE d = [c EXCEPT !.data = TRUE]
    <3>1. c.closes >= c.closes
      BY <2>1 DEF Conn, ConnOf
    <3>2. d \in Conn
      BY <2>1, <2>2 DEF Conn, ConnOf
    <3> QED
      BY <2>1, <2>2, <3>1, <3>2 DEF Conn, ConnOf
  <2>3. ASSUME NEW n \in Nets, d = [c EXCEPT !.net = n]
        PROVE  /\ d.state = c.state /\ d.uid = c.uid /\ d.closes = c.closes /\ d.crash = c.crash
               /\ d.events = c.events /\ d.out = c.out /\ d.poll = c.poll /\ d.interest = c.interest
               /\ d \in Conn /\ d.closes >= c.closes
    BY <2>1, <2>3 DEF Conn, ConnOf
  <2> QED
    BY <1>2, <1>4, <2>2, <2>3
<1>6. Live' = Live /\ \A u \in Live : slab'[u] = slab[u] \/ (u = t /\ slab'[u] = d)
  BY <1>2, <1>3, <1>5 DEF Live
<1>7. Onward(c, d) /\ (Whole(c) => Whole(d)) /\ (Fit(c) => Fit(d)) /\ (Calm(c) => Calm(d))
  BY <1>5 DEF Onward, Whole, Fit, Watched, Calm, Alive
<1>8. Continues
  <2> SUFFICES ASSUME NEW u \in Tokens
               PROVE  IF slab[u] = NoConn THEN slab'[u] = NoConn
                      ELSE slab'[u] # NoConn /\ Onward(slab[u], slab'[u])
    BY DEF Continues
  <2>1. CASE u = t
    BY <1>2, <1>3, <1>4, <1>5, <1>7, <2>1
  <2>2. CASE u # t
    <3>1. slab'[u] = slab[u] /\ (slab[u] # NoConn => slab[u] \in Conn)
      BY <1>2, <1>3, <2>2
    <3> QED
      BY <3>1, OnwardSelf DEF Conn
  <2> QED
    BY <2>1, <2>2
<1>9. WholeSlab' /\ ToldLost' /\ BatchPhase'
  <2>1. pc # "panicked"
    BY <1>1 DEF Running
  <2>2. \A u \in Live : Whole(slab[u])
    BY <2>1 DEF LoopInv, WholeSlab
  <2>3. WholeSlab'
    BY <1>2, <1>4, <1>6, <1>7, <2>2 DEF WholeSlab
  <2> QED
    BY <1>1, <1>6, <2>3 DEF LoopInv, ToldLost, BatchPhase
<1>10. Attended'
  <2>1. Attended /\ Pending' = Pending
    BY <1>1 DEF LoopInv, Pending
  <2>2. \A e \in batch' : e.token \in Tokens => e.token \in Live' /\ slab'[e.token].poll = "spent"
    BY <1>1, <1>4, <1>5, <1>6, <2>1 DEF Attended
  <2>3. \A u \in Live' : /\ ~slab'[u].crash
                         /\ u \notin Pending' => Fit(slab'[u])
                         /\ Quiet => Calm(slab'[u])
    BY <1>4, <1>5, <1>6, <1>7, <2>1 DEF Attended
  <2> QED
    BY <1>1, <2>1, <2>2, <2>3 DEF Attended
<1> QED
  BY <1>1, <1>8, <1>9, <1>10 DEF LoopInv, Evolves

\* Poll::poll: the connections that report an event are spent and have it in the batch.
LEMMA PollStep == ASSUME IInv, LoopInv, PollEvents PROVE LoopInv' /\ Evolves
<1>1. /\ pc = "poll" /\ pc' = "batch" /\ batch' = Ready /\ UNCHANGED <<home, lost>>
      /\ slab' = [t \in Tokens |-> IF t \in Live /\ Reports(slab[t])
                                   THEN [slab[t] EXCEPT !.poll = "spent"] ELSE slab[t]]
  BY DEF PollEvents
<1>2. Attended /\ batch = {}
  BY <1>1 DEF LoopInv, BatchPhase, Running
<1>3. ASSUME NEW c \in Conn, NEW d, d = [c EXCEPT !.poll = "spent"]
      PROVE  /\ d \in Conn /\ d.poll = "spent" /\ d.closes = c.closes /\ d.crash = c.crash
             /\ Onward(c, d) /\ (Whole(c) => Whole(d))
  <2>1. /\ d.state = c.state /\ d.uid = c.uid /\ d.closes = c.closes /\ d.crash = c.crash
        /\ d.events = c.events /\ d.out = c.out /\ d.poll = "spent"
        /\ d \in Conn /\ d.closes >= c.closes
    BY <1>3 DEF Conn, ConnOf
  <2> QED
    BY <2>1 DEF Onward, Whole, Alive
<1>4. ASSUME NEW t \in Tokens
      PROVE  IF t \in Live
             THEN IF Reports(slab[t]) THEN slab'[t] = [slab[t] EXCEPT !.poll = "spent"]
                                      ELSE slab'[t] = slab[t]
             ELSE slab[t] = NoConn /\ slab'[t] = NoConn
  BY <1>1 DEF Live
<1>5. ASSUME NEW t \in Live
      PROVE  /\ slab[t] \in Conn /\ slab'[t] \in Conn /\ slab'[t] # NoConn
             /\ Onward(slab[t], slab'[t]) /\ Whole(slab'[t])
             /\ slab'[t].closes = slab[t].closes /\ slab'[t].crash = slab[t].crash
             /\ IF Reports(slab[t]) THEN slab'[t].poll = "spent" ELSE slab'[t] = slab[t]
  <2>1. t \in Tokens /\ slab[t] \in Conn /\ NoConn \notin Conn /\ Whole(slab[t])
    BY <1>1, SlabType DEF LoopInv, WholeSlab
  <2>2. PICK c : c = slab[t]
    OBVIOUS
  <2>3. PICK d : d = slab'[t]
    OBVIOUS
  <2>4. CASE Reports(c)
    <3>1. d = [c EXCEPT !.poll = "spent"]
      BY <1>4, <2>1, <2>2, <2>3, <2>4
    <3> QED
      BY <1>3, <2>1, <2>2, <2>3, <2>4, <3>1
  <2>5. CASE ~Reports(c)
    <3>1. d = c
      BY <1>4, <2>1, <2>2, <2>3, <2>5
    <3> QED
      BY <2>1, <2>2, <2>3, <2>5, <3>1, OnwardSelf DEF Conn
  <2> QED
    BY <2>4, <2>5
<1>6. Live' = Live
  BY <1>4, <1>5 DEF Live
<1>7. Continues
  BY <1>4, <1>5 DEF Continues, Live
<1>8. WholeSlab' /\ ToldLost' /\ BatchPhase'
  BY <1>1, <1>5, <1>6 DEF LoopInv, WholeSlab, ToldLost, BatchPhase
<1>9. ASSUME NEW e \in Ready, e.token \in Tokens
      PROVE  /\ e.token \in Live /\ Reports(slab[e.token])
             /\ e = [token |-> e.token, ready |-> Readiness(slab[e.token]) \cap slab[e.token].interest]
  <2> DEFINE S == {t \in Live : Reports(slab[t])}
  <2>1. \/ \E t \in S : e = [token |-> t, ready |-> Readiness(slab[t]) \cap slab[t].interest]
        \/ e = [token |-> ALL, ready |-> {"r"}]
        \/ e = [token |-> QUEUE, ready |-> {"r"}]
        \/ e = [token |-> TIMER, ready |-> {"r"}]
    <3> HIDE DEF S
    <3>1. e \in {[token |-> t, ready |-> Readiness(slab[t]) \cap slab[t].interest] : t \in S}
            \cup {[token |-> ALL, ready |-> {"r"}] : b \in {b \in {TRUE} : listener /\ backlog > 0}}
            \cup {[token |-> QUEUE, ready |-> {"r"}] : b \in {b \in {TRUE} : queueArmed /\ queue # <<>>}}
            \cup {[token |-> TIMER, ready |-> {"r"}] : b \in {b \in {TRUE} : due # {}}}
      BY Zenon DEF Ready, S
    <3> QED
      BY <3>1
  <2>2. CASE \E t \in S : e = [token |-> t, ready |-> Readiness(slab[t]) \cap slab[t].interest]
    BY <2>2
  <2>3. CASE e.token \in {ALL, QUEUE, TIMER}
    BY <1>9, <2>3, LoopAssumption
  <2> HIDE DEF S
  <2> QED
    BY <2>1, <2>2, <2>3
<1>10. \A t \in Live : Reports(slab[t]) => t \in Pending'
  <2>1. ASSUME NEW t \in Live, Reports(slab[t]) PROVE \E e \in Ready : e.token = t
    <3> DEFINE e == [token |-> t, ready |-> Readiness(slab[t]) \cap slab[t].interest]
    <3>1. e \in Ready
      BY <2>1, Zenon DEF Ready
    <3> QED
      BY <3>1
  <2> QED
    BY <1>1, <2>1 DEF Pending
<1>11. Attended'
  <2>1. \A e, f \in batch' : e.token = f.token /\ e.token \in Tokens => e = f
    <3> SUFFICES ASSUME NEW e \in Ready, NEW f \in Ready, e.token = f.token, e.token \in Tokens
                 PROVE  e = f
      BY <1>1
    <3> QED
      BY <1>9
  <2>2. \A e \in batch' : e.token \in Tokens => e.token \in Live' /\ slab'[e.token].poll = "spent"
    BY <1>1, <1>5, <1>6, <1>9
  <2>3. \A t \in Live' : /\ ~slab'[t].crash
                         /\ t \notin Pending' => Fit(slab'[t])
                         /\ Quiet => Calm(slab'[t])
    <3> SUFFICES ASSUME NEW t \in Live
                 PROVE  /\ ~slab'[t].crash
                        /\ t \notin Pending' => Fit(slab'[t])
                        /\ Quiet => Calm(slab'[t])
      BY <1>6
    <3>1. ~slab[t].crash /\ Fit(slab[t]) /\ (Quiet => Calm(slab[t]))
      BY <1>2 DEF Attended, Pending
    <3>2. t \notin Pending' => slab'[t] = slab[t]
      BY <1>5, <1>10
    <3>3. Quiet => Calm(slab'[t])
      BY <1>5, <3>1 DEF Calm
    <3> QED
      BY <1>5, <3>1, <3>2, <3>3
  <2> QED
    BY <2>1, <2>2, <2>3 DEF Attended
<1> QED
  BY <1>1, <1>7, <1>8, <1>11 DEF LoopInv, Evolves

\* A connection enters the slab, or none: what the event of the listener does.
LEMMA EnteredStep ==
  ASSUME IInv, LoopInv, NEW t \in Tokens \ Live, NEW c \in Conn,
         Newborn(c), pc' # "panicked" => Fresh(c),
         slab' = [slab EXCEPT ![t] = c], UNCHANGED lost,
         pc = "batch", pc' = pc \/ pc' = "panicked",
         batch' \subseteq batch, \A e \in batch : e \in batch' \/ e.token \notin Tokens
  PROVE  LoopInv' /\ Entered
<1>1. /\ slab \in [Tokens -> Conn \cup {NoConn}] /\ NoConn \notin Conn
      /\ Attended
  BY SlabType DEF LoopInv, Running
<1>2. /\ Live' = Live \cup {t} /\ slab'[t] = c
      /\ \A u \in Live : u # t /\ slab'[u] = slab[u]
  BY <1>1 DEF Live
<1>3. ~c.crash /\ (pc' # "panicked" => Whole(c) /\ Fit(c) /\ (Quiet => Calm(c)))
  BY DEF Newborn, Fresh
<1>4. WholeSlab' /\ ToldLost' /\ BatchPhase'
  <2>1. WholeSlab'
    BY <1>2, <1>3 DEF LoopInv, WholeSlab
  <2> QED
    BY <2>1 DEF LoopInv, ToldLost, BatchPhase
<1>5. ASSUME Running' PROVE Attended'
  <2> pc' # "panicked"
    BY <1>5 DEF Running
  <2>1. \A u \in Live : u \notin Pending' => u \notin Pending
    BY DEF Pending, Live
  <2>2. \A e \in batch' : e.token \in Tokens => e.token \in Live' /\ slab'[e.token].poll = "spent"
    BY <1>1, <1>2 DEF Attended
  <2>3. \A u \in Live' : /\ ~slab'[u].crash
                         /\ u \notin Pending' => Fit(slab'[u])
                         /\ Quiet => Calm(slab'[u])
    BY <1>1, <1>2, <1>3, <2>1 DEF Attended
  <2> QED
    BY <1>1, <2>2, <2>3 DEF Attended
<1> QED
  BY <1>4, <1>5 DEF LoopInv, Entered

LEMMA HandleAcceptStep == ASSUME IInv, LoopInv, HandleAccept PROVE LoopInv' /\ Evolves
<1>1. PICK e \in batch :
        /\ pc = "batch" /\ e.token = ALL /\ batch' = batch \ {e} /\ UNCHANGED lost
        /\ \/ /\ pc' = IF "NewConnection" \in PanicOn THEN "panicked" ELSE pc
              /\ UNCHANGED <<slab, home>>
           \/ \E t \in Tokens \ Live, c \in Accepted :
                  /\ slab' = [slab EXCEPT ![t] = c]
                  /\ home' = Append(home, t)
                  /\ pc' = IF c.poll = "off" /\ "NewConnection" \in PanicOn
                           THEN "panicked" ELSE pc
  BY DEF HandleAccept, Handling
<1>2. batch' \subseteq batch /\ \A f \in batch : f \in batch' \/ f.token \notin Tokens
  BY <1>1, LoopAssumption
<1>3. CASE /\ pc' = IF "NewConnection" \in PanicOn THEN "panicked" ELSE pc
           /\ UNCHANGED <<slab, home>>
  BY <1>1, <1>2, <1>3, StillStep DEF Running
<1>4. ASSUME NEW t \in Tokens \ Live, NEW c \in Accepted,
             slab' = [slab EXCEPT ![t] = c], home' = Append(home, t),
             pc' = IF c.poll = "off" /\ "NewConnection" \in PanicOn THEN "panicked" ELSE pc
      PROVE  LoopInv' /\ Evolves
  <2>1. c \in Conn /\ Newborn(c) /\ (pc' # "panicked" => Fresh(c))
    BY <1>4, AcceptedIsNew, AcceptedIsFresh DEF IInv, Kept, Conn
  <2>2. LoopInv' /\ Entered
    BY <1>1, <1>2, <1>4, <2>1, EnteredStep
  <2>3. Numbered
    BY <1>4 DEF Numbered
  <2> QED
    BY <1>1, <2>2, <2>3 DEF Evolves
<1> QED
  BY <1>1, <1>3, <1>4

-----------------------------------------------------------------------------
(* Steps of one connection *)

\* check_active after the event of a socket or a timeout: the connection is watched
\* again, or its handler, told before, goes to connection_lost.
LEMMA SettleStep ==
  ASSUME IInv, LoopInv, NEW t \in Live, NEW c \in Conn, Goes(slab[t], c), Once(slab[t], c),
         c.poll = slab[t].poll, NEW o \in CheckActive(c), Settle(t, o),
         UNCHANGED home, pc = "batch", batch' \subseteq batch,
         \A e \in batch : e \in batch' \/ e.token = t,
         \A e \in batch' : e.token # t
  PROVE  LoopInv' /\ Evolves
<1>1. /\ slab \in [Tokens -> Conn \cup {NoConn}] /\ NoConn \notin Conn
      /\ t \in Tokens /\ slab[t] \in Conn /\ Attended /\ Whole(c)
  BY SlabType DEF LoopInv, Running, Goes
<1>2. /\ o.conn \in Conn /\ Goes(c, o.conn)
      /\ o.keep => Fit(o.conn)
      /\ ~o.keep /\ ~o.conn.crash => o.conn.closes > 0
      /\ Quiet /\ c.poll # "off" /\ ToldOnce(c) /\ ~o.conn.crash
           => IF o.keep THEN Calm(o.conn) ELSE o.conn.closes = 1
  BY <1>1, CheckActiveGoes
<1>3. Goes(slab[t], o.conn)
  BY <1>1, <1>2, GoesTransitive
<1>4. Quiet => c.poll # "off" /\ ToldOnce(c)
  BY <1>1 DEF Attended, Calm, Once
<1>5. \A u \in Live : u # t /\ u \notin Pending' => u \notin Pending
  BY DEF Pending
<1>6. CASE o.keep \/ o.conn.crash
  <2>1. /\ slab' = [slab EXCEPT ![t] = o.conn] /\ UNCHANGED lost
        /\ pc' = IF o.conn.crash THEN "panicked" ELSE pc
    BY <1>6 DEF Settle
  <2>2. /\ slab'[t] = o.conn /\ Live' = Live
        /\ \A u \in Tokens : u # t => slab'[u] = slab[u]
    BY <1>1, <1>2, <2>1 DEF Live
  <2>3. Continues
    <3> SUFFICES ASSUME NEW u \in Tokens
                 PROVE  IF slab[u] = NoConn THEN slab'[u] = NoConn
                        ELSE slab'[u] # NoConn /\ Onward(slab[u], slab'[u])
      BY DEF Continues
    <3>1. CASE u = t
      BY <1>1, <1>2, <1>3, <2>2, <3>1 DEF Goes
    <3>2. CASE u # t
      BY <1>1, <2>2, <3>2, OnwardSelf DEF Conn
    <3> QED
      BY <3>1, <3>2
  <2>4. WholeSlab' /\ ToldLost' /\ BatchPhase'
    <3>1. WholeSlab'
      BY <1>3, <2>2 DEF LoopInv, WholeSlab, Goes, Live
    <3> QED
      BY <2>1, <3>1 DEF LoopInv, ToldLost, BatchPhase
  <2>5. ASSUME Running' PROVE Attended'
    <3>1. ~o.conn.crash /\ o.keep
      BY <1>6, <2>1, <2>5 DEF Running
    <3>2. \A u \in Live' : /\ ~slab'[u].crash
                           /\ u \notin Pending' => Fit(slab'[u])
                           /\ Quiet => Calm(slab'[u])
      BY <1>1, <1>2, <1>4, <1>5, <2>2, <3>1 DEF Attended, Live
    <3>3. \A e \in batch' : e.token \in Tokens => e.token \in Live' /\ slab'[e.token].poll = "spent"
      BY <1>1, <2>2 DEF Attended
    <3> QED
      BY <1>1, <3>2, <3>3 DEF Attended
  <2> QED
    BY <2>1, <2>3, <2>4, <2>5 DEF LoopInv, Evolves
<1>7. CASE ~o.keep /\ ~o.conn.crash
  <2>1. /\ slab' = [slab EXCEPT ![t] = NoConn] /\ UNCHANGED pc
        /\ lost' = lost \cup {LostOf(o.conn, TRUE)}
    BY <1>7 DEF Settle
  <2>2. /\ slab'[t] = NoConn /\ Live' = Live \ {t}
        /\ \A u \in Tokens : u # t => slab'[u] = slab[u]
    BY <1>1, <2>1 DEF Live
  <2>3. PICK l : l = LostOf(o.conn, TRUE)
    OBVIOUS
  <2>4. /\ l \in Lost /\ l.uid = slab[t].uid /\ l.registered /\ l.closes = o.conn.closes
    BY <1>2, <1>3, <2>3 DEF LostOf, Lost, Conn, ConnOf, Goes, Onward
  <2>5. l.closes > 0 /\ (Quiet => l.closes = 1)
    BY <1>2, <1>4, <1>7, <2>4
  <2>6. Released
    BY <2>1, <2>3, <2>4, <2>5 DEF Released
  <2>7. WholeSlab' /\ ToldLost' /\ BatchPhase'
    <3>1. WholeSlab'
      BY <2>2 DEF LoopInv, WholeSlab, Live
    <3>2. ToldLost'
      BY <2>1, <2>3, <2>5 DEF LoopInv, ToldLost
    <3> QED
      BY <2>1, <3>1, <3>2 DEF LoopInv, BatchPhase
  <2>8. Attended'
    <3>1. \A u \in Live' : /\ ~slab'[u].crash
                           /\ u \notin Pending' => Fit(slab'[u])
                           /\ Quiet => Calm(slab'[u])
      BY <1>1, <1>5, <2>2 DEF Attended, Live
    <3>2. \A e \in batch' : e.token \in Tokens => e.token \in Live' /\ slab'[e.token].poll = "spent"
      BY <1>1, <2>2 DEF Attended
    <3> QED
      BY <1>1, <3>1, <3>2 DEF Attended
  <2> QED
    BY <2>6, <2>7, <2>8 DEF LoopInv, Evolves
<1> QED
  BY <1>6, <1>7

\* The event of a socket: its slab entry is occupied.
LEMMA HandleConnStep ==
  ASSUME IInv, LoopInv, HandleConn
  PROVE  LoopInv' /\ Evolves /\ (pc' = "panicked" => Crashed(slab'))
<1>1. PICK e \in batch :
        /\ pc = "batch" /\ e.token \in Tokens /\ batch' = batch \ {e} /\ UNCHANGED home
        /\ slab[e.token] # NoConn =>
             \E r \in HandleIo(slab[e.token], e.ready) :
               \E o \in CheckActive(r.conn) : Settle(e.token, o)
  BY DEF HandleConn, Handling
<1>2. Attended
  BY <1>1 DEF LoopInv, Running
<1>3. e.token \in Live
  BY <1>1, <1>2 DEF Attended
<1>4. PICK r \in HandleIo(slab[e.token], e.ready) :
        \E o \in CheckActive(r.conn) : Settle(e.token, o)
  BY <1>1, <1>3 DEF Live
<1>5. PICK o \in CheckActive(r.conn) : Settle(e.token, o)
  BY <1>4
<1>6. slab[e.token] \in Conn /\ Whole(slab[e.token])
  BY <1>1, <1>3, SlabType DEF LoopInv, WholeSlab
<1>7. PICK c : c = r.conn
  OBVIOUS
<1>8. /\ c \in Conn /\ Goes(slab[e.token], c) /\ Once(slab[e.token], c)
      /\ c.poll = slab[e.token].poll
  BY <1>6, <1>7, HandleIoGoes
<1>9. \A f \in batch : f \in batch' \/ f.token = e.token
  BY <1>1
<1>10. \A f \in batch' : f.token # e.token
  BY <1>1, <1>2 DEF Attended
<1>11. LoopInv' /\ Evolves
  BY <1>1, <1>3, <1>5, <1>7, <1>8, <1>9, <1>10, SettleStep
<1>12. ASSUME pc' = "panicked" PROVE Crashed(slab')
  <2>1. o.conn.crash /\ slab' = [slab EXCEPT ![e.token] = o.conn]
    BY <1>1, <1>5, <1>12 DEF Settle
  <2>2. o.conn \in Conn
    BY <1>5, <1>7, <1>8, CheckActiveKeepsIdentity DEF Kept, Conn
  <2> QED
    BY <1>1, <2>1, <2>2, SlabType DEF Crashed
<1> QED
  BY <1>11, <1>12

\* A timeout: the sockets' events of the batch have all been handled.
LEMMA HandleTimeoutStep ==
  ASSUME IInv, LoopInv, HandleTimeout
  PROVE  LoopInv' /\ Evolves /\ (pc' = "panicked" => Crashed(slab'))
<1>1. PICK e \in batch, s \in due :
        /\ pc = "batch" /\ InOrder(e) /\ e.token = TIMER /\ UNCHANGED <<home, batch>>
        /\ OnTimeout(timers[s].connection, timers[s].owner)
  BY DEF HandleTimeout, Handling
<1>2. PICK t : t = timers[s].connection
  OBVIOUS
<1>3. \A f \in batch : f.token \notin Tokens
  BY <1>1, LoopAssumption DEF InOrder
<1>4. CASE t \notin Live
  <2>1. UNCHANGED <<pc, slab, lost>>
    BY <1>1, <1>2, <1>4 DEF OnTimeout
  <2> QED
    BY <1>1, <2>1, StillStep DEF Running
<1>5. CASE t \in Live
  <2>1. PICK err : \E o \in CheckActive(Triggered(slab[t], timers[s].owner, err)) : Settle(t, o)
    BY <1>1, <1>2, <1>5 DEF OnTimeout
  <2>2. PICK c : c = Triggered(slab[t], timers[s].owner, err)
    OBVIOUS
  <2>3. PICK o \in CheckActive(c) : Settle(t, o)
    BY <2>1, <2>2
  <2>4. timers[s].owner \in Nat
    BY DEF IInv, TimersOK, Timeout
  <2>5. t \in Tokens /\ slab[t] \in Conn /\ Whole(slab[t])
    BY <1>1, <1>5, SlabType DEF LoopInv, WholeSlab
  <2>6. c \in Conn /\ Goes(slab[t], c) /\ Once(slab[t], c) /\ c.poll = slab[t].poll
    BY <2>2, <2>4, <2>5, TriggeredGoes
  <2>7. LoopInv' /\ Evolves
    BY <1>1, <1>3, <1>5, <2>3, <2>5, <2>6, SettleStep
  <2>8. ASSUME pc' = "panicked" PROVE Crashed(slab')
    <3>1. o.conn.crash /\ slab' = [slab EXCEPT ![t] = o.conn]
      BY <1>1, <2>3, <2>8 DEF Settle
    <3>2. o.conn \in Conn
      BY <2>3, <2>6, CheckActiveKeepsIdentity DEF Kept, Conn
    <3> QED
      BY <2>5, <3>1, <3>2, SlabType DEF Crashed
  <2> QED
    BY <2>7, <2>8
<1> QED
  BY <1>4, <1>5

-----------------------------------------------------------------------------
(* Steps that take a command *)

\* Every entry of the slab goes the way of a command, or stays vacant.
SlabMoves ==
  \A t \in Tokens : IF slab[t] = NoConn THEN slab'[t] = NoConn
                    ELSE slab'[t] # NoConn /\ Moves(slab[t], slab'[t])

LEMMA TakeStep ==
  ASSUME IInv, LoopInv, NEW signal, Take(signal)
  PROVE  /\ pc = "batch" /\ batch' \subseteq batch /\ \A e \in batch : e.token \notin Tokens
         /\ \A t \in Live : /\ slab[t] \in Conn /\ ~slab[t].crash /\ Whole(slab[t])
                            /\ Fit(slab[t]) /\ (Quiet => Calm(slab[t]))
<1>1. PICK e \in batch : pc = "batch" /\ InOrder(e) /\ e.token = QUEUE /\ batch' = batch \ {e}
  BY DEF Take, Handling
<1>2. \A f \in batch : f.token \notin Tokens
  BY <1>1, LoopAssumption DEF InOrder
<1>3. Attended /\ \A t \in Live : t \notin Pending
  BY <1>1, <1>2 DEF LoopInv, Running, Pending, Live
<1> QED
  BY <1>1, <1>2, <1>3, SlabType DEF Attended, LoopInv, WholeSlab

\* A command on connections of the slab, none released.
LEMMA MovesStep ==
  ASSUME IInv, LoopInv, NEW signal, Take(signal), SlabMoves, ToldLost',
         pc' = "panicked" \/ (pc' = pc /\ ~Crashed(slab'))
  PROVE  LoopInv' /\ Continues
<1>1. /\ pc = "batch" /\ batch' \subseteq batch /\ \A e \in batch : e.token \notin Tokens
      /\ \A t \in Live : Fit(slab[t]) /\ (Quiet => Calm(slab[t]))
  BY TakeStep
<1>2. Live' = Live /\ \A t \in Live : Moves(slab[t], slab'[t])
  BY DEF SlabMoves, Live
<1>3. Continues
  BY DEF Continues, SlabMoves, Moves, Goes
<1>4. WholeSlab' /\ BatchPhase'
  BY <1>1, <1>2 DEF WholeSlab, Moves, Goes, BatchPhase
<1>5. ASSUME Running' PROVE Attended'
  <2>1. ~Crashed(slab')
    BY <1>5 DEF Running
  <2>2. \A t \in Live' : ~slab'[t].crash
    BY <2>1 DEF Crashed, Live
  <2>3. \A t \in Live' : Fit(slab'[t]) /\ (Quiet => Calm(slab'[t]))
    BY <1>1, <1>2, <2>2 DEF Moves, Tame
  <2> QED
    BY <1>1, <2>2, <2>3 DEF Attended
<1> QED
  BY <1>3, <1>4, <1>5 DEF LoopInv

LEMMA DirectStep ==
  ASSUME IInv, NEW cmd, ItemOf(cmd) \in Nat, slab' \in Direct(cmd),
         \A t \in Live : slab[t] \in Conn /\ Whole(slab[t])
  PROVE  SlabMoves
<1> DEFINE t == cmd.token
           Results == IF slab[t].id = cmd.id THEN Applied(cmd, slab[t])
                      ELSE {Result(slab[t], "ok", FALSE)}
<1>1. \A u \in Tokens : slab[u] # NoConn => Moves(slab[u], slab[u])
  BY SelfMoves DEF Live
<1>2. CASE t \notin Live
  <2>1. slab' = slab
    BY <1>2 DEF Direct
  <2> QED
    BY <1>1, <2>1 DEF SlabMoves
<1>3. CASE t \in Live
  <2>0. slab' \in {[slab EXCEPT ![t] = d] : d \in UNION {Scheduled(Fail(r)) : r \in Results}}
    BY <1>3, Zenon DEF Direct
  <2>1. PICK r \in Results : \E d \in Scheduled(Fail(r)) : slab' = [slab EXCEPT ![t] = d]
    <3> HIDE DEF Results
    <3> QED
      BY <2>0
  <2>2. PICK d \in Scheduled(Fail(r)) : slab' = [slab EXCEPT ![t] = d]
    BY <2>1
  <2>3. slab[t] \in Conn /\ Whole(slab[t]) /\ t \in Tokens
    BY <1>3 DEF Live
  <2>4. /\ r.conn \in Conn /\ Goes(slab[t], r.conn) /\ Tame(slab[t], r.conn)
        /\ r.err \notin {"Http", "Io", "Refused"}
    <3>1. CASE slab[t].id = cmd.id
      BY <2>3, <3>1, AppliedGoes
    <3>2. CASE slab[t].id # cmd.id
      BY <2>3, <3>2, SelfMoves DEF Result, Moves
    <3> QED
      BY <3>1, <3>2
  <2>5. Moves(slab[t], d)
    BY <2>3, <2>4, DirectMoves
  <2>6. d \in Conn /\ NoConn \notin Conn
    <3>1. Fail(r) \in Conn
      BY <2>4, FailKeeps DEF Conn, Kept
    <3> QED
      BY <3>1, ScheduledKeeps, NoConnIsNot DEF Kept, Conn
  <2> HIDE DEF t, Results
  <2>7. \A u \in Tokens : slab'[u] = IF u = t THEN d ELSE slab[u]
    BY <2>2, <2>3, SlabType
  <2> QED
    BY <1>1, <1>3, <2>5, <2>6, <2>7 DEF SlabMoves, Live
<1> QED
  BY <1>2, <1>3

LEMMA BroadcastStep ==
  ASSUME IInv, NEW cmd, ItemOf(cmd) \in Nat, slab' \in Broadcast(cmd),
         \A t \in Live : slab[t] \in Conn /\ Whole(slab[t])
  PROVE  SlabMoves
<1> DEFINE After(t) == UNION {Reported(r) : r \in Applied(cmd, slab[t])}
<1>1. ASSUME NEW t \in Live, NEW d \in After(t) PROVE Moves(slab[t], d) /\ d # NoConn
  <2>1. PICK r \in Applied(cmd, slab[t]) : d \in Reported(r)
    BY <1>1
  <2>2. /\ r.conn \in Conn /\ Goes(slab[t], r.conn) /\ Tame(slab[t], r.conn)
        /\ r.err \notin {"Http", "Io", "Refused"} /\ r = Result(r.conn, r.err, r.told)
    BY AppliedGoes, AppliedIsResult
  <2>3. Moves(slab[t], d)
    BY <2>1, <2>2, ReportedMoves
  <2>4. d \in Conn
    <3> DEFINE q == [r EXCEPT !.conn = Armed(@)]
    <3>1. d = Fail(q) \/ d = Error(Fail(r), "Io")
      BY <2>1, Zenon DEF Reported
    <3>2. q.conn \in Conn
      BY <2>2, ArmedKeeps DEF Kept, Result, Conn
    <3>3. Fail(r) \in Conn
      BY <2>2, FailKeeps DEF Kept, Conn
    <3> HIDE DEF q
    <3> QED
      BY <3>1, <3>2, <3>3, FailKeeps, ErrorKeeps DEF Kept, Conn
  <2> QED
    BY <2>3, <2>4, NoConnIsNot
<1>2. \A t \in Tokens : IF t \in Live THEN slab'[t] \in After(t) ELSE slab'[t] = NoConn
  BY DEF Broadcast
<1> HIDE DEF After
<1> QED
  BY <1>1, <1>2 DEF SlabMoves, Live

LEMMA DeliverStep ==
  ASSUME IInv, LoopInv, NEW signal, Deliver(signal)
  PROVE  LoopInv' /\ Evolves
<1>1. /\ Take(signal) /\ UNCHANGED <<home, lost>>
      /\ slab' \in IF Head(queue).token = ALL THEN Broadcast(Head(queue)) ELSE Direct(Head(queue))
      /\ pc' = IF Crashed(slab') THEN "panicked" ELSE pc
  BY DEF Deliver
<1>2. GoodCommand(Head(queue))
  BY <1>1, HomeUnchanged, TakeKeeps DEF IInv
<1>3. ItemOf(Head(queue)) \in Nat
  BY <1>2 DEF ItemOf, GoodCommand, Command
<1>4. \A t \in Live : slab[t] \in Conn /\ Whole(slab[t])
  BY <1>1, TakeStep
<1>5. SlabMoves
  BY <1>1, <1>3, <1>4, DirectStep, BroadcastStep
<1>6. ToldLost'
  BY <1>1 DEF LoopInv, ToldLost
<1>7. LoopInv' /\ Continues
  BY <1>1, <1>5, <1>6, MovesStep
<1> QED
  BY <1>1, <1>7 DEF Evolves

LEMMA QueueShutdownStep == ASSUME IInv, LoopInv, QueueShutdown PROVE LoopInv' /\ Evolves
<1> DEFINE down == [t \in Tokens |-> IF t \in Live THEN Shutdown(slab[t]) ELSE NoConn]
           chosen == IF Head(queue).token = ALL THEN Live ELSE {Head(queue).token} \cap Live
<1>1. /\ Take("Shutdown") /\ UNCHANGED <<home, lost>>
      /\ pc' = IF "Shutdown" \in PanicOn \/ Crashed(slab') THEN "panicked" ELSE pc
      /\ \A t \in Tokens : IF t \in chosen THEN slab'[t] \in Scheduled(down[t])
                            ELSE slab'[t] = down[t]
  BY DEF QueueShutdown
<1>2. \A t \in Live : slab[t] \in Conn /\ Whole(slab[t])
  BY <1>1, TakeStep
<1>3. ASSUME NEW t \in Live, NEW d, d = SendClose(slab[t]) \/ d \in Scheduled(SendClose(slab[t]))
      PROVE  Moves(slab[t], d) /\ d # NoConn
  <2>1. PICK c : c = slab[t]
    OBVIOUS
  <2>2. PICK b : b = SendClose(c)
    OBVIOUS
  <2>3. c \in Conn /\ b \in Conn /\ Moves(c, b)
    BY <1>2, <2>1, <2>2, ShutdownMoves, SendCloseKeeps DEF Conn, Kept
  <2>4. ASSUME d \in Scheduled(b) PROVE Moves(c, d) /\ d \in Conn
    <3>1. Goes(b, d) /\ Fit(d) /\ Tame(b, d) /\ d \in Conn
      BY <2>3, <2>4, ScheduledMoves, ScheduledKeeps DEF Moves, Goes, Kept, Conn
    <3>2. Goes(c, d) /\ Tame(c, d)
      BY <2>3, <3>1, GoesTransitive, TameTransitive DEF Moves, Goes
    <3> QED
      BY <3>1, <3>2 DEF Moves
  <2> QED
    BY <1>3, <2>1, <2>2, <2>3, <2>4, NoConnIsNot
<1>4. \A t \in Tokens : down[t] = IF t \in Live THEN SendClose(slab[t]) ELSE NoConn
  BY DEF Shutdown
<1>5. chosen \subseteq Live
  OBVIOUS
<1> HIDE DEF down, chosen
<1>6. SlabMoves
  <2> SUFFICES ASSUME NEW t \in Tokens
               PROVE  IF slab[t] = NoConn THEN slab'[t] = NoConn
                      ELSE slab'[t] # NoConn /\ Moves(slab[t], slab'[t])
    BY DEF SlabMoves
  <2>1. CASE t \in Live
    <3>1. slab'[t] = SendClose(slab[t]) \/ slab'[t] \in Scheduled(SendClose(slab[t]))
      BY <1>1, <1>4, <2>1
    <3> QED
      BY <1>3, <2>1, <3>1 DEF Live
  <2>2. CASE t \notin Live
    BY <1>1, <1>4, <1>5, <2>2 DEF Live
  <2> QED
    BY <2>1, <2>2
<1>7. ToldLost'
  BY <1>1 DEF LoopInv, ToldLost
<1>8. LoopInv' /\ Continues
  BY <1>1, <1>6, <1>7, MovesStep
<1> QED
  BY <1>1, <1>8 DEF Evolves

\* An error reported to one entry of the slab, or to none.
LEMMA OneErrorMoves ==
  ASSUME IInv, NEW t, NEW kind, OsMayFail \/ kind \notin {"Http", "Io"},
         \A u \in Live : slab[u] \in Conn /\ Whole(slab[u]),
         \/ slab' = slab
         \/ t \in Live /\ slab' = [slab EXCEPT ![t] = Error(@, kind)]
  PROVE  SlabMoves
<1>1. \A u \in Tokens : slab[u] # NoConn => Moves(slab[u], slab[u])
  BY SelfMoves DEF Live
<1>2. CASE slab' = slab
  BY <1>1, <1>2 DEF SlabMoves
<1>3. CASE t \in Live /\ slab' = [slab EXCEPT ![t] = Error(@, kind)]
  <2>1. PICK d : d = Error(slab[t], kind)
    OBVIOUS
  <2>2. Moves(slab[t], d) /\ d \in Conn /\ NoConn \notin Conn
    BY <1>3, <2>1, ErrorMoves, ErrorKeeps, NoConnIsNot DEF Conn, Kept
  <2>3. \A u \in Tokens : slab'[u] = IF u = t THEN d ELSE slab[u]
    BY <1>3, <2>1, SlabType
  <2> QED
    BY <1>1, <1>3, <2>2, <2>3 DEF SlabMoves, Live
<1> QED
  BY <1>2, <1>3

LEMMA RefuseMoves ==
  ASSUME IInv, LoopInv, NEW cmd, NEW kind, OsMayFail \/ kind \notin {"Http", "Io"},
         Take("Connect"), Refuse(cmd, kind)
  PROVE  SlabMoves /\ (pc' = "panicked" \/ (pc' = pc /\ ~Crashed(slab')))
<1>1. /\ \A t \in Live : slab[t] \in Conn /\ Whole(slab[t]) /\ ~slab[t].crash
  BY TakeStep
<1>2. SlabMoves
  BY <1>1, OneErrorMoves DEF Refuse
<1>3. slab' = slab => ~Crashed(slab')
  BY <1>1 DEF Crashed, Live
<1> QED
  BY <1>2, <1>3 DEF Refuse

LEMMA QueueConnectStep == ASSUME IInv, LoopInv, QueueConnect PROVE LoopInv' /\ Evolves
<1> DEFINE cmd == Head(queue)
<1>1. /\ Take("Connect")
      /\ IF Live = Tokens
         THEN Refuse(cmd, "Capacity") /\ UNCHANGED <<home, lost>>
         ELSE \E t \in Tokens \ Live :
                /\ home' = Append(home, t)
                /\ \/ MayNotResolve /\ pc' = "panicked" /\ UNCHANGED <<slab, lost>>
                   \/ OptionMayFail /\ Refuse(cmd, "Io") /\ UNCHANGED lost
                   \/ /\ OsMayFail
                      /\ \E kind \in {"Internal", "Io"} : Refuse(cmd, kind)
                      /\ lost' = lost \cup {LostOf(NewConn, FALSE)}
                   \/ /\ \E n \in 0..(MaxAddrs - 1) :
                           slab' = [slab EXCEPT ![t] = Armed(AsClient(Open(NewConn), n))]
                      /\ UNCHANGED <<pc, lost>>
  BY DEF QueueConnect
<1> HIDE DEF cmd
<1>2. /\ pc = "batch" /\ batch' \subseteq batch /\ \A e \in batch : e.token \notin Tokens
      /\ \A t \in Live : slab[t] \in Conn /\ Whole(slab[t])
  BY <1>1, TakeStep
<1>3. UNCHANGED lost => ToldLost'
  BY DEF LoopInv, ToldLost
<1>4. CASE Live = Tokens
  <2>1. SlabMoves /\ (pc' = "panicked" \/ (pc' = pc /\ ~Crashed(slab')))
    BY <1>1, <1>4, RefuseMoves
  <2> QED
    BY <1>1, <1>3, <1>4, <2>1, MovesStep DEF Evolves
<1>5. CASE Live # Tokens
  <2>1. PICK t \in Tokens \ Live :
          /\ home' = Append(home, t)
          /\ \/ pc' = "panicked" /\ UNCHANGED <<slab, lost>>
             \/ OsMayFail /\ Refuse(cmd, "Io") /\ UNCHANGED lost
             \/ /\ OsMayFail
                /\ \E kind \in {"Internal", "Io"} : Refuse(cmd, kind)
                /\ lost' = lost \cup {LostOf(NewConn, FALSE)}
             \/ /\ \E n \in 0..(MaxAddrs - 1) :
                     slab' = [slab EXCEPT ![t] = Armed(AsClient(Open(NewConn), n))]
                /\ UNCHANGED <<pc, lost>>
    BY <1>1, <1>5 DEF OptionMayFail
  <2>2. Numbered
    BY <2>1 DEF Numbered
  <2>3. CASE pc' = "panicked" /\ UNCHANGED <<slab, lost>>
    <3>1. SlabMoves
      BY <1>2, <2>3, OneErrorMoves, SelfMoves DEF SlabMoves, Live
    <3>2. LoopInv' /\ Continues
      BY <1>1, <1>3, <2>3, <3>1, MovesStep
    <3> QED
      BY <2>2, <2>3, <3>2 DEF Evolves
  <2>4. CASE /\ OsMayFail
             /\ \E kind \in {"Internal", "Io"} : Refuse(cmd, kind)
             /\ lost' = lost \cup {LostOf(NewConn, FALSE)}
    <3>1. SlabMoves /\ (pc' = "panicked" \/ (pc' = pc /\ ~Crashed(slab')))
      BY <1>1, <2>4, RefuseMoves
    <3>2. ToldLost'
      BY <2>4 DEF LoopInv, ToldLost, LostOf
    <3>3. LoopInv' /\ Continues
      BY <1>1, <3>1, <3>2, MovesStep
    <3> QED
      BY <2>2, <2>4, <3>3 DEF Evolves
  <2>5. CASE /\ \E n \in 0..(MaxAddrs - 1) :
                  slab' = [slab EXCEPT ![t] = Armed(AsClient(Open(NewConn), n))]
             /\ UNCHANGED <<pc, lost>>
    <3>1. PICK n \in 0..(MaxAddrs - 1) :
            slab' = [slab EXCEPT ![t] = Armed(AsClient(Open(NewConn), n))]
      BY <2>5
    <3>2. PICK d : d = Armed(AsClient(Open(NewConn), n))
      OBVIOUS
    <3>3. d \in Conn /\ Newborn(d) /\ Fresh(d)
      BY <3>2, ConnectedIsNew, ConnectedIsFresh DEF IInv, Kept, Conn
    <3>4. LoopInv' /\ Entered
      BY <1>2, <2>5, <3>1, <3>2, <3>3, EnteredStep
    <3> QED
      BY <2>2, <2>5, <3>4 DEF Evolves
  <2>6. CASE OsMayFail /\ Refuse(cmd, "Io") /\ UNCHANGED lost
    <3>1. SlabMoves /\ (pc' = "panicked" \/ (pc' = pc /\ ~Crashed(slab')))
      BY <1>1, <2>6, RefuseMoves
    <3>2. LoopInv' /\ Continues
      BY <1>1, <1>3, <2>6, <3>1, MovesStep
    <3> QED
      BY <2>2, <2>6, <3>2 DEF Evolves
  <2> QED
    BY <2>1, <2>3, <2>4, <2>5, <2>6
<1> QED
  BY <1>4, <1>5

LEMMA QueueTimeoutStep == ASSUME IInv, LoopInv, QueueTimeout PROVE LoopInv' /\ Evolves
<1> DEFINE cmd == Head(queue)
           told == IF cmd.token = ALL THEN Live ELSE {cmd.token} \cap Live
<1>1. /\ Take("Timeout") /\ UNCHANGED <<home, lost>>
      /\ \/ slab' \in Announced(told) /\ pc' = IF Crashed(slab') THEN "panicked" ELSE pc
         \/ /\ slab' = slab \/ (cmd.token \in Live /\ slab' = [slab EXCEPT ![cmd.token] = Error(@, "Timer")])
            /\ pc' = "panicked" \/ (pc' = pc /\ ~Crashed(slab'))
  BY DEF QueueTimeout
<1>2. \A t \in Live : slab[t] \in Conn /\ Whole(slab[t])
  BY <1>1, TakeStep
<1>3. told \subseteq Live
  OBVIOUS
<1> HIDE DEF cmd, told
<1>4. ASSUME slab' \in Announced(told) PROVE SlabMoves
  <2> DEFINE After(c) == {c} \cup {Error(c, kind) : kind \in NewTimeoutErrs}
  <2>1. \A t \in Tokens : IF t \in told THEN slab'[t] \in After(slab[t]) ELSE slab'[t] = slab[t]
    BY <1>4 DEF Announced
  <2>2. ASSUME NEW t \in Live, NEW d \in After(slab[t]) PROVE Moves(slab[t], d) /\ d # NoConn
    <3>1. CASE d = slab[t]
      BY <1>2, <3>1, SelfMoves DEF Live
    <3>2. ASSUME NEW kind \in NewTimeoutErrs, d = Error(slab[t], kind)
          PROVE  Moves(slab[t], d) /\ d # NoConn
      <4>1. kind \notin {"Http", "Io"} \/ ~Quiet
        BY DEF Quiet
      <4>2. Moves(slab[t], d)
        BY <1>2, <3>2, <4>1, ErrorMoves
      <4>3. d \in Conn
        BY <1>2, <3>2, ErrorKeeps DEF Conn, Kept
      <4> QED
        BY <4>2, <4>3, NoConnIsNot
    <3> QED
      BY <3>1, <3>2
  <2> HIDE DEF After
  <2>3. \A t \in Tokens : slab[t] # NoConn => Moves(slab[t], slab[t])
    BY <1>2, SelfMoves DEF Live
  <2> QED
    BY <1>3, <2>1, <2>2, <2>3 DEF SlabMoves, Live
<1>5. ASSUME slab' = slab \/ (cmd.token \in Live /\ slab' = [slab EXCEPT ![cmd.token] = Error(@, "Timer")])
      PROVE  SlabMoves
  BY <1>2, <1>5, OneErrorMoves
<1>6. SlabMoves /\ (pc' = "panicked" \/ (pc' = pc /\ ~Crashed(slab')))
  BY <1>1, <1>4, <1>5
<1>7. ToldLost'
  BY <1>1 DEF LoopInv, ToldLost
<1>8. LoopInv' /\ Continues
  BY <1>1, <1>6, <1>7, MovesStep
<1> QED
  BY <1>1, <1>8 DEF Evolves

LEMMA QueueCancelStep == ASSUME IInv, LoopInv, QueueCancel PROVE LoopInv' /\ Evolves
<1>1. Take("Cancel") /\ UNCHANGED <<pc, slab, home, lost>>
  BY DEF QueueCancel
<1>2. /\ pc = "batch" /\ batch' \subseteq batch /\ \A e \in batch : e.token \notin Tokens
  BY <1>1, TakeStep
<1> QED
  BY <1>1, <1>2, StillStep DEF Running

-----------------------------------------------------------------------------
(* Theorems about the slab and what leaves it *)

LEMMA LoopInitially == Init => LoopInv
BY DEF Init, LoopInv, WholeSlab, ToldLost, BatchPhase, Running, Live

LEMMA LoopInductive == IInv /\ LoopInv /\ [Next]_vars => LoopInv' /\ Evolves
<1> SUFFICES ASSUME IInv, LoopInv, [Next]_vars PROVE LoopInv' /\ Evolves
  OBVIOUS
<1>1. CASE UNCHANGED vars \/ Stopped
  BY <1>1, StillSteps DEF Stopped
<1>2. CASE Next /\ ~LoopStep /\ ~Stopped
  BY <1>2, StillSteps, PeerStep DEF Next
<1>3. CASE LoopStep /\ ~HandleQueue
  BY <1>3, StillSteps, PollStep, HandleAcceptStep, HandleConnStep, HandleTimeoutStep DEF LoopStep
<1>4. CASE HandleQueue
  BY <1>4, DeliverStep, QueueShutdownStep, QueueConnectStep, QueueTimeoutStep,
     QueueCancelStep DEF HandleQueue, QueueMessage, QueueClose
<1> QED
  BY <1>1, <1>2, <1>3, <1>4 DEF Next, LoopStep

\* What the loop knows of its connections between any two steps.
THEOREM LoopInvariance == Spec => []LoopInv
BY Invariance, LoopInitially, LoopInductive, PTL DEF Spec

\* No connection is forgotten by the poll, for any number of slab entries and whatever
\* fails.  (io.rs, check_active and schedule; connection.rs, check_events)
THEOREM NothingStranded == Spec => []NoStranded
<1>1. LoopInv => NoStranded
  <2> SUFFICES ASSUME LoopInv, Running, NEW t \in Live,
                      slab[t].closes = 0, slab[t].poll # "off"
               PROVE  LET c == slab[t]
                          pending == \E e \in batch : e.token = t
                      IN /\ c.poll = "spent" <=> pending
                         /\ ~pending => c.events \cap c.interest # {}
                         /\ ~pending /\ c.out # {} => "w" \in c.events \cap c.interest
    BY DEF NoStranded
  <2>1. Attended /\ t \in Tokens
    BY DEF LoopInv, Live
  <2>2. Alive(slab[t])
    BY <2>1 DEF Attended, Alive
  <2>3. ASSUME NEW e \in batch, e.token = t PROVE slab[t].poll = "spent"
    BY <2>1, <2>3 DEF Attended
  <2>4. ASSUME \A e \in batch : e.token # t
        PROVE  slab[t].poll = "armed" /\ Watched(slab[t])
    BY <2>1, <2>2, <2>4 DEF Attended, Pending, Fit
  <2> QED
    BY <2>3, <2>4 DEF Watched
<1> QED
  BY <1>1, LoopInvariance, PTL

\* No connection in the slab is still connecting, whatever fails, unless accept has
\* panicked: the debug_assert of send_close holds.
\* (connection.rs, send_close; io.rs, accept and connect)
THEOREM AlwaysOpened == Spec => []NeverConnecting
<1>1. LoopInv => NeverConnecting
  BY DEF LoopInv, WholeSlab, Whole, NeverConnecting
<1> QED
  BY <1>1, LoopInvariance, PTL

\* Whatever system call fails, no registered connection is given up before on_close.
\* (io.rs, check_active; connection.rs, disconnect)
THEOREM ToldBeforeLost == Spec => []ClosedBeforeLost
<1>1. LoopInv => ClosedBeforeLost
  BY DEF LoopInv, ToldLost, ClosedBeforeLost
<1> QED
  BY <1>1, LoopInvariance, PTL

\* While no system call of the loop fails and on_new_timeout asks for no disconnect,
\* on_close is called exactly once, just before the handler is given up.  Both
\* conditions are needed: either lets on_close be called while the connection stays.
\* (connection.rs, disconnect; io.rs, check_active)
THEOREM ToldOnlyOnce ==
  ASSUME ~OsMayFail, NewTimeoutErrs \cap {"Http", "Io"} = {}
  PROVE  Spec => []ClosedOnce
<1>1. Quiet
  BY DEF Quiet
<1>2. LoopInv => ClosedOnce
  BY <1>1 DEF LoopInv, ToldLost, Attended, Calm, ClosedOnce
<1> QED
  BY <1>2, LoopInvariance, PTL

-----------------------------------------------------------------------------
(* Panics *)

LEMMA NoneCrashes ==
  ASSUME IInv, LoopInv, Running, Evolves, PanicOn = {}
  PROVE  ~Crashed(slab')
<1> SUFFICES ASSUME NEW t \in Tokens, slab'[t] # NoConn PROVE ~slab'[t].crash
  BY DEF Crashed
<1>1. \A u \in Live : ~slab[u].crash
  BY DEF LoopInv, Attended
<1>2. slab \in [Tokens -> Conn \cup {NoConn}] /\ NoConn \notin Conn
  BY SlabType
<1>3. CASE Continues
  BY <1>1, <1>3 DEF Continues, Onward, Live
<1>4. CASE Released
  BY <1>1, <1>2, <1>4 DEF Released, Live
<1>5. CASE Entered
  <2>1. PICK u \in Tokens \ Live, c \in Conn : slab' = [slab EXCEPT ![u] = c] /\ Newborn(c)
    BY <1>5 DEF Entered
  <2>2. slab'[t] = c \/ (slab'[t] = slab[t] /\ t \in Live)
    BY <1>2, <2>1 DEF Live
  <2> QED
    BY <1>1, <2>1, <2>2 DEF Newborn
<1> QED
  BY <1>3, <1>4, <1>5 DEF Evolves

\* With no setting that asks for a panic and only names that resolve, nothing panics:
\* no event is handled for a slab entry that an earlier event vacated, and no
\* assertion of the connections fails.  (io.rs, handle_event)
THEOREM NothingPanics ==
  ASSUME PanicOn = {}, ~MayNotResolve
  PROVE  Spec => []NoPanic
<1>1. Init => NoPanic
  BY DEF Init, NoPanic
<1>2. ASSUME IInv, LoopInv, NoPanic, [Next]_vars PROVE NoPanic'
  <2> SUFFICES ASSUME pc' = "panicked" PROVE FALSE
    BY DEF NoPanic
  <2>1. pc # "panicked" /\ Evolves
    BY <1>2, LoopInductive DEF NoPanic
  <2>2. Running => ~Crashed(slab')
    BY <1>2, <2>1, NoneCrashes
  <2>3. CASE HandleConn
    BY <1>2, <2>2, <2>3, HandleConnStep DEF HandleConn, Handling, Running
  <2>4. CASE HandleTimeout
    BY <1>2, <2>2, <2>4, HandleTimeoutStep DEF HandleTimeout, Handling, Running
  <2>5. CASE HandleQueue
    <3>1. Running
      BY <2>5 DEF HandleQueue, QueueMessage, QueueClose, QueueConnect, QueueShutdown, QueueTimeout,
                  QueueCancel, Deliver, Take, Handling, Running
    <3>2. CASE QueueConnect
      BY <2>1, <2>2, <3>1, <3>2 DEF QueueConnect, Refuse
    <3>3. CASE QueueTimeout
      BY <2>1, <2>2, <3>1, <3>3 DEF QueueTimeout
    <3>4. CASE QueueMessage \/ QueueClose \/ QueueShutdown \/ QueueCancel
      BY <2>1, <2>2, <3>1, <3>4 DEF QueueMessage, QueueClose, Deliver, QueueShutdown, QueueCancel
    <3> QED
      BY <2>5, <3>2, <3>3, <3>4 DEF HandleQueue
  <2>6. CASE HandleAccept
    BY <2>1, <2>6 DEF HandleAccept
  <2>7. CASE ~HandleConn /\ ~HandleTimeout /\ ~HandleQueue /\ ~HandleAccept
    BY <1>2, <2>1, <2>7 DEF Next, LoopStep, AppSend, PeerConnect, Peer, TimerExpires, Listen, Run,
      StartFails, PollEvents, PollFails, FinishTick, AcceptFails, TimersDone, SelfBlock, Stopped,
      vars, loop
  <2> QED
    BY <2>3, <2>4, <2>5, <2>6, <2>7
<1> QED
  BY <1>1, <1>2, Invariance, LoopInvariance, PTL DEF Spec

-----------------------------------------------------------------------------
(* The life cycle of handlers *)

\* Every connection is in one place: in one entry of the slab, or given up once.
Unique ==
  /\ \A s, t \in Live : slab[s].uid = slab[t].uid => s = t
  /\ \A k, l \in lost : k.uid = l.uid => k = l
  /\ \A t \in Live, l \in lost : slab[t].uid # l.uid
  /\ \A l \in lost : l.uid <= Len(home)

\* The numbers in the slab and the next one.
LEMMA Numbers ==
  ASSUME IInv
  PROVE  /\ Len(home) \in Nat /\ NextUid = Len(home) + 1
         /\ \A t \in Live : slab[t].uid \in Nat \ {0} /\ slab[t].uid <= Len(home)
         /\ \A l \in lost : l.uid \in Nat \ {0}
         /\ Numbered => Len(home') = Len(home) + 1
<1>1. Len(home) \in Nat
  BY LenProperties DEF IInv, HistoryOK
<1>2. \A t \in Live : slab[t].uid \in Nat \ {0} /\ slab[t].uid <= Len(home)
  BY SlabType DEF Good, Conn, ConnOf, Uid
<1>3. \A l \in lost : l.uid \in Nat \ {0}
  BY DEF IInv, HistoryOK, Lost, Uid
<1>4. Numbered => Len(home') = Len(home) + 1
  BY HomeAppended DEF Numbered, IInv
<1> QED
  BY <1>1, <1>2, <1>3, <1>4 DEF NextUid

LEMMA ContinuesKeeps ==
  ASSUME Continues
  PROVE  Live' = Live /\ \A t \in Live : slab'[t].uid = slab[t].uid /\ Onward(slab[t], slab'[t])
BY DEF Continues, Onward, Live

LEMMA UniqueStep == ASSUME IInv, Unique, Evolves PROVE Unique'
<1>1. /\ Len(home) \in Nat /\ NextUid = Len(home) + 1
      /\ \A t \in Live : slab[t].uid \in Nat \ {0} /\ slab[t].uid <= Len(home)
      /\ \A l \in lost : l.uid \in Nat \ {0} /\ l.uid <= Len(home)
      /\ Numbered => Len(home') = Len(home) + 1
  BY Numbers DEF Unique
<1>2. slab \in [Tokens -> Conn \cup {NoConn}] /\ NoConn \notin Conn
  BY SlabType
<1>3. CASE Continues /\ UNCHANGED <<home, lost>>
  BY <1>3, ContinuesKeeps DEF Unique
<1>4. CASE Released /\ UNCHANGED home
  <2>1. PICK t \in Live, l \in Lost :
          slab' = [slab EXCEPT ![t] = NoConn] /\ lost' = lost \cup {l} /\ l.uid = slab[t].uid
    BY <1>4 DEF Released
  <2>2. Live' = Live \ {t} /\ \A u \in Live' : slab'[u] = slab[u]
    BY <1>2, <2>1 DEF Live
  <2> QED
    BY <1>1, <1>4, <2>1, <2>2 DEF Unique
<1>5. CASE Entered /\ Numbered /\ UNCHANGED lost
  <2>1. PICK t \in Tokens \ Live, c \in Conn : slab' = [slab EXCEPT ![t] = c] /\ c.uid = NextUid
    BY <1>5 DEF Entered, Newborn
  <2>2. Live' = Live \cup {t} /\ slab'[t] = c /\ \A u \in Live : slab'[u] = slab[u]
    BY <1>2, <2>1 DEF Live
  <2> QED
    BY <1>1, <1>5, <2>1, <2>2 DEF Unique
<1>6. CASE Continues /\ Numbered /\ UNCHANGED lost
  BY <1>1, <1>6, ContinuesKeeps DEF Unique
<1>7. CASE Continues /\ Numbered /\ lost' = lost \cup {LostOf(NewConn, FALSE)}
  <2>1. PICK l : l = LostOf(NewConn, FALSE)
    OBVIOUS
  <2>2. l.uid = NextUid /\ lost' = lost \cup {l}
    BY <1>7, <2>1 DEF LostOf, NewConn, New
  <2>3. Live' = Live /\ \A t \in Live : slab'[t].uid = slab[t].uid
    BY <1>7, ContinuesKeeps
  <2>4. \A s, t \in Live' : slab'[s].uid = slab'[t].uid => s = t
    BY <2>3 DEF Unique
  <2>5. \A k \in lost : k.uid # l.uid
    BY <1>1, <2>2
  <2>6. \A j, k \in lost' : j.uid = k.uid => j = k
    BY <2>2, <2>5 DEF Unique
  <2>7. \A t \in Live', k \in lost' : slab'[t].uid # k.uid
    BY <1>1, <2>2, <2>3 DEF Unique
  <2>8. \A k \in lost' : k.uid <= Len(home)'
    <3>1. l.uid = Len(home) + 1 /\ Len(home') = Len(home) + 1
      BY <1>1, <1>7, <2>2
    <3>2. \A k \in lost : k.uid \in Nat /\ k.uid <= Len(home)
      BY <1>1
    <3>3. \A k \in lost : k.uid <= Len(home')
      BY <1>1, <3>1, <3>2
    <3>4. l.uid <= Len(home')
      BY <1>1, <3>1
    <3> QED
      BY <2>2, <3>3, <3>4
  <2> QED
    BY <2>4, <2>6, <2>7, <2>8 DEF Unique
<1> QED
  BY <1>3, <1>4, <1>5, <1>6, <1>7 DEF Evolves

\* Where every connection is in one place, LifeOf tells its stage.
LifeIs ==
  \A u \in Nat :
    /\ \A t \in Live : slab[t].uid = u => LifeOf(u) = StageOf(slab[t])
    /\ \A l \in lost : l.uid = u => LifeOf(u) = EndOf(l)
    /\ (\A t \in Live : slab[t].uid # u) /\ (\A l \in lost : l.uid # u) => LifeOf(u) = "dropped"

LEMMA LifeFound == Unique => LifeIs
<1> SUFFICES ASSUME Unique, NEW u \in Nat
             PROVE  /\ \A t \in Live : slab[t].uid = u => LifeOf(u) = StageOf(slab[t])
                    /\ \A l \in lost : l.uid = u => LifeOf(u) = EndOf(l)
                    /\ (\A t \in Live : slab[t].uid # u) /\ (\A l \in lost : l.uid # u)
                         => LifeOf(u) = "dropped"
  BY DEF LifeIs
<1>1. ASSUME NEW t \in Live, slab[t].uid = u PROVE LifeOf(u) = StageOf(slab[t])
  <2>1. Entries(u) = {t} /\ Given(u) = {} /\ t \in Tokens
    BY <1>1 DEF Unique, Entries, Given, Live
  <2>2. (CHOOSE s \in Tokens : Entries(u) = {s}) = t
    BY <2>1
  <2> QED
    BY <2>1, <2>2 DEF LifeOf
<1>2. ASSUME NEW l \in lost, l.uid = u PROVE LifeOf(u) = EndOf(l)
  <2>1. Entries(u) = {} /\ Given(u) = {l}
    BY <1>2 DEF Unique, Entries, Given
  <2>2. (CHOOSE k \in lost : Given(u) = {k}) = l
    BY <2>1
  <2> QED
    BY <2>1, <2>2 DEF LifeOf
<1>3. ASSUME \A t \in Live : slab[t].uid # u, \A l \in lost : l.uid # u
      PROVE  LifeOf(u) = "dropped"
  <2>1. Entries(u) = {} /\ Given(u) = {}
    BY <1>3 DEF Entries, Given
  <2> QED
    BY <2>1 DEF LifeOf
<1> QED
  BY <1>1, <1>2, <1>3

LEMMA LaterStages ==
  /\ Handlers!Later("open") = {"closing", "told", "lost"}
  /\ Handlers!Later("closing") = {"told", "lost"}
  /\ Handlers!Later("told") = {"lost"}
<1>1. Handlers!Later("open") = {"closing", "told", "lost"}
  BY DEF Handlers!Later
<1>2. Handlers!Later("closing") = {"told", "lost"}
  BY DEF Handlers!Later
<1>3. Handlers!Later("told") = {"lost"}
  BY DEF Handlers!Later
<1> QED
  BY <1>1, <1>2, <1>3

LEMMA StageOfWhole ==
  ASSUME NEW c, c.state \in {"Open", "AwaitingClose"}
  PROVE  StageOf(c) = IF c.closes # 0 THEN "told"
                      ELSE IF c.state = "Open" THEN "open" ELSE "closing"
<1>1. CASE c.closes # 0
  BY <1>1 DEF StageOf
<1>2. CASE c.closes = 0 /\ c.state = "Open"
  BY <1>2 DEF StageOf
<1>3. CASE c.closes = 0 /\ c.state = "AwaitingClose"
  BY <1>3 DEF StageOf
<1> QED
  BY <1>1, <1>2, <1>3

\* Going on, a connection keeps its stage or comes to a later one.
LEMMA StageGoesOn ==
  ASSUME NEW c \in Conn, NEW d \in Conn, Whole(c), Onward(c, d)
  PROVE  /\ StageOf(c) \in {"open", "closing", "told"}
         /\ StageOf(d) \in {StageOf(c)} \cup Handlers!Later(StageOf(c))
<1>1. c.closes \in Nat /\ d.closes \in Nat /\ d.closes >= c.closes
  BY DEF Conn, ConnOf, Onward
<1>2. c.closes # 0 => d.closes # 0
  BY <1>1
<1>3. c.state \in {"Open", "AwaitingClose"} /\ d.state \in {c.state, "AwaitingClose"}
  BY DEF Whole, Onward
<1>4. StageOf(c) = IF c.closes # 0 THEN "told" ELSE IF c.state = "Open" THEN "open" ELSE "closing"
  BY <1>3, StageOfWhole
<1>5. StageOf(d) = IF d.closes # 0 THEN "told" ELSE IF d.state = "Open" THEN "open" ELSE "closing"
  BY <1>3, StageOfWhole
<1> QED
  BY <1>2, <1>3, <1>4, <1>5, LaterStages

LEMMA LifeTypes == IInv /\ LoopInv /\ LifeIs => \A u \in Nat : LifeOf(u) \in Handlers!Stages
<1> SUFFICES ASSUME IInv, LoopInv, LifeIs, NEW u \in Nat PROVE LifeOf(u) \in Handlers!Stages
  OBVIOUS
<1>1. CASE \E t \in Live : slab[t].uid = u
  BY <1>1 DEF LifeIs, StageOf, Handlers!Stages
<1>2. CASE \E l \in lost : l.uid = u
  BY <1>2 DEF LifeIs, LoopInv, ToldLost, EndOf, Handlers!Stages
<1>3. CASE (\A t \in Live : slab[t].uid # u) /\ (\A l \in lost : l.uid # u)
  BY <1>3 DEF LifeIs, Handlers!Stages
<1> QED
  BY <1>1, <1>2, <1>3

\* A step of the loop moves every connection made before it along its stages.
LEMMA LifeGoesOn ==
  ASSUME IInv, LoopInv, Unique, LifeIs, Evolves, IInv', LoopInv', LifeIs',
         pc = "panicked" => UNCHANGED <<slab, lost>>, NEW u \in 1..Len(home)
  PROVE  LifeOf(u)' \in {LifeOf(u)} \cup Handlers!Later(LifeOf(u))
<1>1. /\ Len(home) \in Nat /\ NextUid = Len(home) + 1 /\ u \in Nat /\ u # NextUid
      /\ \A t \in Live : slab[t].uid \in Nat \ {0} /\ slab[t].uid <= Len(home)
  BY Numbers
<1>2. \A t \in Live : /\ t \in Tokens /\ slab[t] \in Conn
                      /\ pc # "panicked" => Whole(slab[t])
  BY SlabType DEF LoopInv, WholeSlab
<1>3. /\ slab \in [Tokens -> Conn \cup {NoConn}] /\ NoConn \notin Conn
      /\ \A t \in Live' : t \in Tokens /\ slab'[t] \in Conn
  <2>1. slab' \in [Tokens -> Conn \cup {NoConn}]
    BY DEF IInv, GoodSlab, Good
  <2> QED
    BY <2>1, SlabType DEF Live
<1>4. lost \subseteq lost'
  BY DEF Evolves, Released
<1>5. /\ \A t \in Live' : slab'[t].uid = u => LifeOf(u)' = StageOf(slab'[t])
      /\ \A l \in lost' : l.uid = u => LifeOf(u)' = EndOf(l)
      /\ (\A t \in Live' : slab'[t].uid # u) /\ (\A l \in lost' : l.uid # u)
           => LifeOf(u)' = "dropped"
  <2>1. (/\ \A t \in Live : slab[t].uid = u => LifeOf(u) = StageOf(slab[t])
         /\ \A l \in lost : l.uid = u => LifeOf(u) = EndOf(l)
         /\ (\A t \in Live : slab[t].uid # u) /\ (\A l \in lost : l.uid # u)
              => LifeOf(u) = "dropped")'
    BY <1>1 DEF LifeIs
  <2> QED
    BY <2>1
<1>6. CASE \E l \in lost : l.uid = u
  BY <1>1, <1>4, <1>5, <1>6 DEF LifeIs
<1>7. ASSUME NEW t \in Live, slab[t].uid = u, pc # "panicked"
      PROVE  LifeOf(u)' \in {LifeOf(u)} \cup Handlers!Later(LifeOf(u))
  <2>1. LifeOf(u) = StageOf(slab[t]) /\ t \in Tokens /\ slab[t] \in Conn /\ Whole(slab[t])
    BY <1>1, <1>2, <1>7 DEF LifeIs
  <2>2. CASE Continues
    <3>1. PICK d : d = slab'[t]
      OBVIOUS
    <3>2. t \in Live' /\ d.uid = u /\ Onward(slab[t], d)
      BY <1>7, <2>2, <3>1, ContinuesKeeps
    <3>3. d \in Conn
      BY <1>3, <3>1, <3>2
    <3>4. LifeOf(u)' = StageOf(d)
      BY <1>5, <3>1, <3>2
    <3> QED
      BY <2>1, <3>2, <3>3, <3>4, StageGoesOn
  <2>3. CASE Released
    <3>1. PICK s \in Live, l \in Lost :
            /\ slab' = [slab EXCEPT ![s] = NoConn] /\ lost' = lost \cup {l}
            /\ l.uid = slab[s].uid /\ l.registered /\ l.closes > 0
      BY <2>3 DEF Released
    <3>2. CASE s = t
      <4>1. LifeOf(u)' = "lost"
        BY <1>5, <1>7, <3>1, <3>2 DEF EndOf
      <4>2. LifeOf(u) \in {"open", "closing", "told"}
        BY <2>1, StageOfWhole DEF Whole
      <4> QED
        BY <4>1, <4>2, LaterStages
    <3>3. CASE s # t
      BY <1>3, <1>5, <1>7, <2>1, <3>1, <3>3 DEF Live
    <3> QED
      BY <3>2, <3>3
  <2>4. CASE Entered
    <3>1. t \in Live' /\ slab'[t] = slab[t]
      BY <1>3, <1>7, <2>1, <2>4 DEF Entered, Live
    <3> QED
      BY <1>5, <1>7, <2>1, <3>1
  <2> QED
    BY <2>2, <2>3, <2>4 DEF Evolves
<1>8. CASE (\A t \in Live : slab[t].uid # u) /\ (\A l \in lost : l.uid # u)
  <2>1. LifeOf(u) = "dropped"
    BY <1>1, <1>8 DEF LifeIs
  <2>2. \A t \in Live' : slab'[t].uid # u
    <3>1. CASE Continues
      BY <1>8, <3>1, ContinuesKeeps
    <3>2. CASE Released
      BY <1>3, <1>8, <3>2 DEF Released, Live
    <3>3. CASE Entered
      <4>1. PICK s \in Tokens \ Live, c \in Conn : slab' = [slab EXCEPT ![s] = c] /\ c.uid = NextUid
        BY <3>3 DEF Entered, Newborn
      <4> QED
        BY <1>1, <1>3, <1>8, <4>1 DEF Live
    <3> QED
      BY <3>1, <3>2, <3>3 DEF Evolves
  <2>3. \A l \in lost' : l.uid # u
    <3>1. CASE Released
      BY <1>8, <3>1 DEF Released
    <3>2. CASE lost' = lost \cup {LostOf(NewConn, FALSE)}
      BY <1>1, <1>8, <3>2 DEF LostOf, NewConn, New
    <3> QED
      BY <1>8, <3>1, <3>2 DEF Evolves
  <2> QED
    BY <1>5, <2>1, <2>2, <2>3
<1>9. CASE pc = "panicked" /\ \E t \in Live : slab[t].uid = u
  <2>1. PICK t \in Live : slab[t].uid = u
    BY <1>9
  <2>2. t \in Live' /\ slab'[t] = slab[t]
    BY <1>9 DEF Live
  <2> QED
    BY <1>1, <1>5, <2>1, <2>2 DEF LifeIs, StageOf
<1> QED
  BY <1>6, <1>7, <1>8, <1>9

\* The connection a step numbers is open, refused or dropped.
LEMMA LifeBegins ==
  ASSUME IInv, LifeIs', Unique, Evolves, Numbered, NEW n, n = Len(home')
  PROVE  LifeOf(n)' \in Handlers!Births
<1>1. n = Len(home) + 1 /\ Len(home) \in Nat /\ NextUid = n
  BY Numbers
<1>2. /\ n \in Nat /\ n = NextUid /\ n = Len(home) + 1 /\ Len(home) \in Nat
      /\ \A t \in Live : slab[t].uid # n
      /\ \A l \in lost : l.uid # n
  <2>1. \A t \in Live : slab[t].uid \in Nat /\ slab[t].uid <= Len(home)
    BY Numbers
  <2>2. \A l \in lost : l.uid \in Nat /\ l.uid <= Len(home)
    BY Numbers DEF Unique
  <2> QED
    BY <1>1, <2>1, <2>2
<1>3. /\ \A t \in Live' : slab'[t].uid = n => LifeOf(n)' = StageOf(slab'[t])
      /\ \A l \in lost' : l.uid = n => LifeOf(n)' = EndOf(l)
      /\ (\A t \in Live' : slab'[t].uid # n) /\ (\A l \in lost' : l.uid # n)
           => LifeOf(n)' = "dropped"
  <2>1. (/\ \A t \in Live : slab[t].uid = n => LifeOf(n) = StageOf(slab[t])
         /\ \A l \in lost : l.uid = n => LifeOf(n) = EndOf(l)
         /\ (\A t \in Live : slab[t].uid # n) /\ (\A l \in lost : l.uid # n)
              => LifeOf(n) = "dropped")'
    BY <1>2 DEF LifeIs
  <2> QED
    BY <2>1
<1>4. home' # home
  <2>1. Len(home) + 1 # Len(home)
    BY <1>1
  <2> QED
    BY <1>1, <2>1
<1>5. CASE Entered
  <2>1. PICK t \in Tokens \ Live, c \in Conn :
          /\ slab' = [slab EXCEPT ![t] = c] /\ c.uid = n
          /\ c.state \in {"Connecting", "Open"} /\ c.closes = 0
    BY <1>2, <1>5 DEF Entered, Newborn
  <2>2. t \in Live' /\ slab'[t] = c
    BY <2>1, SlabType DEF Live
  <2> QED
    BY <1>3, <2>1, <2>2 DEF StageOf, Handlers!Births
<1>6. CASE Continues /\ UNCHANGED lost
  BY <1>2, <1>3, <1>6, ContinuesKeeps DEF Handlers!Births
<1>7. CASE Continues /\ lost' = lost \cup {LostOf(NewConn, FALSE)}
  <2>1. PICK l : l = LostOf(NewConn, FALSE)
    OBVIOUS
  <2>2. l \in lost' /\ l.uid = n /\ l.registered = FALSE
    BY <1>2, <1>7, <2>1 DEF LostOf, NewConn, New
  <2>3. EndOf(l) = "refused"
    BY <2>2 DEF EndOf
  <2> QED
    BY <1>3, <2>2, <2>3 DEF Handlers!Births
<1> QED
  BY <1>4, <1>5, <1>6, <1>7 DEF Evolves

\* Every step of the loop is a step of the life cycle, or leaves it alone.
LEMMA LifeStep ==
  ASSUME IInv, LoopInv, Unique, LifeIs, Evolves, IInv', LoopInv', LifeIs',
         pc = "panicked" => UNCHANGED <<slab, lost>>
  PROVE  Handlers!Step
<1>1. PICK life : life = [u \in 1..Len(home) |-> LifeOf(u)]
  OBVIOUS
<1>2. PICK next : next = [u \in 1..Len(home) |-> LifeOf(u)]'
  OBVIOUS
<1>3. /\ Len(home) \in Nat /\ Len(home') \in Nat
      /\ home' = home \/ (Numbered /\ Len(home') = Len(home) + 1)
  <2>1. home' = home \/ Numbered
    BY DEF Evolves
  <2>2. Len(home) \in Nat /\ (Numbered => Len(home') = Len(home) + 1)
    BY Numbers
  <2>3. CASE home' = home
    BY <2>2, <2>3
  <2>4. CASE Numbered
    BY <2>2, <2>4
  <2> QED
    BY <2>1, <2>3, <2>4
<1>4. next = [u \in 1..Len(home') |-> LifeOf(u)']
  BY <1>2
<1>5. \A u \in Nat : LifeOf(u)' \in Handlers!Stages
  <2>1. (\A u \in Nat : LifeOf(u) \in Handlers!Stages)'
    BY LifeTypes, PTL
  <2> QED
    BY <2>1
<1>6. next \in Seq(Handlers!Stages) /\ Len(next) = Len(home')
  BY <1>3, <1>4, <1>5
<1>7. Len(life) = Len(home) /\ \A u \in 1..Len(home) : life[u] = LifeOf(u)
  BY <1>1, <1>3
<1>8. \A u \in 1..Len(life) : next[u] \in {life[u]} \cup Handlers!Later(life[u])
  BY <1>3, <1>4, <1>7, LifeGoesOn
<1>9. Len(next) > Len(life) => next[Len(next)] \in Handlers!Births
  <2> SUFFICES ASSUME Len(next) > Len(life) PROVE next[Len(next)] \in Handlers!Births
    OBVIOUS
  <2>1. Len(home) # Len(home') /\ Len(home') = Len(next)
    BY <1>3, <1>6, <1>7
  <2>2. Numbered /\ Len(home') = Len(home) + 1
    BY <1>3, <2>1
  <2>3. PICK n : n = Len(home')
    OBVIOUS
  <2>4. next[n] = LifeOf(n)'
    BY <1>3, <1>4, <2>2, <2>3
  <2>5. LifeOf(n)' \in Handlers!Births
    BY <2>2, <2>3, LifeBegins
  <2> QED
    BY <2>1, <2>3, <2>4, <2>5
<1> QED
  BY <1>1, <1>2, <1>3, <1>6, <1>7, <1>8, <1>9 DEF Handlers!Step

\* The loop implements the life cycle of handlers, for any number of slab entries,
\* connection ids, commands and timeouts, and whatever fails: every handler is in one
\* place, goes one way through its stages and is given up only after on_close.
\* (io.rs, accept, connect, check_active, handle_queue)
THEOREM LifecycleImplemented == Spec => LifecycleSpec
<1>1. Init => Unique /\ Handlers!Init
  BY DEF Init, Unique, Live, Handlers!Init
<1>2. IInv /\ LoopInv /\ Unique /\ [Next]_vars => Unique'
  BY LoopInductive, UniqueStep
<1>3. LifeIs' /\ IInv /\ LoopInv /\ Unique /\ IInv' /\ LoopInv' /\ [Next]_vars => Handlers!Step
  <2>1. [Next]_vars => (pc = "panicked" => UNCHANGED <<slab, lost>>)
    BY DEF Next, vars, loop, Running, Listen, Run, StartFails, LoopStep, PollEvents, PollFails,
           FinishTick, HandleAccept, AcceptFails, HandleConn, HandleTimeout, TimersDone, SelfBlock,
           HandleQueue, QueueMessage, QueueClose, QueueConnect, QueueShutdown, QueueTimeout,
           QueueCancel, Deliver, Take, Handling, AppSend, PeerConnect, Peer, TimerExpires, Stopped
  <2> QED
    BY <2>1, LoopInductive, LifeFound, LifeStep
<1> QED
  BY <1>1, <1>2, <1>3, Invariance, LoopInvariance, LifeFound, PTL DEF Spec, LifecycleSpec, Handlers!Spec
=============================================================================
