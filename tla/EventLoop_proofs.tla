-------------------------- MODULE EventLoop_proofs --------------------------
(***************************************************************************)
(* Proofs about EventLoop for any number of slab entries, connections,     *)
(* timer entries and queued commands: the type invariant, and that data    *)
(* reaches only the connection it was sent on while the ids have not       *)
(* wrapped.                                                                *)
(***************************************************************************)
EXTENDS EventLoop, Connection_proofs, SequenceTheorems

-----------------------------------------------------------------------------
(* The inductive invariant *)

\* A connection bears the id of its number, and its output is its own: what makes
\* the comparison of ids in handle_queue decide for the right connection.
Good(c) ==
  /\ c \in Conn
  /\ c.uid <= Len(home) /\ c.id = IdOf(c.uid)
  /\ Len(home) <= IdSpace => c.out \subseteq {0, c.uid}

\* A command bears the id of the connection whose Sender made it.
GoodCommand(cmd) ==
  /\ cmd \in Command
  /\ cmd.from <= Len(home)
  /\ cmd.token # ALL => cmd.from # 0 /\ cmd.id = IdOf(cmd.from)

GoodSlab(s) ==
  /\ s \in [Tokens -> Conn \cup {NoConn}]
  /\ \A t \in Tokens : s[t] # NoConn => Good(s[t])

GoodQueue(q) == q \in Seq(Command) /\ \A i \in 1..Len(q) : GoodCommand(q[i])

ControlOK ==
  /\ pc \in {"init", "poll", "batch", "exited", "panicked", "blocked"}
  /\ active \in BOOLEAN /\ listener \in BOOLEAN /\ queueArmed \in BOOLEAN

TimersOK ==
  /\ timers \in [Slots -> Timeout \cup {NoTimer}]
  /\ due \subseteq Slots
  /\ \A s \in due : timers[s] # NoTimer

\* There is one event of the listener in a batch, and a connection for it.
BatchOK ==
  /\ batch \subseteq Event /\ backlog \in Nat
  /\ \A e \in batch : e.token = ALL => e.ready = {"r"} /\ backlog > 0

HistoryOK == home \in Seq(Tokens) /\ lost \subseteq Lost

IInv ==
  /\ ControlOK /\ TimersOK /\ BatchOK /\ HistoryOK
  /\ GoodSlab(slab) /\ GoodQueue(queue)

LEMMA InvariantMeans == IInv => TypeOK /\ Routed
<1> SUFFICES ASSUME IInv PROVE TypeOK /\ Routed
  OBVIOUS
<1>1. TypeOK
  BY DEF IInv, ControlOK, TimersOK, BatchOK, HistoryOK, GoodSlab, GoodQueue, TypeOK
<1>2. Routed
  BY DEF IInv, GoodSlab, Good, Routed, Live
<1> QED
  BY <1>1, <1>2

-----------------------------------------------------------------------------
(* Ids *)

LEMMA IdOfIsId == ASSUME NEW u \in Uid PROVE IdOf(u) \in Id
<1>1. u - 1 \in Nat /\ IdSpace \in Nat \ {0}
  BY LoopAssumption DEF Uid
<1>2. (u - 1) % IdSpace \in 0..(IdSpace - 1)
  BY <1>1
<1> QED
  BY <1>2 DEF IdOf, Id

\* The ids of the first IdSpace connections tell them apart.
LEMMA IdsDiffer ==
  ASSUME NEW u \in Uid, NEW v \in Uid, u <= IdSpace, v <= IdSpace, IdOf(u) = IdOf(v)
  PROVE  u = v
<1>1. /\ u - 1 \in Nat /\ u - 1 < IdSpace /\ v - 1 \in Nat /\ v - 1 < IdSpace
      /\ IdSpace \in Nat \ {0}
  BY LoopAssumption DEF Uid
<1>2. (u - 1) % IdSpace = u - 1
  BY <1>1
<1>3. (v - 1) % IdSpace = v - 1
  BY <1>1
<1>4. u - 1 = v - 1
  BY <1>2, <1>3 DEF IdOf
<1> QED
  BY <1>4 DEF Uid

-----------------------------------------------------------------------------
(* Connections *)

LEMMA NoConnIsNot == NoConn \notin Conn
BY VacantAssumption

LEMMA KeptIsGood ==
  ASSUME NEW c, NEW d, Good(c), Kept(c, d, Uid, Id, Nat)
  PROVE  Good(d) /\ d # NoConn
BY NoConnIsNot DEF Good, Kept, Conn

LEMMA KeptSelf == ASSUME NEW c \in Conn PROVE Kept(c, c, Uid, Id, Nat)
BY DEF Kept, Conn

LEMMA ArmedKeeps == ASSUME NEW c \in Conn PROVE Kept(c, Armed(c), Uid, Id, Nat)
BY DEF Kept, Conn, ConnOf, Armed, Interests

LEMMA ScheduledKeeps ==
  ASSUME NEW c \in Conn, NEW d \in Scheduled(c)
  PROVE  Kept(c, d, Uid, Id, Nat)
<1>1. d = Armed(c) \/ d = Error(c, "Io")
  BY DEF Scheduled
<1> QED
  BY <1>1, ArmedKeeps, ErrorKeeps DEF Conn

LEMMA CheckActiveKeepsIdentity ==
  ASSUME NEW c \in Conn, NEW o \in CheckActive(c)
  PROVE  Kept(c, o.conn, Uid, Id, Nat)
<1>1. \/ o = Outcome(c, FALSE)
      \/ o = Outcome(Armed(c), TRUE)
      \/ o = Outcome(Error(c, "Io"), FALSE)
  BY Zenon DEF CheckActive
<1>2. o.conn = c \/ o.conn = Armed(c) \/ o.conn = Error(c, "Io")
  BY <1>1 DEF Outcome
<1> QED
  BY <1>2, ArmedKeeps, ErrorKeeps, KeptSelf DEF Conn

LEMMA RecoverKeeps ==
  ASSUME NEW r, r.conn \in Conn
  PROVE  Kept(r.conn, Recover(r).conn, Uid, Id, Nat)
<1>1. CASE r.err = "Refused" /\ CanReset(r.conn)
  BY <1>1, ResetKeeps DEF Recover, Result, Conn
<1>2. CASE ~(r.err = "Refused" /\ CanReset(r.conn))
  BY <1>2, FailKeeps DEF Recover, Result, Conn
<1> QED
  BY <1>1, <1>2

LEMMA AfterReadKeeps ==
  ASSUME NEW c \in Conn, NEW ready, NEW r \in AfterRead(c, ready)
  PROVE  Kept(c, r.conn, Uid, Id, Nat)
<1>1. CASE r = Result(c, "ok", FALSE)
  BY <1>1, KeptSelf DEF Result
<1>2. CASE \E q \in Read(c) : r = Recover(q)
  <2>1. PICK q \in Read(c) : r = Recover(q)
    BY <1>2
  <2>2. Kept(c, q.conn, Uid, Id, Nat) /\ q.conn \in Conn
    BY ReadKeeps DEF Kept, Conn
  <2>3. Kept(q.conn, r.conn, Uid, Id, Nat)
    BY <2>1, <2>2, RecoverKeeps
  <2> QED
    BY <2>2, <2>3, KeptTransitive
<1> QED
  BY <1>1, <1>2 DEF AfterRead

\* The handling of a socket's event keeps the identity of the connection.
LEMMA HandleIoKeeps ==
  ASSUME NEW c \in Conn, NEW ready, NEW r \in HandleIo(c, ready)
  PROVE  Kept(c, r.conn, Uid, Id, Nat)
<1>1. PICK q \in AfterRead(c, ready) : r \in AfterWrite(q, ready)
  BY DEF HandleIo
<1>2. Kept(c, q.conn, Uid, Id, Nat) /\ q.conn \in Conn
  BY AfterReadKeeps DEF Kept, Conn
<1>3. CASE r = q
  BY <1>2, <1>3
<1>4. CASE \E w \in Write(q.conn) : r = Result(Recover(w).conn, "ok", q.told)
  <2>1. PICK w \in Write(q.conn) : r = Result(Recover(w).conn, "ok", q.told)
    BY <1>4
  <2>2. Kept(q.conn, w.conn, Uid, Id, Nat) /\ w.conn \in Conn
    BY <1>2, WriteKeeps DEF Kept, Conn
  <2>3. r.conn = Recover(w).conn
    BY <2>1 DEF Result
  <2>4. Kept(w.conn, r.conn, Uid, Id, Nat)
    BY <2>2, <2>3, RecoverKeeps
  <2> QED
    BY <1>2, <2>2, <2>4, KeptTransitive
<1> QED
  BY <1>1, <1>3, <1>4 DEF AfterWrite

-----------------------------------------------------------------------------
(* Growth of home, the slab and the queue *)

HomeGrows == home' \in Seq(Tokens) /\ Len(home') >= Len(home)

LEMMA HomeAppended ==
  ASSUME HistoryOK, NEW t \in Tokens, home' = Append(home, t)
  PROVE  HomeGrows /\ Len(home') = Len(home) + 1
BY AppendProperties, LenProperties DEF HistoryOK, HomeGrows

LEMMA HomeUnchanged == ASSUME HistoryOK, UNCHANGED home PROVE HomeGrows
BY LenProperties DEF HistoryOK, HomeGrows

\* Numbering another connection takes nothing from the others.
LEMMA GoodGrows ==
  ASSUME HistoryOK, HomeGrows, NEW c, Good(c)
  PROVE  Good(c)'
<1>1. Len(home) \in Nat /\ Len(home') \in Nat /\ IdSpace \in Nat
  BY LenProperties, LoopAssumption DEF HistoryOK, HomeGrows
<1> QED
  BY <1>1 DEF Good, Conn, ConnOf, Uid, HomeGrows, IdOf

LEMMA GoodCommandGrows ==
  ASSUME HistoryOK, HomeGrows, NEW cmd, GoodCommand(cmd)
  PROVE  GoodCommand(cmd)'
<1>1. Len(home) \in Nat /\ Len(home') \in Nat
  BY LenProperties DEF HistoryOK, HomeGrows
<1>2. cmd.from \in Nat
  BY DEF GoodCommand, Command
<1> QED
  BY <1>1, <1>2 DEF GoodCommand, HomeGrows, IdOf

\* A slab all of whose connections are good, wherever it comes from.
LEMMA SlabRebuilt ==
  ASSUME HistoryOK, HomeGrows, NEW s, s = [t \in Tokens |-> s[t]],
         \A t \in Tokens : s[t] = NoConn \/ Good(s[t]), slab' = s
  PROVE  GoodSlab(slab)'
<1>1. \A t \in Tokens : s[t] = NoConn \/ Good(s[t])'
  BY GoodGrows
<1>2. \A t \in Tokens : s[t] = NoConn \/ s[t] \in Conn
  BY DEF Good
<1>3. s \in [Tokens -> Conn \cup {NoConn}]
  BY <1>2
<1> QED
  BY <1>1, <1>3 DEF GoodSlab

LEMMA SlabExcept ==
  ASSUME HistoryOK, HomeGrows, GoodSlab(slab), NEW u, NEW d, d = NoConn \/ Good(d)',
         slab' = [slab EXCEPT ![u] = d]
  PROVE  GoodSlab(slab)'
<1>1. \A c : Good(c) => Good(c)'
  BY GoodGrows
<1>2. slab' \in [Tokens -> Conn \cup {NoConn}]
  <2>1. d \in Conn \cup {NoConn}
    BY DEF Good
  <2> QED
    BY <2>1 DEF GoodSlab
<1>3. \A t \in Tokens : slab'[t] = slab[t] \/ slab'[t] = d
  BY DEF GoodSlab
<1>4. ASSUME NEW x, NEW t \in Tokens, x = slab'[t], x # NoConn PROVE Good(x)'
  <2>1. x = slab[t] \/ x = d
    BY <1>3, <1>4
  <2> QED
    BY <1>1, <1>4, <2>1 DEF GoodSlab
<1> QED
  BY <1>2, <1>4 DEF GoodSlab

LEMMA SlabUnchanged ==
  ASSUME HistoryOK, HomeGrows, GoodSlab(slab), UNCHANGED slab
  PROVE  GoodSlab(slab)'
<1>1. \A c : Good(c) => Good(c)'
  BY GoodGrows
<1> QED
  BY <1>1 DEF GoodSlab

-----------------------------------------------------------------------------
(* The queue *)

LEMMA QueueUnchanged ==
  ASSUME HistoryOK, HomeGrows, GoodQueue(queue), UNCHANGED queue
  PROVE  GoodQueue(queue)'
<1>1. \A cmd : GoodCommand(cmd) => GoodCommand(cmd)'
  BY GoodCommandGrows
<1> QED
  BY <1>1 DEF GoodQueue

LEMMA QueueTail ==
  ASSUME HistoryOK, HomeGrows, GoodQueue(queue), queue # <<>>, queue' = Tail(queue)
  PROVE  GoodQueue(queue)' /\ GoodCommand(Head(queue))
<1>1. queue \in Seq(Command) /\ Len(queue) \in Nat
  BY LenProperties DEF GoodQueue
<1>2. /\ Head(queue) = queue[1] /\ Len(queue) > 0
      /\ queue' \in Seq(Command) /\ Len(queue') = Len(queue) - 1
      /\ \A i \in 1..Len(queue') : queue'[i] = queue[i + 1]
  BY <1>1, HeadTailProperties, EmptySeq
<1>3. \A cmd : GoodCommand(cmd) => GoodCommand(cmd)'
  BY GoodCommandGrows
<1>4. \A i \in 1..Len(queue) : GoodCommand(queue[i])
  BY DEF GoodQueue
<1>5. \A i \in 1..Len(queue') : i + 1 \in 1..Len(queue)
  BY <1>1, <1>2
<1> QED
  BY <1>1, <1>2, <1>3, <1>4, <1>5 DEF GoodQueue

LEMMA CommandIsGood ==
  ASSUME HistoryOK, NEW u \in 0..Len(home), NEW call \in AllCalls, NEW h \in Handle \cup {NoTimer}
  PROVE  GoodCommand(CommandOf(u, call, h))
<1> DEFINE cmd == CommandOf(u, call, h)
<1>1. /\ cmd.token = IF u = 0 \/ call = "Broadcast" THEN ALL ELSE home[u]
      /\ cmd.signal = IF call = "Broadcast" THEN "Message" ELSE call
      /\ cmd.id = IF u = 0 THEN 0 ELSE IdOf(u)
      /\ cmd.from = u /\ cmd.timeout = h
      /\ cmd = [token |-> cmd.token, signal |-> cmd.signal, id |-> cmd.id,
                from |-> cmd.from, timeout |-> cmd.timeout]
  BY DEF CommandOf
<1> HIDE DEF cmd
<1>2. Len(home) \in Nat /\ u \in Nat /\ u <= Len(home)
  BY LenProperties DEF HistoryOK
<1>3. u # 0 => u \in Uid /\ home[u] \in Tokens
  BY <1>2, ElementOfSeq DEF HistoryOK, Uid
<1>4. cmd.token \in Tokens \cup {ALL} /\ (cmd.token # ALL => u # 0)
  BY <1>1, <1>3
<1>5. cmd.id \in Id
  <2>1. 0 \in Id
    BY LoopAssumption DEF Id
  <2> QED
    BY <1>1, <1>3, <2>1, IdOfIsId
<1>6. cmd.signal \in Signals
  BY <1>1 DEF Signals, AllCalls
<1>7. cmd \in Command
  BY <1>1, <1>2, <1>4, <1>5, <1>6 DEF Command
<1> QED
  BY <1>1, <1>2, <1>4, <1>7 DEF GoodCommand, cmd

LEMMA QueueAppend ==
  ASSUME HistoryOK, UNCHANGED home, GoodQueue(queue), NEW cmd, GoodCommand(cmd),
         queue' = Append(queue, cmd)
  PROVE  GoodQueue(queue)'
<1>1. queue \in Seq(Command) /\ cmd \in Command /\ Len(queue) \in Nat
  BY LenProperties DEF GoodQueue, GoodCommand
<1>2. /\ queue' \in Seq(Command) /\ Len(queue') = Len(queue) + 1
      /\ \A i \in 1..Len(queue) : queue'[i] = queue[i]
      /\ queue'[Len(queue) + 1] = cmd
  BY <1>1, AppendProperties
<1>3. \A c : GoodCommand(c) => GoodCommand(c)'
  BY GoodCommandGrows, HomeUnchanged
<1>4. \A i \in 1..Len(queue') : i \in 1..Len(queue) \/ i = Len(queue) + 1
  BY <1>1, <1>2
<1> QED
  BY <1>2, <1>3, <1>4 DEF GoodQueue

\* What a callback sends is good as well.
LEMMA QueueAnswered ==
  ASSUME HistoryOK, UNCHANGED home, GoodQueue(queue), NEW told, NEW u \in 0..Len(home),
         queue' \in Answered(told, u)
  PROVE  GoodQueue(queue)'
<1>1. queue' = queue
        \/ \E call \in Replies : queue' = Append(queue, CommandOf(u, call, NoTimer))
  BY DEF Answered
<1>2. CASE queue' = queue
  BY <1>2, QueueUnchanged, HomeUnchanged
<1>3. ASSUME NEW call \in Replies, queue' = Append(queue, CommandOf(u, call, NoTimer))
      PROVE  GoodQueue(queue)'
  <2>1. call \in AllCalls
    BY LoopAssumption
  <2>2. GoodCommand(CommandOf(u, call, NoTimer))
    BY <2>1, CommandIsGood
  <2> QED
    BY <1>3, <2>2, QueueAppend
<1> QED
  BY <1>1, <1>2, <1>3

-----------------------------------------------------------------------------
(* The state changes of connections *)

LEMMA TriggeredIsGood ==
  ASSUME NEW c, Good(c), NEW owner \in Nat, NEW err
  PROVE  Good(Triggered(c, owner, err))
<1> DEFINE d == [c EXCEPT !.fired = @ \cup {owner}]
<1>1. c \in Conn
  BY DEF Good
<1>2. Kept(c, d, Uid, Id, Nat) /\ d \in Conn
  BY <1>1 DEF Kept, Conn, ConnOf
<1>3. Triggered(c, owner, err) = d \/ Triggered(c, owner, err) = Error(d, err)
  BY DEF Triggered
<1> HIDE DEF d
<1>4. Kept(d, Error(d, err), Uid, Id, Nat)
  BY <1>2, ErrorKeeps DEF Conn
<1> QED
  BY <1>2, <1>3, <1>4, KeptTransitive, KeptIsGood

\* A command applied to a connection that may be meant by it: the comparison of
\* ids has passed, or the command is a broadcast.
LEMMA AppliedIsGood ==
  ASSUME HistoryOK, NEW cmd, GoodCommand(cmd), NEW c, Good(c),
         cmd.token = ALL \/ c.id = cmd.id, NEW r \in Applied(cmd, c)
  PROVE  Good(r.conn)
<1>1. c \in Conn /\ c.uid \in Uid /\ c.id = IdOf(c.uid) /\ c.uid <= Len(home)
  BY DEF Good, Conn, ConnOf
<1>2. cmd \in Command /\ cmd.from \in Nat /\ cmd.from <= Len(home)
  BY DEF GoodCommand, Command
<1>3. ItemOf(cmd) \in Nat
  BY <1>2 DEF ItemOf
<1>4. Len(home) <= IdSpace => ItemOf(cmd) \in {0, c.uid}
  <2> SUFFICES ASSUME Len(home) <= IdSpace, cmd.token # ALL PROVE cmd.from = c.uid
    BY Zenon DEF ItemOf
  <2>1. cmd.from # 0 /\ IdOf(cmd.from) = IdOf(c.uid)
    BY <1>1 DEF GoodCommand
  <2>2. cmd.from \in Uid /\ cmd.from <= IdSpace /\ c.uid <= IdSpace
    BY <1>1, <1>2, <2>1, LenProperties, LoopAssumption DEF HistoryOK, Uid
  <2> QED
    BY <1>1, <2>1, <2>2, IdsDiffer
<1>5. CASE cmd.signal = "Message"
  <2>1. r \in SendMessage(c, ItemOf(cmd))
    BY <1>5 DEF Applied
  <2>2. /\ r.conn \in Conn /\ r.conn.uid = c.uid /\ r.conn.id = c.id
        /\ r.conn.out \subseteq c.out \cup {ItemOf(cmd)}
    BY <1>1, <1>3, <2>1, SendMessageAdds DEF Conn
  <2> QED
    BY <1>4, <2>2 DEF Good
<1>6. CASE cmd.signal # "Message"
  <2>1. r.conn = SendClose(c) \/ r.conn = c
    BY <1>6 DEF Applied, Result
  <2> QED
    BY <1>1, <2>1, SendCloseKeeps, KeptIsGood DEF Conn
<1> QED
  BY <1>5, <1>6

LEMMA ScheduledIsGood ==
  ASSUME NEW c, Good(c), NEW d \in Scheduled(c)
  PROVE  Good(d)
BY ScheduledKeeps, KeptIsGood DEF Good

LEMMA FailIsGood == ASSUME NEW r, Good(r.conn) PROVE Good(Fail(r))
BY FailKeeps, KeptIsGood DEF Good, Conn

LEMMA ErrorIsGood == ASSUME NEW c, Good(c), NEW kind PROVE Good(Error(c, kind))
BY ErrorKeeps, KeptIsGood DEF Good, Conn

\* Results are records of three fields.
LEMMA AppliedIsResult ==
  ASSUME NEW cmd, NEW c, NEW r \in Applied(cmd, c)
  PROVE  r = Result(r.conn, r.err, r.told)
BY DEF Applied, SendMessage, Result

LEMMA ReportedIsGood ==
  ASSUME NEW r, r = Result(r.conn, r.err, r.told), Good(r.conn), NEW d \in Reported(r)
  PROVE  Good(d)
<1> DEFINE q == [r EXCEPT !.conn = Armed(@)]
<1>1. q.conn = Armed(r.conn)
  BY DEF Result
<1>2. d = Fail(q) \/ d = Error(Fail(r), "Io")
  BY Zenon DEF Reported
<1> HIDE DEF q
<1>3. Good(q.conn)
  BY <1>1, ArmedKeeps, KeptIsGood DEF Good
<1> QED
  BY <1>2, <1>3, FailIsGood, ErrorIsGood

\* What a message or a close signal does to the slab.
LEMMA DirectIsGood ==
  ASSUME HistoryOK, HomeGrows, GoodSlab(slab), NEW cmd, GoodCommand(cmd), slab' \in Direct(cmd)
  PROVE  GoodSlab(slab)'
<1> DEFINE t == cmd.token
           Results == IF slab[t].id = cmd.id THEN Applied(cmd, slab[t])
                      ELSE {Result(slab[t], "ok", FALSE)}
<1>1. CASE t \notin Live
  BY <1>1, SlabUnchanged DEF Direct
<1>2. CASE t \in Live
  <2>0. slab' \in {[slab EXCEPT ![t] = d] : d \in UNION {Scheduled(Fail(r)) : r \in Results}}
    BY <1>2, Zenon DEF Direct
  <2>1. PICK r \in Results : \E d \in Scheduled(Fail(r)) : slab' = [slab EXCEPT ![t] = d]
    <3> HIDE DEF Results
    <3> QED
      BY <2>0
  <2>2. PICK d \in Scheduled(Fail(r)) : slab' = [slab EXCEPT ![t] = d]
    BY <2>1
  <2>3. Good(slab[t])
    BY <1>2 DEF Live, GoodSlab
  <2>4. Good(r.conn)
    <3>1. CASE slab[t].id = cmd.id
      BY <2>3, <3>1, AppliedIsGood
    <3>2. CASE slab[t].id # cmd.id
      BY <2>3, <3>2 DEF Result
    <3> QED
      BY <3>1, <3>2
  <2>5. Good(d)
    BY <2>4, FailIsGood, ScheduledIsGood
  <2>6. Good(d)'
    BY <2>5, GoodGrows
  <2> QED
    BY <2>2, <2>6, SlabExcept
<1> QED
  BY <1>1, <1>2

LEMMA BroadcastIsGood ==
  ASSUME HistoryOK, HomeGrows, GoodSlab(slab), NEW cmd, GoodCommand(cmd), cmd.token = ALL,
         slab' \in Broadcast(cmd)
  PROVE  GoodSlab(slab)'
<1> DEFINE After(t) == UNION {Reported(r) : r \in Applied(cmd, slab[t])}
<1>1. ASSUME NEW t \in Live, NEW d \in After(t) PROVE Good(d)
  <2>1. PICK r \in Applied(cmd, slab[t]) : d \in Reported(r)
    BY <1>1
  <2>2. Good(slab[t])
    BY DEF Live, GoodSlab
  <2>3. Good(r.conn) /\ r = Result(r.conn, r.err, r.told)
    BY <2>1, <2>2, AppliedIsGood, AppliedIsResult
  <2> QED
    BY <2>1, <2>3, ReportedIsGood
<1>2. /\ slab' = [t \in Tokens |-> slab'[t]]
      /\ \A t \in Tokens : IF t \in Live THEN slab'[t] \in After(t) ELSE slab'[t] = NoConn
  BY DEF Broadcast
<1> HIDE DEF After
<1>3. \A t \in Tokens : slab'[t] = NoConn \/ Good(slab'[t])
  BY <1>1, <1>2
<1> QED
  BY <1>2, <1>3, SlabRebuilt
LEMMA DeliverIsGood ==
  ASSUME HistoryOK, HomeGrows, GoodSlab(slab), NEW cmd, GoodCommand(cmd),
         slab' \in IF cmd.token = ALL THEN Broadcast(cmd) ELSE Direct(cmd)
  PROVE  GoodSlab(slab)'
BY DirectIsGood, BroadcastIsGood

\* shutdown, then scheduling of some connections.
LEMMA ShutdownIsGood ==
  ASSUME NEW c, Good(c)
  PROVE  /\ Good(Shutdown(c))
         /\ \A d \in Scheduled(Shutdown(c)) : Good(d)
<1>1. Good(Shutdown(c))
  BY SendCloseKeeps, KeptIsGood DEF Shutdown, Good, Conn
<1> QED
  BY <1>1, ScheduledIsGood

LEMMA AnnouncedIsGood ==
  ASSUME HistoryOK, HomeGrows, GoodSlab(slab), NEW ts \in SUBSET Live, slab' \in Announced(ts)
  PROVE  GoodSlab(slab)'
<1> DEFINE After(c) == {c} \cup {Error(c, kind) : kind \in NewTimeoutErrs}
<1>1. \A c : Good(c) => \A d \in After(c) : Good(d)
  BY ErrorIsGood
<1>2. /\ slab' = [t \in Tokens |-> slab'[t]]
      /\ \A t \in Tokens : (slab'[t] \in After(slab[t]) /\ t \in Live) \/ slab'[t] = slab[t]
  BY DEF Announced
<1> HIDE DEF After
<1>3. \A t \in Tokens : slab[t] = NoConn \/ Good(slab[t])
  BY DEF GoodSlab
<1>4. \A t \in Tokens : slab'[t] = NoConn \/ Good(slab'[t])
  BY <1>1, <1>2, <1>3 DEF Live
<1> QED
  BY <1>2, <1>4, SlabRebuilt

\* A new connection bears the next number, which home counts in the same step.
LEMMA NewConnIsGood ==
  ASSUME HistoryOK, HomeGrows, Len(home') = Len(home) + 1, NEW d,
         Kept(NewConn, d, Uid, Id, Nat)
  PROVE  Good(d)' /\ d # NoConn
<1>1. NextUid \in Uid /\ NextUid = Len(home')
  BY LenProperties DEF HistoryOK, NextUid, Uid
<1>2. IdOf(NextUid) \in Id
  BY <1>1, IdOfIsId
<1>3. NewConn.uid = NextUid /\ NewConn.id = IdOf(NextUid) /\ NewConn.out = {}
  BY DEF NewConn, New
<1>4. d \in Conn /\ d.uid = Len(home') /\ d.id = IdOf(d.uid) /\ d.out = {}
  BY <1>1, <1>3 DEF Kept, Conn
<1>5. Len(home') \in Nat
  BY <1>1 DEF Uid
<1> QED
  BY <1>4, <1>5, NoConnIsNot DEF Good, IdOf

LEMMA NewConnIsConn == ASSUME HistoryOK PROVE NewConn \in Conn
<1>1. NextUid \in Uid
  BY LenProperties DEF HistoryOK, NextUid, Uid
<1>2. IdOf(NextUid) \in Id
  BY <1>1, IdOfIsId
<1> QED
  BY <1>1, <1>2, NewIsConn DEF NewConn, Conn

LEMMA AcceptedIsNew ==
  ASSUME HistoryOK, NEW c \in Accepted
  PROVE  Kept(NewConn, c, Uid, Id, Nat)
<1> DEFINE s == AsServer(NewConn)
<1>1. NewConn \in Conn
  BY NewConnIsConn
<1>2. Kept(NewConn, s, Uid, Id, Nat) /\ s \in Conn
  BY <1>1, AsServerKeeps DEF Kept, Conn
<1>3. c = Open(Armed(s)) \/ c = Error(s, "Io") \/ c = Open(Error(s, "Io"))
  BY Zenon DEF Accepted
<1> HIDE DEF s
<1>4. Kept(s, Armed(s), Uid, Id, Nat) /\ Kept(s, Error(s, "Io"), Uid, Id, Nat)
  BY <1>2, ArmedKeeps, ErrorKeeps DEF Conn
<1>5. \A e : Kept(s, e, Uid, Id, Nat) => Kept(e, Open(e), Uid, Id, Nat)
  BY OpenKeeps DEF Kept
<1>6. Kept(s, c, Uid, Id, Nat)
  BY <1>3, <1>4, <1>5, KeptTransitive
<1> QED
  BY <1>2, <1>6, KeptTransitive

LEMMA ConnectedIsNew ==
  ASSUME HistoryOK, NEW n \in 0..(MaxAddrs - 1)
  PROVE  Kept(NewConn, Armed(AsClient(Open(NewConn), n)), Uid, Id, Nat)
<1> DEFINE o == Open(NewConn)
           a == AsClient(o, n)
<1>1. NewConn \in Conn
  BY NewConnIsConn
<1>2. Kept(NewConn, o, Uid, Id, Nat) /\ o \in Conn
  BY <1>1, OpenKeeps DEF Kept, Conn
<1>3. n \in 0..MaxAddrs
  BY ConnectionAssumption
<1> HIDE DEF o
<1>4. Kept(o, a, Uid, Id, Nat) /\ a \in Conn
  BY <1>2, <1>3, AsClientKeeps DEF Kept, Conn
<1> HIDE DEF a
<1>5. Kept(a, Armed(a), Uid, Id, Nat)
  BY <1>4, ArmedKeeps
<1> QED
  BY <1>2, <1>4, <1>5, KeptTransitive DEF o, a
-----------------------------------------------------------------------------
(* Steps *)

LEMMA Initially == Init => IInv
<1> SUFFICES ASSUME Init PROVE IInv
  OBVIOUS
<1>1. ControlOK /\ TimersOK /\ BatchOK
  BY DEF Init, ControlOK, TimersOK, BatchOK
<1>2. HistoryOK /\ GoodQueue(queue)
  BY EmptySeq DEF Init, HistoryOK, GoodQueue
<1>3. GoodSlab(slab)
  BY DEF Init, GoodSlab
<1> QED
  BY <1>1, <1>2, <1>3 DEF IInv

\* The parts of the invariant that a step numbering no connection leaves alone.
LEMMA Undisturbed ==
  ASSUME IInv, UNCHANGED home
  PROVE  /\ HistoryOK /\ HomeGrows
         /\ lost' \subseteq Lost => HistoryOK'
         /\ UNCHANGED <<timers, due>> => TimersOK'
         /\ batch' \subseteq batch /\ UNCHANGED backlog => BatchOK'
         /\ UNCHANGED slab => GoodSlab(slab)'
         /\ UNCHANGED queue => GoodQueue(queue)'
<1>1. HistoryOK /\ HomeGrows
  BY HomeUnchanged DEF IInv
<1>2. lost' \subseteq Lost => HistoryOK'
  BY DEF IInv, HistoryOK
<1>3. UNCHANGED <<timers, due>> => TimersOK'
  BY DEF IInv, TimersOK
<1>4. batch' \subseteq batch /\ UNCHANGED backlog => BatchOK'
  BY DEF IInv, BatchOK
<1>5. UNCHANGED slab => GoodSlab(slab)'
  BY <1>1, SlabUnchanged DEF IInv
<1>6. UNCHANGED queue => GoodQueue(queue)'
  BY <1>1, QueueUnchanged DEF IInv
<1> QED
  BY <1>1, <1>2, <1>3, <1>4, <1>5, <1>6

\* check_active and the release of a connection.
LEMMA SettleKeeps ==
  ASSUME HistoryOK, UNCHANGED home, GoodSlab(slab), ControlOK,
         NEW t, NEW c, Good(c), NEW o \in CheckActive(c), Settle(t, o)
  PROVE  GoodSlab(slab)' /\ lost' \subseteq Lost
         /\ pc' \in {"init", "poll", "batch", "exited", "panicked", "blocked"}
<1>1. HomeGrows
  BY HomeUnchanged
<1>2. Good(o.conn)
  BY CheckActiveKeepsIdentity, KeptIsGood DEF Good
<1>3. GoodSlab(slab)'
  <2> DEFINE d == IF o.keep \/ o.conn.crash THEN o.conn ELSE NoConn
  <2>1. slab' = [slab EXCEPT ![t] = d]
    BY DEF Settle
  <2>2. d = NoConn \/ Good(d)
    BY <1>2
  <2> HIDE DEF d
  <2>3. PICK e : e = d
    OBVIOUS
  <2>4. e = NoConn \/ Good(e)'
    BY <1>1, <2>2, <2>3, GoodGrows
  <2> QED
    BY <1>1, <2>1, <2>3, <2>4, SlabExcept
<1>4. lost' \subseteq Lost
  <2>1. LostOf(o.conn, TRUE) \in Lost
    BY <1>2 DEF LostOf, Lost, Good, Conn, ConnOf
  <2> QED
    BY <2>1 DEF Settle, HistoryOK
<1> QED
  BY <1>3, <1>4 DEF Settle, ControlOK

\* The other threads, the peers and the clock.
LEMMA AppSendKeeps == ASSUME IInv, AppSend PROVE IInv'
<1>1. UNCHANGED <<pc, active, listener, queueArmed, home, lost, timers, due, batch, backlog, slab>>
  BY DEF AppSend, loop
<1>0. PICK u \in 0..Len(home), call \in Calls :
        \E h \in IF call = "Cancel"
                 THEN {[slot |-> s, entry |-> timers[s]] : s \in {s \in Slots : timers[s] # NoTimer}}
                 ELSE {NoTimer} :
          queue' = Append(queue, CommandOf(u, call, h))
  BY DEF AppSend
<1>2. PICK h \in IF call = "Cancel"
                 THEN {[slot |-> s, entry |-> timers[s]] : s \in {s \in Slots : timers[s] # NoTimer}}
                 ELSE {NoTimer} :
        queue' = Append(queue, CommandOf(u, call, h))
  BY <1>0
<1>3. h \in Handle \cup {NoTimer} /\ call \in AllCalls
  BY <1>2, LoopAssumption DEF IInv, TimersOK, Handle
<1>4. GoodCommand(CommandOf(u, call, h))
  BY <1>3, CommandIsGood DEF IInv
<1>5. GoodQueue(queue)'
  BY <1>1, <1>2, <1>4, QueueAppend DEF IInv
<1>6. ControlOK'
  BY <1>1 DEF IInv, ControlOK
<1>7. HistoryOK' /\ TimersOK' /\ BatchOK' /\ GoodSlab(slab)'
  <2>1. lost' \subseteq Lost
    BY <1>1 DEF IInv, HistoryOK
  <2> QED
    BY <1>1, <2>1, Undisturbed
<1> QED
  BY <1>5, <1>6, <1>7 DEF IInv

LEMMA OthersKeep ==
  ASSUME IInv, PeerConnect \/ TimerExpires \/ Listen \/ Run \/ StartFails \/ PollFails \/ FinishTick
               \/ AcceptFails \/ TimersDone \/ SelfBlock \/ Stopped
  PROVE  IInv'
<1>1. UNCHANGED <<home, lost, slab, queue, timers>>
  BY DEF PeerConnect, TimerExpires, Listen, Run, StartFails, PollFails, FinishTick, AcceptFails,
         TimersDone, SelfBlock, Stopped, vars, loop
<1>2. ControlOK'
  BY DEF IInv, ControlOK, PeerConnect, TimerExpires, Listen, Run, StartFails, PollFails, FinishTick,
         AcceptFails, TimersDone, SelfBlock, Stopped, vars, loop
<1>3. HistoryOK' /\ GoodSlab(slab)' /\ GoodQueue(queue)'
  <2>1. lost' \subseteq Lost
    BY <1>1 DEF IInv, HistoryOK
  <2> QED
    BY <1>1, <2>1, Undisturbed
<1>4. TimersOK'
  <2>1. CASE TimerExpires
    BY <1>1, <2>1 DEF TimerExpires, IInv, TimersOK
  <2>2. CASE ~TimerExpires
    <3>1. UNCHANGED due
      BY <2>2 DEF PeerConnect, Listen, Run, StartFails, PollFails, FinishTick, AcceptFails,
         TimersDone, SelfBlock, Stopped, vars, loop
    <3> QED
      BY <1>1, <3>1, Undisturbed
  <2> QED
    BY <2>1, <2>2
<1>5. BatchOK'
  <2>1. CASE PeerConnect
    BY <2>1 DEF PeerConnect, IInv, BatchOK, loop
  <2>2. CASE ~PeerConnect
    <3>1. batch' \subseteq batch /\ UNCHANGED backlog
      BY <2>2 DEF TimerExpires, Listen, Run, StartFails, PollFails, FinishTick, AcceptFails,
         TimersDone, SelfBlock, Stopped, vars, loop
    <3> QED
      BY <1>1, <3>1, Undisturbed
  <2> QED
    BY <2>1, <2>2
<1> QED
  BY <1>2, <1>3, <1>4, <1>5 DEF IInv
LEMMA PeerKeeps == ASSUME IInv, Peer PROVE IInv'
<1>1. UNCHANGED <<pc, active, listener, queueArmed, home, lost, timers, due, batch, backlog, queue>>
  BY DEF Peer, loop
<1>0. PICK t \in Live :
        \E d : /\ slab' = [slab EXCEPT ![t] = d]
               /\ \/ d = [slab[t] EXCEPT !.data = TRUE]
                  \/ \E n \in Nets : d = [slab[t] EXCEPT !.net = n]
  <2>1. PICK t \in Live :
          \/ slab' = [slab EXCEPT ![t].data = TRUE]
          \/ slab' = [slab EXCEPT ![t].net = "eof"]
          \/ slab' = [slab EXCEPT ![t].net = "reset"]
          \/ \E n \in {"up", "refused"} : slab' = [slab EXCEPT ![t].net = n]
    BY DEF Peer
  <2> QED
    BY <2>1 DEF Nets
<1>2. PICK d :
        /\ slab' = [slab EXCEPT ![t] = d]
        /\ \/ d = [slab[t] EXCEPT !.data = TRUE]
           \/ \E n \in Nets : d = [slab[t] EXCEPT !.net = n]
  BY <1>0
<1>3. Good(slab[t])
  BY DEF IInv, GoodSlab, Live
<1>4. Good(d)
  <2>1. Kept(slab[t], d, Uid, Id, Nat)
    BY <1>2, <1>3 DEF Kept, Good, Conn, ConnOf
  <2> QED
    BY <1>3, <2>1, KeptIsGood
<1>5. GoodSlab(slab)'
  <2>1. Good(d)'
    BY <1>1, <1>4, GoodGrows, Undisturbed
  <2> QED
    BY <1>1, <1>2, <2>1, SlabExcept, Undisturbed DEF IInv
<1>6. ControlOK'
  BY <1>1 DEF IInv, ControlOK
<1>7. HistoryOK' /\ TimersOK' /\ BatchOK' /\ GoodQueue(queue)'
  <2>1. lost' \subseteq Lost
    BY <1>1 DEF IInv, HistoryOK
  <2> QED
    BY <1>1, <2>1, Undisturbed
<1> QED
  BY <1>5, <1>6, <1>7 DEF IInv

\* A batch holds at most one event of the listener, and then a connection waits.
LEMMA PollEventsKeeps == ASSUME IInv, PollEvents PROVE IInv'
<1>1. UNCHANGED <<active, listener, home, lost, timers, due, backlog, queue>>
  BY DEF PollEvents
<1>2. ControlOK'
  BY DEF IInv, ControlOK, PollEvents
<1>3. BatchOK'
  <2>1. ASSUME NEW e \in Ready
        PROVE  e \in Event /\ (e.token = ALL => e.ready = {"r"} /\ backlog > 0)
    <3>1. CASE \E t \in Live : e = [token |-> t, ready |-> Readiness(slab[t]) \cap slab[t].interest]
      <4>1. PICK t \in Live : e = [token |-> t, ready |-> Readiness(slab[t]) \cap slab[t].interest]
        BY <3>1
      <4>2. t \in Tokens /\ t # ALL
        BY LoopAssumption DEF Live
      <4>3. Readiness(slab[t]) \subseteq {"r", "w"}
        BY DEF Readiness
      <4> QED
        BY <4>1, <4>2, <4>3 DEF Event
    <3>2. CASE e = [token |-> ALL, ready |-> {"r"}] /\ backlog > 0
      BY <3>2 DEF Event
    <3>3. CASE e = [token |-> QUEUE, ready |-> {"r"}] \/ e = [token |-> TIMER, ready |-> {"r"}]
      BY <3>3, LoopAssumption DEF Event
    <3> QED
      BY <3>1, <3>2, <3>3 DEF Ready
  <2> QED
    BY <1>1, <2>1 DEF PollEvents, BatchOK, IInv
<1>4. GoodSlab(slab)'
  <2> DEFINE Spent(t) == IF t \in Live /\ Reports(slab[t])
                         THEN [slab[t] EXCEPT !.poll = "spent"] ELSE slab[t]
             s == [t \in Tokens |-> Spent(t)]
  <2>1. ASSUME NEW t \in Tokens PROVE Spent(t) = NoConn \/ Good(Spent(t))
    <3> DEFINE d == [slab[t] EXCEPT !.poll = "spent"]
    <3>1. slab[t] = NoConn \/ Good(slab[t])
      BY DEF IInv, GoodSlab
    <3>2. ASSUME Good(slab[t]) PROVE Good(d)
      <4>1. Kept(slab[t], d, Uid, Id, Nat)
        BY <3>2 DEF Kept, Good, Conn, ConnOf
      <4> QED
        BY <3>2, <4>1, KeptIsGood
    <3>3. Spent(t) = slab[t] \/ (slab[t] # NoConn /\ Spent(t) = d)
      BY DEF Live
    <3> QED
      BY <3>1, <3>2, <3>3
  <2>2. slab' = s
    BY DEF PollEvents
  <2>3. \A t \in Tokens : s[t] = NoConn \/ Good(s[t])
    BY <2>1
  <2>4. s = [t \in Tokens |-> s[t]]
    OBVIOUS
  <2> HIDE DEF s
  <2> QED
    BY <1>1, <2>2, <2>3, <2>4, SlabRebuilt, Undisturbed
<1>5. HistoryOK' /\ TimersOK' /\ GoodQueue(queue)'
  <2>1. lost' \subseteq Lost
    BY <1>1 DEF IInv, HistoryOK
  <2> QED
    BY <1>1, <2>1, Undisturbed
<1> QED
  BY <1>2, <1>3, <1>4, <1>5 DEF IInv

LEMMA HandleAcceptKeeps == ASSUME IInv, HandleAccept PROVE IInv'
<1>1. PICK e \in batch :
        /\ e.token = ALL /\ batch' = batch \ {e} /\ backlog' = backlog - 1
        /\ \/ /\ pc' = IF "NewConnection" \in PanicOn THEN "panicked" ELSE pc
              /\ UNCHANGED <<slab, home>>
           \/ \E t \in Tokens \ Live, c \in Accepted :
                  /\ slab' = [slab EXCEPT ![t] = c]
                  /\ home' = Append(home, t)
                  /\ pc' = IF c.poll = "off" /\ "NewConnection" \in PanicOn
                           THEN "panicked" ELSE pc
        /\ UNCHANGED <<active, listener, lost, queue, queueArmed, timers, due>>
  BY DEF HandleAccept
<1>2. BatchOK'
  <2>1. e.ready = {"r"} /\ backlog > 0 /\ backlog \in Nat
    BY <1>1 DEF IInv, BatchOK
  <2>2. \A f \in batch : f \in Event /\ (f.token = ALL => f.ready = {"r"})
    BY DEF IInv, BatchOK
  <2>3. \A f \in batch' : f.token # ALL
    <3>1. \A f \in batch : f = [token |-> f.token, ready |-> f.ready]
      BY <2>2 DEF Event
    <3>2. \A f \in batch : f.token = ALL => f = e
      BY <1>1, <2>1, <2>2, <3>1
    <3> QED
      BY <1>1, <3>2
  <2> QED
    BY <1>1, <2>1, <2>2, <2>3 DEF BatchOK
<1>3. ControlOK'
  BY <1>1 DEF IInv, ControlOK
<1>4. TimersOK'
  BY <1>1 DEF IInv, TimersOK
<1>5. CASE UNCHANGED <<slab, home>>
  <2>1. lost' \subseteq Lost
    BY <1>1 DEF IInv, HistoryOK
  <2>2. HistoryOK' /\ GoodSlab(slab)' /\ GoodQueue(queue)'
    BY <1>1, <1>5, <2>1, Undisturbed
  <2> QED
    BY <1>2, <1>3, <1>4, <2>2 DEF IInv
<1>6. CASE \E t \in Tokens \ Live, c \in Accepted :
             slab' = [slab EXCEPT ![t] = c] /\ home' = Append(home, t)
  <2>1. PICK t \in Tokens \ Live, c \in Accepted :
          slab' = [slab EXCEPT ![t] = c] /\ home' = Append(home, t)
    BY <1>6
  <2>2. HistoryOK /\ HomeGrows /\ Len(home') = Len(home) + 1
    BY <2>1, HomeAppended DEF IInv
  <2>3. Good(c)'
    BY <2>2, AcceptedIsNew, NewConnIsGood
  <2>4. GoodSlab(slab)'
    BY <2>1, <2>2, <2>3, SlabExcept DEF IInv
  <2>5. GoodQueue(queue)'
    BY <1>1, <2>2, QueueUnchanged DEF IInv
  <2>6. HistoryOK'
    BY <1>1, <2>2 DEF HomeGrows, HistoryOK
  <2> QED
    BY <1>2, <1>3, <1>4, <2>4, <2>5, <2>6 DEF IInv
<1> QED
  BY <1>1, <1>5, <1>6
LEMMA HandleConnKeeps == ASSUME IInv, HandleConn PROVE IInv'
<1>1. PICK e \in batch :
        /\ batch' = batch \ {e}
        /\ IF slab[e.token] = NoConn
           THEN pc' = "panicked" /\ UNCHANGED <<slab, lost, queue>>
           ELSE \E r \in HandleIo(slab[e.token], e.ready) :
                  /\ \E o \in CheckActive(r.conn) : Settle(e.token, o)
                  /\ queue' \in Answered(r.told, r.conn.uid)
        /\ e.token \in Tokens
        /\ UNCHANGED <<active, listener, home, queueArmed, timers, due, backlog>>
  BY DEF HandleConn
<1>2. TimersOK' /\ BatchOK' /\ HistoryOK
  BY <1>1, Undisturbed
<1>3. /\ GoodSlab(slab)' /\ GoodQueue(queue)' /\ lost' \subseteq Lost
      /\ pc' \in {"init", "poll", "batch", "exited", "panicked", "blocked"}
  <2>1. CASE slab[e.token] = NoConn
    BY <1>1, <2>1, Undisturbed DEF IInv, HistoryOK
  <2>2. CASE slab[e.token] # NoConn
    <3>0. PICK r \in HandleIo(slab[e.token], e.ready) :
            /\ \E o \in CheckActive(r.conn) : Settle(e.token, o)
            /\ queue' \in Answered(r.told, r.conn.uid)
      BY <1>1, <2>2
    <3>1. PICK o \in CheckActive(r.conn) : Settle(e.token, o)
      BY <3>0
    <3>2. Good(slab[e.token])
      BY <1>1, <2>2 DEF IInv, GoodSlab
    <3>3. Good(r.conn)
      BY <3>2, HandleIoKeeps, KeptIsGood DEF Good
    <3>4. r.conn.uid \in 0..Len(home)
      BY <1>2, <3>3, LenProperties DEF Good, Conn, ConnOf, Uid, HistoryOK
    <3>5. GoodQueue(queue)'
      BY <1>1, <1>2, <3>0, <3>4, QueueAnswered DEF IInv
    <3> QED
      BY <1>1, <1>2, <3>1, <3>3, <3>5, SettleKeeps DEF IInv
  <2> QED
    BY <2>1, <2>2
<1>4. ControlOK' /\ HistoryOK'
  BY <1>1, <1>3, Undisturbed DEF IInv, ControlOK
<1> QED
  BY <1>2, <1>3, <1>4 DEF IInv

LEMMA HandleTimeoutKeeps == ASSUME IInv, HandleTimeout PROVE IInv'
<1>1. PICK s \in due :
        /\ timers' = [timers EXCEPT ![s] = NoTimer] /\ due' = due \ {s}
        /\ IF timers[s].connection \notin Live
           THEN UNCHANGED <<pc, slab, lost, queue>>
           ELSE \E err \in {"ok"} \cup TimeoutErrs :
                  /\ \E o \in CheckActive(Triggered(slab[timers[s].connection], timers[s].owner, err)) :
                       Settle(timers[s].connection, o)
                  /\ queue' \in Answered(TRUE, Triggered(slab[timers[s].connection], timers[s].owner, err).uid)
        /\ UNCHANGED <<active, listener, batch, home, queueArmed, backlog>>
  BY DEF HandleTimeout, OnTimeout
<1>2. BatchOK' /\ HistoryOK
  BY <1>1, Undisturbed
<1>3. TimersOK'
  BY <1>1 DEF IInv, TimersOK
<1>4. /\ GoodSlab(slab)' /\ GoodQueue(queue)' /\ lost' \subseteq Lost
      /\ pc' \in {"init", "poll", "batch", "exited", "panicked", "blocked"}
  <2>1. CASE timers[s].connection \notin Live
    BY <1>1, <2>1, Undisturbed DEF IInv, HistoryOK, ControlOK
  <2>2. CASE timers[s].connection \in Live
    <3>1. PICK err : \E o \in CheckActive(Triggered(slab[timers[s].connection], timers[s].owner, err)) :
            /\ Settle(timers[s].connection, o)
            /\ queue' \in Answered(TRUE, Triggered(slab[timers[s].connection], timers[s].owner, err).uid)
      BY <1>1, <2>2
    <3>2. PICK c : c = Triggered(slab[timers[s].connection], timers[s].owner, err)
      OBVIOUS
    <3>3. PICK o \in CheckActive(c) :
            Settle(timers[s].connection, o) /\ queue' \in Answered(TRUE, c.uid)
      BY <3>1, <3>2
    <3>4. Good(slab[timers[s].connection]) /\ timers[s].owner \in Nat
      BY <2>2 DEF Live, IInv, GoodSlab, TimersOK, Timeout
    <3>5. Good(c)
      BY <3>2, <3>4, TriggeredIsGood
    <3>6. c.uid \in 0..Len(home)
      BY <1>2, <3>5, LenProperties DEF Good, Conn, ConnOf, Uid, HistoryOK
    <3>7. GoodQueue(queue)'
      BY <1>1, <1>2, <3>3, <3>6, QueueAnswered DEF IInv
    <3> QED
      BY <1>1, <1>2, <3>3, <3>5, <3>7, SettleKeeps DEF IInv
  <2> QED
    BY <2>1, <2>2
<1>5. ControlOK' /\ HistoryOK'
  BY <1>1, <1>4, Undisturbed DEF IInv, ControlOK
<1> QED
  BY <1>2, <1>3, <1>4, <1>5 DEF IInv

-----------------------------------------------------------------------------
(* Steps that take a command *)

LEMMA TakeKeeps ==
  ASSUME IInv, HomeGrows, NEW signal, Take(signal)
  PROVE  /\ GoodQueue(queue)' /\ GoodCommand(Head(queue)) /\ BatchOK'
         /\ listener' \in BOOLEAN /\ queueArmed' \in BOOLEAN
<1>1. queue # <<>> /\ queue' = Tail(queue) /\ batch' \subseteq batch
      /\ UNCHANGED <<listener, backlog>>
  BY DEF Take
<1>2. GoodQueue(queue)' /\ GoodCommand(Head(queue))
  BY <1>1, QueueTail DEF IInv
<1>3. BatchOK'
  BY <1>1 DEF IInv, BatchOK
<1>4. listener' \in BOOLEAN /\ queueArmed' \in BOOLEAN
  BY <1>1 DEF Take, IInv, ControlOK
<1> QED
  BY <1>2, <1>3, <1>4

LEMMA DeliverKeeps ==
  ASSUME IInv, NEW signal, Deliver(signal)
  PROVE  IInv'
<1>1. /\ Take(signal) /\ UNCHANGED <<active, home, lost, timers, due>>
      /\ slab' \in IF Head(queue).token = ALL THEN Broadcast(Head(queue)) ELSE Direct(Head(queue))
      /\ pc' = IF Crashed(slab') THEN "panicked" ELSE pc
  BY DEF Deliver
<1>2. HistoryOK /\ HomeGrows /\ TimersOK' /\ HistoryOK'
  <2>1. lost' \subseteq Lost
    BY <1>1 DEF IInv, HistoryOK
  <2> QED
    BY <1>1, <2>1, Undisturbed
<1>3. /\ GoodQueue(queue)' /\ GoodCommand(Head(queue)) /\ BatchOK'
      /\ listener' \in BOOLEAN /\ queueArmed' \in BOOLEAN
  BY <1>1, <1>2, TakeKeeps
<1>4. GoodSlab(slab)'
  BY <1>1, <1>2, <1>3, DeliverIsGood DEF IInv
<1>5. ControlOK'
  BY <1>1, <1>3 DEF IInv, ControlOK
<1> QED
  BY <1>2, <1>3, <1>4, <1>5 DEF IInv

LEMMA QueueShutdownKeeps == ASSUME IInv, QueueShutdown PROVE IInv'
<1> DEFINE down == [t \in Tokens |-> IF t \in Live THEN Shutdown(slab[t]) ELSE NoConn]
           chosen == IF Head(queue).token = ALL THEN Live ELSE {Head(queue).token} \cap Live
<1>1. /\ Take("Shutdown") /\ active' = FALSE /\ UNCHANGED <<home, lost, timers, due>>
      /\ pc' = IF "Shutdown" \in PanicOn \/ Crashed(slab') THEN "panicked" ELSE pc
      /\ slab' = [t \in Tokens |-> slab'[t]]
      /\ \A t \in Tokens : IF t \in chosen THEN slab'[t] \in Scheduled(down[t])
                            ELSE slab'[t] = down[t]
  BY DEF QueueShutdown
<1>2. HistoryOK /\ HomeGrows /\ TimersOK' /\ HistoryOK'
  <2>1. lost' \subseteq Lost
    BY <1>1 DEF IInv, HistoryOK
  <2> QED
    BY <1>1, <2>1, Undisturbed
<1>3. /\ GoodQueue(queue)' /\ BatchOK'
      /\ listener' \in BOOLEAN /\ queueArmed' \in BOOLEAN
  BY <1>1, <1>2, TakeKeeps
<1>4. GoodSlab(slab)'
  <2>1. ASSUME NEW t \in Tokens PROVE slab'[t] = NoConn \/ Good(slab'[t])
    <3>1. CASE t \in Live
      <4>1. down[t] = Shutdown(slab[t]) /\ Good(slab[t])
        BY <3>1 DEF Live, IInv, GoodSlab
      <4> HIDE DEF down, chosen
      <4>2. slab'[t] = Shutdown(slab[t]) \/ slab'[t] \in Scheduled(Shutdown(slab[t]))
        BY <1>1, <4>1
      <4> QED
        BY <4>1, <4>2, ShutdownIsGood
    <3>2. CASE t \notin Live
      BY <1>1, <3>2
    <3> QED
      BY <3>1, <3>2
  <2> QED
    BY <1>1, <1>2, <2>1, SlabRebuilt
<1>5. ControlOK'
  BY <1>1, <1>3 DEF IInv, ControlOK
<1> QED
  BY <1>2, <1>3, <1>4, <1>5 DEF IInv
LEMMA RefuseKeeps ==
  ASSUME IInv, HomeGrows, NEW cmd, NEW kind, Refuse(cmd, kind)
  PROVE  /\ GoodSlab(slab)'
         /\ pc' \in {"init", "poll", "batch", "exited", "panicked", "blocked"}
<1>1. HistoryOK /\ GoodSlab(slab) /\ ControlOK
  BY DEF IInv
<1>2. CASE cmd.token \in Live
  <2>1. Good(slab[cmd.token])
    BY <1>1, <1>2 DEF Live, GoodSlab
  <2>2. PICK d : d = Error(slab[cmd.token], kind)
    OBVIOUS
  <2>3. Good(d)'
    BY <1>1, <2>1, <2>2, ErrorIsGood, GoodGrows
  <2>4. slab' = [slab EXCEPT ![cmd.token] = d]
    BY <1>2, <2>2 DEF Refuse
  <2> QED
    BY <1>1, <1>2, <2>3, <2>4, SlabExcept DEF Refuse, ControlOK
<1>3. CASE cmd.token \notin Live
  BY <1>1, <1>3, SlabUnchanged DEF Refuse, ControlOK
<1> QED
  BY <1>2, <1>3

LEMMA QueueConnectKeeps == ASSUME IInv, QueueConnect PROVE IInv'
<1> DEFINE cmd == Head(queue)
<1>1. /\ Take("Connect") /\ UNCHANGED <<active, timers, due>>
      /\ IF Live = Tokens
         THEN Refuse(cmd, "Capacity") /\ UNCHANGED <<home, lost>>
         ELSE \E t \in Tokens \ Live :
                /\ home' = Append(home, t)
                /\ \/ MayNotResolve /\ pc' = "panicked" /\ UNCHANGED <<slab, lost>>
                   \/ Refuse(cmd, "Io") /\ UNCHANGED lost
                   \/ /\ OsMayFail
                      /\ \E kind \in {"Internal", "Io"} : Refuse(cmd, kind)
                      /\ lost' = lost \cup {LostOf(NewConn, FALSE)}
                   \/ /\ \E n \in 0..(MaxAddrs - 1) :
                           slab' = [slab EXCEPT ![t] = Armed(AsClient(Open(NewConn), n))]
                      /\ UNCHANGED <<pc, lost>>
  BY DEF QueueConnect
<1> HIDE DEF cmd
<1>2. HistoryOK /\ GoodSlab(slab) /\ ControlOK /\ TimersOK'
  BY <1>1 DEF IInv, TimersOK
<1>3. /\ HomeGrows /\ GoodSlab(slab)' /\ lost' \subseteq Lost
      /\ pc' \in {"init", "poll", "batch", "exited", "panicked", "blocked"}
  <2>1. CASE Live = Tokens
    <3>1. HomeGrows
      BY <1>1, <1>2, <2>1, HomeUnchanged
    <3> QED
      BY <1>1, <1>2, <2>1, <3>1, RefuseKeeps DEF HistoryOK
  <2>2. CASE Live # Tokens
    <3>1. PICK t \in Tokens \ Live :
            /\ home' = Append(home, t)
            /\ \/ MayNotResolve /\ pc' = "panicked" /\ UNCHANGED <<slab, lost>>
               \/ Refuse(cmd, "Io") /\ UNCHANGED lost
               \/ /\ OsMayFail
                  /\ \E kind \in {"Internal", "Io"} : Refuse(cmd, kind)
                  /\ lost' = lost \cup {LostOf(NewConn, FALSE)}
               \/ /\ \E n \in 0..(MaxAddrs - 1) :
                       slab' = [slab EXCEPT ![t] = Armed(AsClient(Open(NewConn), n))]
                  /\ UNCHANGED <<pc, lost>>
      BY <1>1, <2>2
    <3>2. HomeGrows /\ Len(home') = Len(home) + 1
      BY <1>2, <3>1, HomeAppended
    <3>3. CASE pc' = "panicked" /\ UNCHANGED <<slab, lost>>
      BY <1>2, <3>2, <3>3, SlabUnchanged DEF HistoryOK
    <3>4. CASE /\ \E kind \in {"Internal", "Io"} : Refuse(cmd, kind)
               /\ lost' = lost \cup {LostOf(NewConn, FALSE)}
      <4>1. LostOf(NewConn, FALSE) \in Lost
        BY <1>2, NewConnIsConn DEF LostOf, Lost, Conn, ConnOf
      <4> QED
        BY <1>2, <3>2, <3>4, <4>1, RefuseKeeps DEF HistoryOK
    <3>5. CASE /\ \E n \in 0..(MaxAddrs - 1) :
                    slab' = [slab EXCEPT ![t] = Armed(AsClient(Open(NewConn), n))]
               /\ UNCHANGED <<pc, lost>>
      <4>1. PICK n \in 0..(MaxAddrs - 1) :
              slab' = [slab EXCEPT ![t] = Armed(AsClient(Open(NewConn), n))]
        BY <3>5
      <4>2. PICK d : d = Armed(AsClient(Open(NewConn), n))
        OBVIOUS
      <4>3. Good(d)'
        BY <1>2, <3>2, <4>2, ConnectedIsNew, NewConnIsGood
      <4>4. GoodSlab(slab)'
        BY <1>2, <3>2, <4>1, <4>2, <4>3, SlabExcept
      <4> QED
        BY <1>2, <3>2, <3>5, <4>4 DEF HistoryOK, ControlOK
    <3>6. CASE Refuse(cmd, "Io") /\ UNCHANGED lost
      BY <1>2, <3>2, <3>6, RefuseKeeps DEF HistoryOK
    <3> QED
      BY <3>1, <3>3, <3>4, <3>5, <3>6
  <2> QED
    BY <2>1, <2>2
<1>4. /\ GoodQueue(queue)' /\ BatchOK'
      /\ listener' \in BOOLEAN /\ queueArmed' \in BOOLEAN
  BY <1>1, <1>3, TakeKeeps
<1>5. ControlOK' /\ HistoryOK'
  BY <1>1, <1>2, <1>3, <1>4 DEF ControlOK, HistoryOK, HomeGrows
<1> QED
  BY <1>2, <1>3, <1>4, <1>5 DEF IInv

LEMMA QueueTimeoutKeeps == ASSUME IInv, QueueTimeout PROVE IInv'
<1> DEFINE cmd == Head(queue)
           told == IF cmd.token = ALL THEN Live ELSE {cmd.token} \cap Live
<1>1. /\ Take("Timeout") /\ UNCHANGED <<active, home, lost, due>>
      /\ \/ \E s \in Slots :
              /\ timers' = [timers EXCEPT ![s] = [connection |-> cmd.token, owner |-> cmd.from]]
              /\ slab' \in Announced(told)
              /\ pc' = IF Crashed(slab') THEN "panicked" ELSE pc
         \/ /\ slab' = IF cmd.token \in Live
                       THEN [slab EXCEPT ![cmd.token] = Error(@, "Timer")] ELSE slab
            /\ pc' = IF (cmd.token = ALL /\ "Timer" \in PanicOn) \/ Crashed(slab')
                     THEN "panicked" ELSE pc
            /\ UNCHANGED timers
  BY DEF QueueTimeout
<1> HIDE DEF cmd
<1>2. HistoryOK /\ HomeGrows /\ HistoryOK' /\ GoodSlab(slab)
  <2>1. lost' \subseteq Lost
    BY <1>1 DEF IInv, HistoryOK
  <2> QED
    BY <1>1, <2>1, Undisturbed DEF IInv
<1>3. /\ GoodQueue(queue)' /\ GoodCommand(cmd) /\ BatchOK'
      /\ listener' \in BOOLEAN /\ queueArmed' \in BOOLEAN
  BY <1>1, <1>2, TakeKeeps DEF cmd
<1>4. told \subseteq Live
  OBVIOUS
<1> HIDE DEF told
<1>5. TimersOK' /\ GoodSlab(slab)'
  <2>1. ASSUME NEW s \in Slots, slab' \in Announced(told),
               timers' = [timers EXCEPT ![s] = [connection |-> cmd.token, owner |-> cmd.from]]
        PROVE  TimersOK' /\ GoodSlab(slab)'
    <3>1. [connection |-> cmd.token, owner |-> cmd.from] \in Timeout
      BY <1>3 DEF GoodCommand, Command, Timeout
    <3>2. [connection |-> cmd.token, owner |-> cmd.from] # NoTimer
      BY <3>1, TimerAssumption
    <3>3. TimersOK'
      BY <1>1, <2>1, <3>1, <3>2 DEF IInv, TimersOK
    <3> QED
      BY <1>2, <1>4, <2>1, <3>3, AnnouncedIsGood
  <2>2. CASE slab' = slab /\ UNCHANGED timers
    BY <1>1, <2>2, Undisturbed
  <2>3. CASE /\ cmd.token \in Live /\ UNCHANGED timers
             /\ slab' = [slab EXCEPT ![cmd.token] = Error(@, "Timer")]
    <3>1. Good(slab[cmd.token])
      BY <1>2, <2>3 DEF Live, GoodSlab
    <3>2. PICK d : d = Error(slab[cmd.token], "Timer")
      OBVIOUS
    <3>3. Good(d)'
      BY <1>2, <3>1, <3>2, ErrorIsGood, GoodGrows
    <3>4. GoodSlab(slab)'
      BY <1>2, <2>3, <3>2, <3>3, SlabExcept
    <3> QED
      BY <1>1, <2>3, <3>4, Undisturbed
  <2> QED
    BY <1>1, <2>1, <2>2, <2>3
<1>6. ControlOK'
  BY <1>1, <1>3 DEF IInv, ControlOK
<1> QED
  BY <1>2, <1>3, <1>5, <1>6 DEF IInv

LEMMA QueueCancelKeeps == ASSUME IInv, QueueCancel PROVE IInv'
<1>1. /\ Take("Cancel") /\ UNCHANGED <<pc, active, slab, home, lost>>
      /\ \/ UNCHANGED <<timers, due>>
         \/ \E s : timers' = [timers EXCEPT ![s] = NoTimer] /\ due' = due \ {s}
  BY DEF QueueCancel
<1>2. HistoryOK /\ HomeGrows /\ HistoryOK' /\ GoodSlab(slab)'
  <2>1. lost' \subseteq Lost
    BY <1>1 DEF IInv, HistoryOK
  <2> QED
    BY <1>1, <2>1, Undisturbed
<1>3. /\ GoodQueue(queue)' /\ BatchOK'
      /\ listener' \in BOOLEAN /\ queueArmed' \in BOOLEAN
  BY <1>1, <1>2, TakeKeeps
<1>4. TimersOK'
  BY <1>1 DEF IInv, TimersOK
<1>5. ControlOK'
  BY <1>1, <1>3 DEF IInv, ControlOK
<1> QED
  BY <1>2, <1>3, <1>4, <1>5 DEF IInv

-----------------------------------------------------------------------------
(* Theorems *)

LEMMA Inductive == IInv /\ [Next]_vars => IInv'
<1> SUFFICES ASSUME IInv, [Next]_vars PROVE IInv'
  OBVIOUS
<1>1. CASE UNCHANGED vars
  <2>1. UNCHANGED <<pc, active, listener, batch, slab, home, lost, queue, queueArmed,
                    timers, due, backlog>>
    BY <1>1 DEF vars, loop
  <2>2. lost' \subseteq Lost
    BY <2>1 DEF IInv, HistoryOK
  <2> QED
    BY <2>1, <2>2, Undisturbed DEF IInv, ControlOK
<1>2. CASE Next /\ ~LoopStep
  BY <1>2, AppSendKeeps, OthersKeep, PeerKeeps DEF Next
<1>3. CASE LoopStep /\ ~HandleQueue
  BY <1>3, OthersKeep, PollEventsKeeps, HandleAcceptKeeps, HandleConnKeeps,
     HandleTimeoutKeeps DEF LoopStep
<1>4. CASE HandleQueue
  BY <1>4, DeliverKeeps, QueueShutdownKeeps, QueueConnectKeeps, QueueTimeoutKeeps,
     QueueCancelKeeps DEF HandleQueue, QueueMessage, QueueClose
<1> QED
  BY <1>1, <1>2, <1>3, <1>4 DEF Next, LoopStep

\* The inductive invariant holds in every behaviour.
THEOREM Invariance == Spec => []IInv
BY Initially, Inductive, PTL DEF Spec

\* Every variable of the event loop keeps its type, for any number of slab entries,
\* connections, timer entries and commands.  (io.rs, struct Handler)
THEOREM TypeCorrect == Spec => []TypeOK
BY Invariance, InvariantMeans, PTL

\* While the ids have not wrapped, data reaches only the connection it was sent on,
\* whatever the reuse of the slab's entries.  (io.rs, handle_queue)
THEOREM DataIsRouted == Spec => []Routed
BY Invariance, InvariantMeans, PTL
=============================================================================
