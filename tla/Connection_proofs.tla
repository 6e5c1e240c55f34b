------------------------- MODULE Connection_proofs -------------------------
(***************************************************************************)
(* What the operations of Connection keep, whatever the values of the      *)
(* constants: every result is a connection record again, of the same       *)
(* number and id, and no output appears but what send_message adds; and    *)
(* an opened connection goes one way, asks for the events it needs, and    *)
(* asks for none only after on_close.                                      *)
(***************************************************************************)
EXTENDS Connection, TLAPS

\* d is a connection record with the identity of c, and no more output.
Kept(c, d, U, I, M) ==
  /\ d \in ConnOf(U, I, M)
  /\ d.uid = c.uid /\ d.id = c.id /\ d.out \subseteq c.out

LEMMA KeptTransitive ==
  ASSUME NEW U, NEW I, NEW M, NEW c, NEW d, NEW e,
         Kept(c, d, U, I, M), Kept(d, e, U, I, M)
  PROVE  Kept(c, e, U, I, M)
BY DEF Kept

LEMMA NewIsConn ==
  ASSUME NEW U, NEW I, NEW M, NEW u \in U, NEW i \in I
  PROVE  /\ New(u, i) \in ConnOf(U, I, M)
         /\ New(u, i).uid = u /\ New(u, i).id = i /\ New(u, i).out = {}
<1>1. 0 \in 0..MaxAddrs /\ 0 \in 0..2
  BY ConnectionAssumption
<1> QED
  BY <1>1 DEF New, ConnOf, Interests, States, Nets

LEMMA OpenKeeps ==
  ASSUME NEW U, NEW I, NEW M, NEW c \in ConnOf(U, I, M)
  PROVE  Kept(c, Open(c), U, I, M)
BY DEF Kept, Open, ConnOf, States

LEMMA AsServerKeeps ==
  ASSUME NEW U, NEW I, NEW M, NEW c \in ConnOf(U, I, M)
  PROVE  Kept(c, AsServer(c), U, I, M)
BY DEF Kept, AsServer, ConnOf, Interests

LEMMA AsClientKeeps ==
  ASSUME NEW U, NEW I, NEW M, NEW c \in ConnOf(U, I, M), NEW n \in 0..MaxAddrs
  PROVE  Kept(c, AsClient(c, n), U, I, M)
BY DEF Kept, AsClient, ConnOf, Interests, Nets

LEMMA CheckEventsKeeps ==
  ASSUME NEW U, NEW I, NEW M, NEW c \in ConnOf(U, I, M)
  PROVE  Kept(c, CheckEvents(c), U, I, M)
BY DEF Kept, CheckEvents, ConnOf, Interests

LEMMA DisconnectKeeps ==
  ASSUME NEW U, NEW I, NEW M, NEW c \in ConnOf(U, I, M)
  PROVE  Kept(c, Disconnect(c), U, I, M)
<1> DEFINE k == IF c.state \in {"RespondingClose", "FinishedClose", "Connecting"} THEN c.closes
                ELSE IF c.closes = 2 THEN 2 ELSE c.closes + 1
<1>1. k \in 0..2
  <2>1. c.closes \in 0..2
    BY DEF ConnOf
  <2> QED
    BY <2>1
<1>2. Disconnect(c) = [c EXCEPT !.closes = k, !.events = {}]
  BY DEF Disconnect
<1> HIDE DEF k
<1> QED
  BY <1>1, <1>2 DEF Kept, ConnOf, Interests

LEMMA SendCloseKeeps ==
  ASSUME NEW U, NEW I, NEW M, NEW c \in ConnOf(U, I, M)
  PROVE  Kept(c, SendClose(c), U, I, M)
BY DEF Kept, SendClose, CheckEvents, ConnOf, Interests, States

LEMMA ErrorKeeps ==
  ASSUME NEW U, NEW I, NEW M, NEW c \in ConnOf(U, I, M), NEW kind
  PROVE  Kept(c, Error(c, kind), U, I, M)
<1>1. CASE c.state = "Connecting"
  <2>1. Error(c, kind) = [c EXCEPT !.events = IF c.client THEN {} ELSE (@ \ {"r"}) \cup {"w"}]
    BY <1>1 DEF Error
  <2> QED
    BY <2>1 DEF Kept, ConnOf, Interests
<1>2. CASE c.state # "Connecting" /\ kind \in PanicOn
  <2>1. Error(c, kind) = [c EXCEPT !.crash = TRUE]
    BY <1>2 DEF Error
  <2> QED
    BY <2>1 DEF Kept, ConnOf
<1>3. CASE c.state # "Connecting" /\ kind \notin PanicOn
  <2>1. Error(c, kind) = CASE kind \in {"Internal", "Capacity", "Protocol", "Encoding"} -> SendClose(c)
                           [] kind \in {"Http", "Io"} -> Disconnect(c)
                           [] OTHER -> c
    BY <1>3 DEF Error
  <2>2. Kept(c, c, U, I, M)
    BY DEF Kept
  <2>3. \/ Error(c, kind) = SendClose(c)
        \/ Error(c, kind) = Disconnect(c)
        \/ Error(c, kind) = c
    BY <2>1
  <2> QED
    BY <2>2, <2>3, SendCloseKeeps, DisconnectKeeps
<1> QED
  BY <1>1, <1>2, <1>3

\* The connection of a failed or successful result, after the error was handled.
LEMMA FailKeeps ==
  ASSUME NEW U, NEW I, NEW M, NEW r, r.conn \in ConnOf(U, I, M)
  PROVE  Kept(r.conn, Fail(r), U, I, M)
<1>1. Kept(r.conn, r.conn, U, I, M)
  BY DEF Kept
<1>2. \/ Fail(r) = r.conn
      \/ Fail(r) = Error(r.conn, "Io")
      \/ Fail(r) = Error(r.conn, r.err)
  BY DEF Fail
<1> QED
  BY <1>1, <1>2, ErrorKeeps

\* send_message adds its own data to the output, and nothing else.
LEMMA SendMessageAdds ==
  ASSUME NEW U, NEW I, NEW M, NEW c \in ConnOf(U, I, M), NEW m \in M,
         NEW r \in SendMessage(c, m)
  PROVE  /\ r.conn \in ConnOf(U, I, M)
         /\ r.conn.uid = c.uid /\ r.conn.id = c.id
         /\ r.conn.out \subseteq c.out \cup {m}
<1> DEFINE d(out) == [c EXCEPT !.out = out]
<1>1. ASSUME NEW out, out = c.out \/ out = c.out \cup {m}
      PROVE  d(out) \in ConnOf(U, I, M) /\ d(out).uid = c.uid /\ d(out).id = c.id /\ d(out).out = out
  BY <1>1 DEF ConnOf
<1>2. r.conn = c \/ \E out \in {c.out, c.out \cup {m}} : r.conn = CheckEvents(d(out))
  BY DEF SendMessage, Result
<1> HIDE DEF d
<1>3. ASSUME NEW out \in {c.out, c.out \cup {m}}
      PROVE  Kept(d(out), CheckEvents(d(out)), U, I, M)
  BY <1>1, CheckEventsKeeps
<1> QED
  BY <1>1, <1>2, <1>3 DEF Kept

LEMMA ReadKeeps ==
  ASSUME NEW U, NEW I, NEW M, NEW c \in ConnOf(U, I, M), NEW r \in Read(c)
  PROVE  Kept(c, r.conn, U, I, M)
<1> DEFINE d == [c EXCEPT !.data = FALSE, !.got = TRUE]
<1>1. Kept(c, d, U, I, M) /\ Kept(c, c, U, I, M)
  BY DEF Kept, ConnOf
<1>2. Kept(c, ReadEof(c), U, I, M)
  <2>1. Kept(c, [c EXCEPT !.events = @ \ {"r"}], U, I, M)
    BY DEF Kept, ConnOf, Interests
  <2> QED
    BY <1>1, <2>1, DisconnectKeeps DEF ReadEof
<1>3. \A e, q : q \in ReadData(e) => q.conn = e
  BY DEF ReadData, Result
<1> HIDE DEF d
<1>4. r.conn \in {c, d, ReadEof(c)}
  <2>1. CASE c.state = "Connecting"
    BY <2>1 DEF Read, Result
  <2>2. CASE c.state # "Connecting" /\ c.data
    BY <2>2, <1>3 DEF Read, Result, d
  <2>3. CASE c.state # "Connecting" /\ ~c.data
    <3>1. CASE c.net = "eof"
      <4>1. PICK q \in ReadData(c) :
              r = IF q.err = "ok" THEN Result(ReadEof(q.conn), "ok", TRUE) ELSE q
        BY <2>3, <3>1 DEF Read
      <4> QED
        BY <4>1, <1>3 DEF Result
    <3>2. CASE c.net # "eof"
      BY <2>3, <3>2 DEF Read, Result
    <3> QED
      BY <3>1, <3>2
  <2> QED
    BY <2>1, <2>2, <2>3
<1> QED
  BY <1>1, <1>2, <1>4

LEMMA WriteKeeps ==
  ASSUME NEW U, NEW I, NEW M, NEW c \in ConnOf(U, I, M), NEW r \in Write(c)
  PROVE  Kept(c, r.conn, U, I, M)
<1> DEFINE w == [c EXCEPT !.events = @ \ {"w"}]
<1>1. Kept(c, w, U, I, M) /\ Kept(c, c, U, I, M)
  BY DEF Kept, ConnOf, Interests
<1>2. Kept(c, [w EXCEPT !.events = {}], U, I, M)
  BY DEF Kept, ConnOf, Interests
<1>3. ASSUME NEW left \in SUBSET c.out
      PROVE  Kept(c, CheckEvents([w EXCEPT !.out = left]), U, I, M)
  <2> DEFINE e == [w EXCEPT !.out = left]
  <2>1. Kept(c, e, U, I, M)
    BY DEF Kept, ConnOf, Interests
  <2> HIDE DEF e
  <2>2. Kept(e, CheckEvents(e), U, I, M)
    BY <2>1, CheckEventsKeeps DEF Kept
  <2>3. Kept(c, CheckEvents(e), U, I, M)
    BY <2>1, <2>2, KeptTransitive
  <2> QED
    BY <2>3 DEF e
<1> DEFINE Parts == {Result(CheckEvents([w EXCEPT !.out = left]), "ok", FALSE) : left \in SUBSET c.out}
<1>4. \/ r.conn \in {c, w, [w EXCEPT !.events = {}]}
      \/ \E left \in SUBSET c.out : r.conn = CheckEvents([w EXCEPT !.out = left])
  <2>1. \/ r \in {Result(c, "Internal", FALSE), Result(w, "Io", FALSE), Result(w, "Refused", FALSE),
                 Result([w EXCEPT !.events = {}], "ok", FALSE)}
        \/ r \in Parts
    BY Zenon DEF Write
  <2>2. CASE r \in Parts
    <3> HIDE DEF w
    <3> QED
      BY <2>2 DEF Result
  <2>3. CASE r \notin Parts
    <3> HIDE DEF w, Parts
    <3> QED
      BY <2>1, <2>3 DEF Result
  <2> QED
    BY <2>2, <2>3
<1> QED
  BY <1>1, <1>2, <1>3, <1>4

LEMMA ResetKeeps ==
  ASSUME NEW U, NEW I, NEW M, NEW c \in ConnOf(U, I, M), CanReset(c)
  PROVE  Kept(c, Reset(c), U, I, M)
<1>1. c.addrs - 1 \in 0..MaxAddrs
  BY ConnectionAssumption DEF ConnOf, CanReset
<1> QED
  BY <1>1 DEF Kept, Reset, ConnOf, Interests, Nets

-----------------------------------------------------------------------------
(* The course of an opened connection *)

\* The handler may still expect events: on_close was not called, nothing panicked.
Alive(c) == ~c.crash /\ c.closes = 0

\* An opened connection that asks for the events it needs while it is alive.
Whole(c) ==
  /\ c.state \in {"Open", "AwaitingClose"}
  /\ Alive(c) => c.events # {} /\ (c.out # {} => "w" \in c.events)

\* Connection c may become d: nothing is taken back, and a panic needs a flag.
Onward(c, d) ==
  /\ d.uid = c.uid /\ d.closes >= c.closes /\ d.state \in {c.state, "AwaitingClose"}
  /\ c.crash => d.crash
  /\ d.crash => c.crash \/ PanicOn # {}

Goes(c, d) == Onward(c, d) /\ Whole(d)

\* What the poll knows of c holds for d as well.
Steady(c, d) ==
  /\ d.poll = c.poll /\ d.interest = c.interest /\ d.out = c.out
  /\ Alive(d) => c.events \subseteq d.events

\* on_close is called at most once on the way, and then nothing is asked for.
ToldOnce(c) == c.closes = 0 \/ (c.closes = 1 /\ c.events = {})
Once(c, d) == c.closes = 0 => ToldOnce(d)

LEMMA OnwardTransitive ==
  ASSUME NEW U, NEW I, NEW M, NEW c \in ConnOf(U, I, M), NEW d \in ConnOf(U, I, M),
         NEW e \in ConnOf(U, I, M), Onward(c, d), Onward(d, e)
  PROVE  Onward(c, e)
<1>1. c.closes \in Nat /\ d.closes \in Nat /\ e.closes \in Nat
  BY DEF ConnOf
<1>2. e.closes >= c.closes
  BY <1>1 DEF Onward
<1> QED
  BY <1>2, Zenon DEF Onward

LEMMA OnwardSelf ==
  ASSUME NEW U, NEW I, NEW M, NEW c \in ConnOf(U, I, M)
  PROVE  Onward(c, c)
<1>1. c.closes >= c.closes
  BY DEF ConnOf
<1> QED
  BY <1>1 DEF Onward

\* Who is alive in the end was alive before.
LEMMA AliveBefore ==
  ASSUME NEW U, NEW I, NEW M, NEW c \in ConnOf(U, I, M), NEW d \in ConnOf(U, I, M),
         Onward(c, d), Alive(d)
  PROVE  Alive(c)
<1>1. d.closes >= c.closes /\ d.closes = 0 /\ c.closes \in Nat
  BY DEF Onward, Alive, ConnOf
<1>2. c.closes = 0
  BY <1>1
<1> QED
  BY <1>2 DEF Onward, Alive

LEMMA CheckEventsAsks ==
  ASSUME NEW U, NEW I, NEW M, NEW c \in ConnOf(U, I, M), c.state \in {"Open", "AwaitingClose"}
  PROVE  LET d == CheckEvents(c) IN
         /\ Goes(c, d) /\ Steady(c, d) /\ d.closes = c.closes /\ d.crash = c.crash
<1>1. CheckEvents(c) = [c EXCEPT !.events = @ \cup {"r"} \cup (IF c.out = {} THEN {} ELSE {"w"})]
  BY DEF CheckEvents
<1>2. c.closes >= c.closes
  BY DEF ConnOf
<1> QED
  BY <1>1, <1>2 DEF ConnOf, Goes, Onward, Whole, Steady

LEMMA SendCloseGoes ==
  ASSUME NEW U, NEW I, NEW M, NEW c \in ConnOf(U, I, M), c.state \in {"Open", "AwaitingClose"}
  PROVE  LET d == SendClose(c) IN
         /\ Goes(c, d) /\ Steady(c, d) /\ d.closes = c.closes /\ d.crash = c.crash
<1> DEFINE b == [c EXCEPT !.state = "AwaitingClose"]
<1>1. /\ b \in ConnOf(U, I, M) /\ b.state = "AwaitingClose" /\ b.uid = c.uid
      /\ b.closes = c.closes /\ b.crash = c.crash /\ b.poll = c.poll
      /\ b.interest = c.interest /\ b.out = c.out /\ b.events = c.events
  BY DEF ConnOf, States
<1>2. SendClose(c) = CheckEvents(b)
  <2>1. c = [c EXCEPT !.state = c.state]
    BY DEF ConnOf
  <2>2. [c EXCEPT !.state = CASE @ = "Open" -> "AwaitingClose"
                              [] @ = "RespondingClose" -> "FinishedClose"
                              [] OTHER -> @] = b
    BY <2>1
  <2> QED
    BY <2>2 DEF SendClose
<1> HIDE DEF b
<1>3. LET d == CheckEvents(b) IN
      /\ Goes(b, d) /\ Steady(b, d) /\ d.closes = b.closes /\ d.crash = b.crash
  BY <1>1, CheckEventsAsks
<1> QED
  BY <1>1, <1>2, <1>3 DEF Goes, Onward, Steady

LEMMA DisconnectGoes ==
  ASSUME NEW U, NEW I, NEW M, NEW c \in ConnOf(U, I, M), c.state \in {"Open", "AwaitingClose"}
  PROVE  LET d == Disconnect(c) IN
         /\ Goes(c, d) /\ Once(c, d) /\ d.closes > 0 /\ d.events = {}
         /\ d.poll = c.poll /\ d.interest = c.interest /\ d.out = c.out
<1> DEFINE k == IF c.closes = 2 THEN 2 ELSE c.closes + 1
<1>1. c.closes \in 0..2 /\ k \in 0..2 /\ k > 0 /\ k >= c.closes /\ (c.closes = 0 => k = 1)
  <2>1. c.closes \in 0..2
    BY DEF ConnOf
  <2> QED
    BY <2>1
<1>2. Disconnect(c) = [c EXCEPT !.closes = k, !.events = {}]
  BY DEF Disconnect
<1> HIDE DEF k
<1>3. PICK d : d = Disconnect(c)
  OBVIOUS
<1>4. /\ d.closes = k /\ d.events = {} /\ d.state = c.state /\ d.uid = c.uid /\ d.crash = c.crash
      /\ d.poll = c.poll /\ d.interest = c.interest /\ d.out = c.out
  BY <1>2, <1>3 DEF ConnOf
<1>5. ~Alive(d)
  BY <1>1, <1>4 DEF Alive
<1>6. Goes(c, d)
  BY <1>1, <1>4, <1>5 DEF Goes, Onward, Whole
<1>7. Once(c, d)
  BY <1>1, <1>4 DEF Once, ToldOnce
<1> QED
  BY <1>1, <1>3, <1>4, <1>6, <1>7

\* A panicking error handler.
LEMMA PanicGoes ==
  ASSUME NEW U, NEW I, NEW M, NEW c \in ConnOf(U, I, M), c.state \in {"Open", "AwaitingClose"},
         NEW kind \in PanicOn
  PROVE  LET d == [c EXCEPT !.crash = TRUE] IN
         /\ Goes(c, d) /\ Steady(c, d) /\ d.closes = c.closes /\ d.crash
<1>1. c.closes >= c.closes
  BY DEF ConnOf
<1> QED
  BY <1>1 DEF ConnOf, Goes, Onward, Whole, Steady, Alive

\* An I/O error ends the connection, whatever it asked for.
LEMMA IoErrorEnds ==
  ASSUME NEW U, NEW I, NEW M, NEW c \in ConnOf(U, I, M), c.state \in {"Open", "AwaitingClose"}
  PROVE  LET d == Error(c, "Io") IN
         /\ Goes(c, d) /\ ~Alive(d) /\ (d.crash \/ d.closes > 0)
         /\ d.poll = c.poll /\ d.interest = c.interest /\ d.out = c.out
         /\ Once(c, d)
<1>1. CASE "Io" \in PanicOn
  <2>1. Error(c, "Io") = [c EXCEPT !.crash = TRUE]
    BY <1>1 DEF Error
  <2>2. PICK d : d = [c EXCEPT !.crash = TRUE]
    OBVIOUS
  <2>3. Goes(c, d) /\ Steady(c, d) /\ d.closes = c.closes /\ d.crash
    BY <1>1, <2>2, PanicGoes
  <2> QED
    BY <2>1, <2>2, <2>3 DEF Steady, Alive, Once, ToldOnce
<1>2. CASE "Io" \notin PanicOn
  <2>1. Error(c, "Io") = Disconnect(c)
    BY <1>2 DEF Error
  <2> QED
    BY <2>1, DisconnectGoes DEF Alive
<1> QED
  BY <1>1, <1>2

\* An error leaves the poll what it knows, and calls on_close only for two kinds.
LEMMA ErrorGoes ==
  ASSUME NEW U, NEW I, NEW M, NEW c \in ConnOf(U, I, M), Whole(c), NEW kind
  PROVE  LET d == Error(c, kind) IN
         /\ Goes(c, d) /\ Steady(c, d) /\ Once(c, d)
         /\ kind \notin {"Http", "Io"} => d.closes = c.closes
<1>1. c.state \in {"Open", "AwaitingClose"}
  BY DEF Whole
<1>2. CASE kind \in PanicOn
  <2>1. Error(c, kind) = [c EXCEPT !.crash = TRUE]
    BY <1>1, <1>2 DEF Error
  <2> QED
    BY <1>1, <1>2, <2>1, PanicGoes DEF Once, ToldOnce
<1>3. CASE kind \notin PanicOn
  <2>1. Error(c, kind) = CASE kind \in {"Internal", "Capacity", "Protocol", "Encoding"} -> SendClose(c)
                           [] kind \in {"Http", "Io"} -> Disconnect(c)
                           [] OTHER -> c
    BY <1>1, <1>3 DEF Error
  <2>2. CASE Error(c, kind) = SendClose(c)
    BY <1>1, <2>2, SendCloseGoes DEF Once, ToldOnce
  <2>3. CASE Error(c, kind) = Disconnect(c) /\ kind \in {"Http", "Io"}
    BY <1>1, <2>3, DisconnectGoes DEF Steady, Alive
  <2>4. CASE Error(c, kind) = c
    <3>1. Goes(c, c)
      BY OnwardSelf DEF Goes
    <3> QED
      BY <2>4, <3>1 DEF Steady, Once, ToldOnce
  <2> QED
    BY <2>1, <2>2, <2>3, <2>4
<1> QED
  BY <1>2, <1>3

LEMMA FailGoes ==
  ASSUME NEW U, NEW I, NEW M, NEW r, r.conn \in ConnOf(U, I, M), Whole(r.conn)
  PROVE  LET d == Fail(r) IN
         /\ Goes(r.conn, d) /\ Steady(r.conn, d) /\ Once(r.conn, d)
         /\ r.err = "ok" => d = r.conn
         /\ r.err \notin {"Http", "Io", "Refused"} => d.closes = r.conn.closes
<1>1. \/ Fail(r) = r.conn
      \/ Fail(r) = Error(r.conn, "Io") /\ r.err = "Refused"
      \/ Fail(r) = Error(r.conn, r.err) /\ r.err # "ok"
  BY DEF Fail
<1>2. CASE Fail(r) = r.conn
  <2>1. Goes(r.conn, r.conn)
    BY OnwardSelf DEF Goes
  <2> QED
    BY <1>2, <2>1 DEF Steady, Once, ToldOnce
<1> QED
  BY <1>1, <1>2, ErrorGoes

LEMMA SendMessageGoes ==
  ASSUME NEW U, NEW I, NEW M, NEW c \in ConnOf(U, I, M), Whole(c), NEW m \in M,
         NEW r \in SendMessage(c, m)
  PROVE  /\ Goes(c, r.conn) /\ r.conn.closes = c.closes /\ r.conn.poll = c.poll
         /\ r.err \notin {"Http", "Io", "Refused"}
<1> DEFINE d(out) == [c EXCEPT !.out = out]
<1>1. ASSUME NEW out, out = c.out \/ out = c.out \cup {m}
      PROVE  /\ d(out) \in ConnOf(U, I, M) /\ d(out).uid = c.uid /\ d(out).state = c.state
             /\ d(out).closes = c.closes /\ d(out).crash = c.crash /\ d(out).poll = c.poll
  BY <1>1 DEF ConnOf
<1>2. /\ r.conn = c \/ \E out \in {c.out, c.out \cup {m}} : r.conn = CheckEvents(d(out))
      /\ r.err \in {"ok", "Capacity"}
  BY DEF SendMessage, Result
<1> HIDE DEF d
<1>3. ASSUME NEW out \in {c.out, c.out \cup {m}}, r.conn = CheckEvents(d(out))
      PROVE  Goes(c, r.conn) /\ r.conn.closes = c.closes /\ r.conn.poll = c.poll
  <2>1. PICK b : b = d(out)
    OBVIOUS
  <2>2. /\ b \in ConnOf(U, I, M) /\ b.uid = c.uid /\ b.state = c.state
        /\ b.closes = c.closes /\ b.crash = c.crash /\ b.poll = c.poll
    BY <1>1, <2>1
  <2>3. Goes(b, r.conn) /\ Steady(b, r.conn) /\ r.conn.closes = b.closes
    BY <1>3, <2>1, <2>2, CheckEventsAsks DEF Whole
  <2> QED
    BY <2>2, <2>3 DEF Goes, Onward, Steady
<1>4. Goes(c, c)
  BY OnwardSelf DEF Goes
<1> QED
  BY <1>2, <1>3, <1>4

\* An opened connection only reads; a failed read has told nothing yet.
LEMMA ReadGoes ==
  ASSUME NEW U, NEW I, NEW M, NEW c \in ConnOf(U, I, M), Whole(c), NEW r \in Read(c)
  PROVE  /\ Goes(c, r.conn) /\ r.conn.poll = c.poll
         /\ r.conn.state # "Connecting"
         /\ r.err = "ok" => Once(c, r.conn)
         /\ r.err # "ok" => r.conn.closes = c.closes
<1> DEFINE d == [c EXCEPT !.data = FALSE, !.got = TRUE]
           n == [c EXCEPT !.events = @ \ {"r"}]
<1>0. c.state \in {"Open", "AwaitingClose"} /\ c.state # "Connecting"
  BY DEF Whole
<1>1. Goes(c, c)
  BY OnwardSelf DEF Goes
<1>2. Goes(c, d) /\ d.poll = c.poll /\ d.closes = c.closes
  <2>1. c.closes >= c.closes
    BY DEF ConnOf
  <2> QED
    BY <2>1 DEF Goes, Onward, Whole, Alive, ConnOf
<1>3. Goes(c, ReadEof(c)) /\ Once(c, ReadEof(c)) /\ ReadEof(c).poll = c.poll
  <2>1. ASSUME "w" \in c.events PROVE Goes(c, n) /\ Once(c, n) /\ n.poll = c.poll
    <3>1. c.closes >= c.closes
      BY DEF ConnOf
    <3>2. /\ n.events = c.events \ {"r"} /\ n.state = c.state /\ n.uid = c.uid
          /\ n.crash = c.crash /\ n.closes = c.closes /\ n.poll = c.poll /\ n.out = c.out
      BY DEF ConnOf
    <3>3. "w" \in n.events
      BY <2>1, <3>2
    <3> HIDE DEF n
    <3> QED
      BY <1>0, <3>1, <3>2, <3>3 DEF Goes, Onward, Whole, Once, ToldOnce
  <2>2. \/ ReadEof(c) = c
        \/ "w" \in c.events /\ ReadEof(c) = n
        \/ ReadEof(c) = Disconnect(c)
    BY DEF ReadEof
  <2> HIDE DEF n
  <2> QED
    BY <1>0, <1>1, <2>1, <2>2, DisconnectGoes DEF Once, ToldOnce
<1>4. \A e, q : q \in ReadData(e) => q.conn = e
  BY DEF ReadData, Result
<1> HIDE DEF d
<1>5. \/ r.conn \in {c, d}
      \/ r.conn = ReadEof(c) /\ r.err = "ok"
  <2>1. CASE c.data
    BY <1>0, <2>1, <1>4 DEF Read, Result, d
  <2>2. CASE ~c.data
    <3>1. CASE c.net = "eof"
      <4>1. PICK q \in ReadData(c) :
              r = IF q.err = "ok" THEN Result(ReadEof(q.conn), "ok", TRUE) ELSE q
        BY <1>0, <2>2, <3>1 DEF Read
      <4> QED
        BY <4>1, <1>4 DEF Result
    <3>2. CASE c.net # "eof"
      BY <1>0, <2>2, <3>2 DEF Read, Result
    <3> QED
      BY <3>1, <3>2
  <2> QED
    BY <2>1, <2>2
<1>6. r.conn.state # "Connecting"
  BY <1>1, <1>2, <1>3, <1>5 DEF Goes, Whole
<1> QED
  BY <1>1, <1>2, <1>3, <1>5, <1>6 DEF Once, ToldOnce

\* write either leaves the connection with what it needs or fails with an I/O error,
\* which ends it.
LEMMA WriteGoes ==
  ASSUME NEW U, NEW I, NEW M, NEW c \in ConnOf(U, I, M), Whole(c), NEW r \in Write(c)
  PROVE  /\ r.conn.state \in {"Open", "AwaitingClose"}
         /\ Goes(c, Fail(r)) /\ Once(c, Fail(r)) /\ Fail(r).poll = c.poll
<1> DEFINE w == [c EXCEPT !.events = @ \ {"w"}]
<1>0. c.state \in {"Open", "AwaitingClose"} /\ c.state # "Connecting" /\ c.state # "FinishedClose"
  BY DEF Whole
<1>1. /\ w \in ConnOf(U, I, M) /\ w.uid = c.uid /\ w.state = c.state /\ w.closes = c.closes
      /\ w.crash = c.crash /\ w.poll = c.poll /\ w.closes >= c.closes
  BY DEF ConnOf, Interests
<1> DEFINE Parts == {Result(CheckEvents([w EXCEPT !.out = left]), "ok", FALSE) : left \in SUBSET c.out}
<1>2. \/ r = Result(w, "Io", FALSE)
      \/ r = Result(w, "Refused", FALSE)
      \/ r \in Parts
  BY <1>0, Zenon DEF Write
<1>3. CASE r = Result(w, "Io", FALSE) \/ r = Result(w, "Refused", FALSE)
  <2>1. r.conn = w /\ Fail(r) = Error(w, "Io")
    BY <1>3 DEF Fail, Result
  <2> HIDE DEF w
  <2>2. PICK d : d = Error(w, "Io")
    OBVIOUS
  <2>3. Goes(w, d) /\ Once(w, d) /\ d.poll = w.poll
    BY <1>0, <1>1, <2>2, IoErrorEnds
  <2> QED
    BY <1>0, <1>1, <2>1, <2>2, <2>3 DEF Goes, Onward, Once, ToldOnce
<1>4. CASE r \in Parts
  <2>1. PICK left \in SUBSET c.out : r = Result(CheckEvents([w EXCEPT !.out = left]), "ok", FALSE)
    BY <1>4
  <2>2. PICK b : b = [w EXCEPT !.out = left]
    OBVIOUS
  <2>3. /\ b \in ConnOf(U, I, M) /\ b.uid = c.uid /\ b.state = c.state /\ b.closes = c.closes
        /\ b.crash = c.crash /\ b.poll = c.poll
    BY <2>2 DEF ConnOf, Interests
  <2>4. r.conn = CheckEvents(b) /\ Fail(r) = r.conn
    <3>1. r = Result(CheckEvents(b), "ok", FALSE)
      BY <2>1, <2>2
    <3> QED
      BY <3>1 DEF Fail, Result
  <2> HIDE DEF w, Parts
  <2>5. Goes(b, r.conn) /\ Steady(b, r.conn) /\ r.conn.closes = b.closes
    BY <1>0, <2>3, <2>4, CheckEventsAsks
  <2> QED
    BY <1>0, <2>3, <2>4, <2>5 DEF Goes, Onward, Whole, Once, ToldOnce, Steady
<1> QED
  BY <1>2, <1>3, <1>4
=============================================================================
