----------------------------- MODULE OutBuffer -----------------------------
(***************************************************************************)
(* out_buffer of one open connection, byte by byte (src/src/connection.rs, *)
(* send_message, check_buffer_out, write, check_events, send_close): a     *)
(* cursor over a vector.  Appending goes to the end of the vector, writing *)
(* advances the cursor, and the written bytes are dropped only when the    *)
(* vector would be full.                                                   *)
(***************************************************************************)
EXTENDS Integers, Sequences

CONSTANTS
  Capacity,  \* settings.out_buffer_capacity
  Grow,      \* settings.out_buffer_grow
  Sizes,     \* sizes of the messages
  MaxBytes   \* bound of the model: bytes ever accepted

ASSUME BufferAssumption ==
  /\ Capacity \in Nat \ {0} /\ Grow \in BOOLEAN
  /\ Sizes \subseteq Nat /\ MaxBytes \in Nat

VARIABLES
  vec, pos, cap,  \* the vector, the cursor's position, the vector's capacity
  writable,       \* events holds the writable interest
  closing,        \* state is AwaitingClose
  broken,         \* a write failed: the connection is disconnected
  accepted,       \* history: bytes accepted by send_message, numbered 1, 2, ...
  wire            \* history: the bytes written to the socket

vars == <<vec, pos, cap, writable, closing, broken, accepted, wire>>

TypeOK ==
  /\ vec \in Seq(Nat) /\ pos \in Nat /\ cap \in Nat
  /\ writable \in BOOLEAN /\ closing \in BOOLEAN /\ broken \in BOOLEAN
  /\ accepted \in Nat /\ wire \in Seq(Nat)

Init ==
  /\ vec = <<>> /\ pos = 0 /\ cap = Capacity
  /\ writable = FALSE /\ closing = FALSE /\ broken = FALSE
  /\ accepted = 0 /\ wire = <<>>

\* A buffer: the three parts of the cursor.
Buffer(v, p, c) == [vec |-> v, pos |-> p, cap |-> c]
Unsent == Len(vec) - pos

\* Vec::reserve grows to twice the capacity or to what is needed.
Grown(c, needed) == IF needed <= c THEN c ELSE IF needed > 2 * c THEN needed ELSE 2 * c

\* Mutants of Compacted: it keeps what was written; its cursor is counted from the end.
CompactedAll == Buffer(vec, 0, cap)
CompactedRelative == Buffer(SubSeq(vec, pos + 1, Len(vec)), -pos, cap)

\* The buffer without what was written already.
Compacted == Buffer(SubSeq(vec, pos + 1, Len(vec)), 0, cap)

\* Mutant of CheckBufferOut: it grows before the written bytes are dropped.
CheckBufferOutEager(n) ==
  IF cap <= Len(vec) + n THEN Buffer(vec, pos, Grown(cap, cap + Capacity))
  ELSE Buffer(vec, pos, cap)

\* check_buffer_out: the buffer to append n bytes to, unless it is full.
Full(n) == cap <= Len(vec) + n
Refused(n) == Full(n) /\ Unsent = cap /\ ~Grow
CheckBufferOut(n) ==
  IF ~Full(n) THEN Buffer(vec, pos, cap)
  ELSE [Compacted EXCEPT !.cap = IF Unsent = cap THEN Grown(cap, Unsent + Capacity) ELSE cap]

\* The vector with n new bytes, which bear the next numbers.
Extended(v, n) == [i \in 1..(Len(v) + n) |-> IF i <= Len(v) THEN v[i] ELSE accepted + (i - Len(v))]

\* Mutant of Written: the position is read after the seek to the end.
WrittenFromEnd(b, n) == Buffer(Extended(b.vec, n), Len(b.vec), Grown(b.cap, Len(b.vec) + n))

\* Cursor::write at the end of the vector, the position restored afterwards.
Written(b, n) == Buffer(Extended(b.vec, n), b.pos, Grown(b.cap, Len(b.vec) + n))

\* Mutants of Interested: never interested, still interested when all is written.
NeverInterested(before, v, p) == before
StillInterested(before, v, p) == before \/ p <= Len(v)

\* check_events: interest in writability while bytes are left, else as before.
Interested(before, v, p) == before \/ p < Len(v)

-----------------------------------------------------------------------------
\* send_message of n bytes.
Send(n) ==
  /\ ~closing /\ ~broken /\ ~Refused(n)
  /\ accepted + n <= MaxBytes
  /\ LET b == Written(CheckBufferOut(n), n) IN
       /\ vec' = b.vec /\ pos' = b.pos /\ cap' = b.cap
       /\ writable' = Interested(writable, b.vec, b.pos)
  /\ accepted' = accepted + n
  /\ UNCHANGED <<closing, broken, wire>>

\* The buffer is full and may not grow: a Capacity error, which starts closing.
Refuse(n) ==
  /\ ~closing /\ ~broken /\ Refused(n)
  /\ closing' = TRUE /\ writable' = Interested(writable, vec, pos)
  /\ UNCHANGED <<vec, pos, cap, broken, accepted, wire>>

\* send_close: from now on messages are ignored, and what is left is still written.
Close ==
  /\ ~closing /\ ~broken
  /\ closing' = TRUE /\ writable' = Interested(writable, vec, pos)
  /\ UNCHANGED <<vec, pos, cap, broken, accepted, wire>>

\* write, on a writable event: the socket takes k bytes, 0 when it would block.
Write(k) ==
  /\ writable /\ ~broken /\ k <= Unsent
  /\ wire' = wire \o SubSeq(vec, pos + 1, pos + k)
  /\ pos' = pos + k
  /\ writable' = Interested(FALSE, vec, pos')
  /\ UNCHANGED <<vec, cap, closing, broken, accepted>>

\* write fails: the error disconnects.
Fail ==
  /\ writable /\ ~broken
  /\ broken' = TRUE /\ writable' = FALSE
  /\ UNCHANGED <<vec, pos, cap, closing, accepted, wire>>

Next ==
  \/ \E n \in Sizes : Send(n) \/ Refuse(n)
  \/ Close
  \/ \E k \in 0..Unsent : Write(k)
  \/ Fail
  \/ ~writable /\ (closing \/ broken \/ accepted = MaxBytes) /\ UNCHANGED vars

Spec == Init /\ [][Next]_vars

\* A socket armed for writing gets an event and takes something, sooner or later.
FairSpec == Spec /\ WF_vars(\E k \in 1..Unsent : Write(k))

-----------------------------------------------------------------------------
\* The output implements the channel: what went to the wire is a prefix of what
\* was accepted, in order.  (send_message, check_buffer_out, write)
Channel == INSTANCE ByteChannel WITH delivered <- wire, refused <- FALSE
ChannelSpec == Channel!Spec

\* The bytes on the wire followed by the rest of the vector are the bytes accepted:
\* rebuilding the vector loses and repeats none.  (check_buffer_out)
NothingLost ==
  /\ wire = Channel!Stream(Len(wire))
  /\ pos <= Len(vec) /\ Len(vec) <= cap
  /\ accepted = Len(wire) + Unsent
  /\ \A i \in (pos + 1)..Len(vec) : vec[i] = Len(wire) + (i - pos)

\* The loop asks for writability exactly while bytes are left: it is neither
\* stalled nor spinning.  (check_events; the comments of write)
WriteInterest == ~broken => (writable <=> Unsent > 0)

\* The vector grows only when the bytes that are not written, with the new ones,
\* fill it: written bytes never take memory for good.  (check_buffer_out)
GrowsOnlyWhenFull == [][cap' > cap => Unsent + (accepted' - accepted) >= cap]_vars

\* Every accepted byte is written in the end, unless the connection breaks, also
\* after it started closing.  (write, check_events)
AllWritten == \A n \in 1..MaxBytes : accepted >= n ~> (Len(wire) >= n \/ broken)
=============================================================================
