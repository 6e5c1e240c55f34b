------------------------------ MODULE InBuffer ------------------------------
(***************************************************************************)
(* in_buffer of one open connection, byte by byte (src/src/connection.rs,  *)
(* read, buffer_in, read_data; src/src/stream.rs, try_read_buf): what the  *)
(* peer sends is read into a vector and given to on_message as text.       *)
(*                                                                         *)
(* The peer sends one text, whose bytes are numbered 1, 2, ...; between    *)
(* two reads of the socket more of it may arrive.  Of the rest of the      *)
(* connection there is what check_events and a failing call do to it.      *)
(* Error kinds that the settings turn into a panic are left out.           *)
(***************************************************************************)
EXTENDS Integers, Sequences

CONSTANTS
  Capacity,  \* settings.in_buffer_capacity
  Grow,      \* settings.in_buffer_grow
  Reserve,   \* what the vector grows by when it has no room to read into
  Leads,     \* the bytes whose character goes on in the next byte
  MsgErrs,   \* the kinds of error on_message may return
  MaxBytes   \* bound of the model: the length of the text

ASSUME InBufferAssumption ==
  /\ Capacity \in Nat \ {0} /\ Grow \in BOOLEAN /\ Reserve \in Nat \ {0}
  /\ MaxBytes \in Nat /\ Leads \subseteq 1..(MaxBytes - 1)
  /\ MsgErrs \subseteq {"Internal", "Capacity", "Protocol", "Encoding", "Http", "Io",
                        "Custom", "Timer", "Queue"}

VARIABLES
  pc,            \* "idle", or in the loop of buffer_in: "reading"
  sent, fin,     \* the peer's bytes that arrived, its FIN
  taken,         \* how many of them were read from the socket
  vec, pos, cap, \* the vector, the cursor's position, the vector's capacity
  state,         \* "Open", "AwaitingClose", or "lost" once disconnected
  reads, writes, \* events: whether it asks for readable, for writable
  failed,        \* whether the last read, or what disconnected, was an error
  delivered,     \* history: the bytes given to on_message
  garbled,       \* history: a chunk was no text
  empties        \* history: on_message was given an empty message

peer == <<sent, fin>>
events == <<reads, writes>>
history == <<delivered, garbled, empties>>
vars == <<pc, peer, taken, vec, pos, cap, state, events, failed, history>>

TypeOK ==
  /\ pc \in {"idle", "reading"} /\ sent \in Nat /\ fin \in BOOLEAN /\ taken \in Nat
  /\ vec \in Seq(Nat) /\ pos \in Nat /\ cap \in Nat
  /\ state \in {"Open", "AwaitingClose", "lost"}
  /\ reads \in BOOLEAN /\ writes \in BOOLEAN /\ failed \in BOOLEAN
  /\ delivered \in Seq(Nat) /\ garbled \in BOOLEAN /\ empties \in BOOLEAN

Init ==
  /\ pc = "idle" /\ sent = 0 /\ fin = FALSE /\ taken = 0
  /\ vec = <<>> /\ pos = 0 /\ cap = Capacity
  /\ state = "Open" /\ reads = TRUE /\ writes = FALSE /\ failed = FALSE
  /\ delivered = <<>> /\ garbled = FALSE /\ empties = FALSE

Arrive ==
  /\ ~fin
  /\ \/ sent < MaxBytes /\ sent' = sent + 1 /\ UNCHANGED fin
     \/ fin' = TRUE /\ UNCHANGED sent
  /\ UNCHANGED <<pc, taken, vec, pos, cap, state, events, failed, history>>

\* Mutant of Output: only writability is asked for.
OutputUnread ==
  /\ pc = "idle" /\ state # "lost"
  /\ writes' \in BOOLEAN /\ state' \in {state, "AwaitingClose"}
  /\ UNCHANGED <<pc, peer, taken, vec, pos, cap, reads, failed, history>>

\* A message to send, a close or a writable event: all end in check_events.
Output ==
  /\ pc = "idle" /\ state # "lost"
  /\ reads' = TRUE /\ writes' \in BOOLEAN /\ state' \in {state, "AwaitingClose"}
  /\ UNCHANGED <<pc, peer, taken, vec, pos, cap, failed, history>>

\* Writing to the socket or rearming it fails, which disconnects.
Breaks ==
  /\ pc = "idle" /\ state # "lost"
  /\ state' = "lost" /\ failed' = TRUE
  /\ UNCHANGED <<pc, peer, taken, vec, pos, cap, events, history>>

\* Mutant of Readable: a closing connection is not read.
ReadableOpen ==
  /\ pc = "idle" /\ state = "Open" /\ reads
  /\ pc' = "reading"
  /\ UNCHANGED <<peer, taken, vec, pos, cap, state, events, failed, history>>

\* A readable event: for bytes, the end of the stream, an error, or for nothing.
Readable ==
  /\ pc = "idle" /\ state # "lost" /\ reads
  /\ pc' = "reading"
  /\ UNCHANGED <<peer, taken, vec, pos, cap, state, events, failed, history>>

-----------------------------------------------------------------------------
Grown(c, needed) == IF needed <= c THEN c ELSE IF needed > 2 * c THEN needed ELSE 2 * c

\* try_read_buf: a vector without room is given some, and the socket fills what
\* room there is with what has arrived.
RoomyCap == IF Len(vec) = cap THEN Grown(cap, cap + Reserve) ELSE cap
Got == IF sent - taken < RoomyCap - Len(vec) THEN sent - taken ELSE RoomyCap - Len(vec)
Filled == [i \in 1..(Len(vec) + Got) |-> IF i <= Len(vec) THEN vec[i] ELSE taken + (i - Len(vec))]

\* Mutant of IsText: the start of the chunk is not looked at.
IsTextToEnd(chunk) == chunk # <<>> => chunk[Len(chunk)] \notin Leads

\* A chunk of the text is text itself: it starts and ends between two characters.
IsText(chunk) ==
  chunk # <<>> => chunk[1] - 1 \notin Leads /\ chunk[Len(chunk)] \notin Leads

\* error, on an open connection: a kind closes it, disconnects, or is reported only.
Error(kind) ==
  /\ failed' = TRUE
  /\ state' = CASE kind \in {"Http", "Io"} -> "lost"
                [] kind \in {"Custom", "Timer", "Queue"} -> state
                [] OTHER -> "AwaitingClose"

\* The bytes past the cursor, and the mutant that takes them all.
UnreadAll(v, p) == v
Unread(v, p) == SubSeq(v, p + 1, Len(v))

\* read_data on the vector v: the bytes past the cursor are consumed, and given to
\* on_message when they are text.  Then an empty vector, which only the end of the
\* stream leaves, disconnects, or waits for the output to be written.  An error, of
\* the conversion or of on_message, returns before that.
ReadData(v) ==
  LET chunk == Unread(v, pos) IN
  /\ pc' = "idle" /\ vec' = v /\ pos' = Len(v) /\ cap' = RoomyCap
  /\ \/ /\ ~IsText(chunk) /\ garbled' = TRUE /\ Error("Encoding")
        /\ UNCHANGED <<events, delivered, empties>>
     \/ /\ IsText(chunk) /\ delivered' = delivered \o chunk
        /\ empties' = (empties \/ chunk = <<>>)
        /\ \/ \E kind \in MsgErrs : Error(kind) /\ UNCHANGED reads
           \/ /\ failed' = FALSE
              /\ state' = IF v = <<>> /\ ~writes THEN "lost" ELSE state
              /\ reads' = (v = <<>> => ~writes)
        /\ UNCHANGED <<writes, garbled>>

\* Mutants of Rebuild: the cursor stays, or is moved back by the vector's capacity.
RebuildStale ==
  /\ vec' = Unread(Filled, pos) /\ cap' = Grown(RoomyCap, RoomyCap + Capacity)
  /\ UNCHANGED <<pc, pos, state, failed>>
RebuildRelative ==
  /\ vec' = Unread(Filled, pos) /\ cap' = Grown(RoomyCap, RoomyCap + Capacity)
  /\ pos' = pos - RoomyCap
  /\ UNCHANGED <<pc, state, failed>>

\* buffer_in, the vector is full: the bytes past the cursor move to a new one, which
\* grows when they fill it, and the socket is read again.  Without growth it is an
\* error, and the old vector stays.
Rebuild ==
  LET rest == Unread(Filled, pos) IN
  IF Len(rest) = RoomyCap /\ ~Grow
  THEN pc' = "idle" /\ vec' = Filled /\ cap' = RoomyCap /\ Error("Capacity") /\ UNCHANGED pos
  ELSE /\ vec' = rest /\ pos' = 0
       /\ cap' = IF Len(rest) = RoomyCap THEN Grown(RoomyCap, RoomyCap + Capacity) ELSE RoomyCap
       /\ UNCHANGED <<pc, state, failed>>

Full == Len(Filled) = RoomyCap

\* The socket gives bytes that do not fill the vector: they are read.
ReadSome ==
  /\ pc = "reading" /\ Got > 0 /\ ~Full
  /\ taken' = taken + Got /\ ReadData(Filled)
  /\ UNCHANGED peer

ReadFull ==
  /\ pc = "reading" /\ Got > 0 /\ Full
  /\ taken' = taken + Got /\ Rebuild
  /\ UNCHANGED <<peer, events, history>>

\* Mutant of ReadEnd: without new bytes there is nothing to read.
ReadEndEmpty ==
  /\ pc = "reading" /\ Got = 0 /\ fin
  /\ IF vec = <<>> THEN ReadData(vec)
     ELSE pc' = "idle" /\ cap' = RoomyCap
          /\ UNCHANGED <<vec, pos, state, events, failed, history>>
  /\ UNCHANGED <<peer, taken>>

\* The end of the stream.
ReadEnd ==
  /\ pc = "reading" /\ Got = 0 /\ fin
  /\ ReadData(vec)
  /\ UNCHANGED <<peer, taken>>

\* Nothing more for now: what is in the vector waits for the next event.
ReadBlocks ==
  /\ pc = "reading" /\ Got = 0 /\ ~fin
  /\ pc' = "idle" /\ cap' = RoomyCap /\ failed' = FALSE
  /\ UNCHANGED <<peer, taken, vec, pos, state, events, history>>

\* The socket cannot be read: the peer reset it, or another error.
ReadFails ==
  /\ pc = "reading"
  /\ pc' = "idle" /\ cap' = RoomyCap /\ Error("Io")
  /\ UNCHANGED <<peer, taken, vec, pos, events, history>>

LoopStep == Readable \/ ReadSome \/ ReadFull \/ ReadEnd \/ ReadBlocks \/ ReadFails
Next == Arrive \/ Output \/ Breaks \/ LoopStep \/ (state = "lost" /\ UNCHANGED vars)

Spec == Init /\ [][Next]_vars

\* The loop's thread goes on handling the events of the connection.
FairSpec == Spec /\ WF_vars(LoopStep)

-----------------------------------------------------------------------------
\* The input implements the channel: on_message is given the bytes of the peer in
\* order and none twice, and none is left out before a chunk that is no text.
\* (buffer_in, read_data)
Channel == INSTANCE ByteChannel WITH accepted <- sent, refused <- garbled
ChannelSpec == Channel!Spec

\* Rebuilding the vector loses and repeats no byte: it ends with the bytes last
\* taken, and those past the cursor are the ones not delivered yet.  (buffer_in)
NothingLost ==
  /\ pos <= Len(vec) /\ Len(vec) <= cap /\ taken <= sent
  /\ \A i \in (pos + 1)..Len(vec) : vec[i] = taken - Len(vec) + i
  /\ ~garbled => Len(delivered) + (Len(vec) - pos) = taken

\* on_message is never given half a character, also after a chunk was refused:
\* the rest of a character that was cut is refused with it.  (read_data)
WholeCharacters ==
  \A i \in DOMAIN delivered :
    /\ delivered[i] \in Leads => i < Len(delivered) /\ delivered[i + 1] = delivered[i] + 1
    /\ delivered[i] - 1 \in Leads => i > 1 /\ delivered[i - 1] = delivered[i] - 1

\* A peer that closes without having sent anything is disconnected once there is no
\* output for it, however often the end was read while there was some, unless the
\* handler goes on failing on what it is told.  (read, check_events)
EmptyStreamEnds ==
  <>[](fin /\ sent = 0 /\ ~writes) => <>(state = "lost") \/ []<>failed

\* At the end of the stream nothing is withheld any more: what arrived was given to
\* on_message, unless a chunk was no text or an error disconnected.  (read, buffer_in)
AllAtEnd ==
  \A n \in 1..MaxBytes :
    (fin /\ sent >= n) ~> (Len(delivered) >= n \/ garbled \/ (state = "lost" /\ failed))

\* on_message is called on incoming messages only: never with nothing.
\* (handler.rs, on_message)
NoEmptyMessage == ~empties

\* Every byte of a text that arrived is given to on_message in the end.
\* (handler.rs, on_message)
AllDelivered ==
  \A n \in 1..MaxBytes : sent >= n ~> (Len(delivered) >= n \/ garbled \/ state = "lost")
=============================================================================
