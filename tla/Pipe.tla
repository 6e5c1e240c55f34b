-------------------------------- MODULE Pipe --------------------------------
(***************************************************************************)
(* One direction between two connected endpoints: the out_buffer of one    *)
(* side (OutBuffer), the bytes under way in the kernel and the network,    *)
(* and the in_buffer of the other side (InBuffer).  Every message is       *)
(* appended to the same bytes: nothing of the library marks where one ends *)
(* (src/src/message.rs, into_data; src/src/connection.rs).                 *)
(*                                                                         *)
(* The sides are two threads, or processes, with a loop each.  The kernel  *)
(* holds at most Window bytes that the reader has not taken.               *)
(***************************************************************************)
EXTENDS Integers, Sequences

CONSTANTS
  OutCapacity, OutGrow,        \* the sender's settings for out_buffer
  InCapacity, InGrow, Reserve, \* the reader's for in_buffer, see InBuffer
  Sizes,                       \* sizes of the messages
  Leads,                       \* the bytes whose character goes on in the next byte
  MsgErrs,                     \* the kinds of error the reader's on_message may return
  Window,                      \* bytes the two sockets hold
  MaxBytes                     \* bound of the model: bytes ever sent

ASSUME PipeAssumption ==
  /\ OutCapacity \in Nat \ {0} /\ OutGrow \in BOOLEAN
  /\ InCapacity \in Nat \ {0} /\ InGrow \in BOOLEAN /\ Reserve \in Nat \ {0}
  /\ Sizes \subseteq Nat /\ MaxBytes \in Nat /\ Leads \subseteq 1..(MaxBytes - 1)
  /\ MsgErrs \subseteq {"Internal", "Capacity", "Protocol", "Encoding", "Http", "Io",
                        "Custom", "Timer", "Queue"}
  /\ Window \in Nat \ {0}

VARIABLES
  outVec, outPos, outCap, writable, closing, broken, accepted, wire,
  pc, sent, fin, taken, inVec, inPos, inCap, state, reads, writes, failed,
  delivered, garbled, empties

outVars == <<outVec, outPos, outCap, writable, closing, broken, accepted, wire>>
net == <<sent, fin>>
inVars == <<pc, taken, inVec, inPos, inCap, state, reads, writes, failed,
            delivered, garbled, empties>>
vars == <<outVars, net, inVars>>

Out == INSTANCE OutBuffer WITH
  Capacity <- OutCapacity, Grow <- OutGrow, vec <- outVec, pos <- outPos, cap <- outCap

In == INSTANCE InBuffer WITH
  Capacity <- InCapacity, Grow <- InGrow, vec <- inVec, pos <- inPos, cap <- inCap

Init == Out!Init /\ In!Init

-----------------------------------------------------------------------------
\* A message is sent, refused, or the sender starts closing.
Send ==
  /\ (\E n \in Sizes : Out!Send(n) \/ Out!Refuse(n)) \/ Out!Close
  /\ UNCHANGED <<net, inVars>>

\* The socket takes what it has room for.
Write ==
  /\ \E k \in 0..Out!Unsent : Len(wire) + k - taken <= Window /\ Out!Write(k)
  /\ UNCHANGED <<net, inVars>>

\* The reader's end is gone: its loop released the connection, and writing fails.
WriteFails == state = "lost" /\ Out!Fail /\ UNCHANGED <<net, inVars>>

\* The sender's loop ends (a shutdown, a panic) and closes its socket.  What is unsent
\* stays in out_buffer and is never written: it is lost with it.
Drop ==
  /\ ~broken /\ broken' = TRUE /\ writable' = FALSE
  /\ UNCHANGED <<outVec, outPos, outCap, closing, accepted, wire, net, inVars>>

\* The reader's end goes away, for a reason of its own.
Leave ==
  /\ state # "lost" /\ state' = "lost" /\ pc' = "idle"
  /\ UNCHANGED <<taken, inVec, inPos, inCap, reads, writes, failed, delivered, garbled, empties,
                 net, outVars>>

\* The reader sends something the other way, or begins to close.
Reply == In!Output /\ UNCHANGED outVars

\* The network hands over a byte, in order, and the end of the stream after the last.
Carry == sent < Len(wire) /\ ~fin /\ sent' = sent + 1 /\ UNCHANGED <<fin, outVars, inVars>>
CarryEnd == broken /\ sent = Len(wire) /\ ~fin /\ fin' = TRUE /\ UNCHANGED <<sent, outVars, inVars>>

\* A step of the reader's loop.
Read == In!LoopStep /\ UNCHANGED outVars

\* Nothing is left to do.
Quiet ==
  /\ state = "lost" \/ (sent = taken /\ sent = Len(wire) /\ ~fin /\ ~writable)
  /\ UNCHANGED vars

Next == Send \/ Write \/ WriteFails \/ Drop \/ Leave \/ Reply \/ Carry \/ CarryEnd \/ Read \/ Quiet

Spec == Init /\ [][Next]_vars

\* Both loops run on and the network carries on; the sender's socket takes at least a
\* byte when there is room in it.
WriteSome == Write /\ outPos' > outPos
FairSpec ==
  /\ Spec /\ WF_vars(WriteSome) /\ WF_vars(Carry) /\ WF_vars(CarryEnd) /\ WF_vars(Read)

-----------------------------------------------------------------------------
\* End to end the two buffers and the network are one channel: the peer's on_message is
\* given what send_message accepted, in order and none twice, and without gaps before
\* a chunk is refused.  (connection.rs, send_message, write, buffer_in, read_data)
EndToEnd == INSTANCE ByteChannel WITH refused <- garbled
EndToEndSpec == EndToEnd!Spec

\* No byte is in two places and none has vanished: what was accepted is in the sender's
\* buffer (lost with it once the sender is gone), under way, in the reader's buffer past
\* its cursor, or was delivered or refused.  (check_buffer_out, buffer_in)
Conserved ==
  /\ taken <= sent /\ sent <= Len(wire) /\ Len(wire) - taken <= Window
  /\ ~garbled => accepted = Out!Unsent + (Len(wire) - taken) + (Len(inVec) - inPos) + Len(delivered)

\* Every accepted byte comes as far as the reader's in_buffer, also while one side or
\* both are closing, unless one side goes away.  (write, check_events, buffer_in)
Arrives == \A n \in 1..MaxBytes : accepted >= n ~> (taken >= n \/ broken \/ state = "lost")

\* Once the sender is gone, the reader's handler gets every byte that was written,
\* unless the reader goes away too.  (read, buffer_in)
WrittenArrives ==
  \A n \in 1..MaxBytes :
    (broken /\ Len(wire) >= n) ~> (Len(delivered) >= n \/ garbled \/ state = "lost")
=============================================================================
