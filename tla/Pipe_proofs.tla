---------------------------- MODULE Pipe_proofs ----------------------------
(***************************************************************************)
(* Proofs about Pipe, for every capacity, window and cutting of the bytes: *)
(* the conservation of the bytes between the two endpoints, and that the   *)
(* two buffers and the network are one channel from send_message to the    *)
(* peer's on_message.  They rest on the invariants of the two buffers,     *)
(* proved in OutBuffer_proofs and InBuffer_proofs and instantiated here.   *)
(***************************************************************************)
EXTENDS Pipe, TLAPS

OutP == INSTANCE OutBuffer_proofs WITH
  Capacity <- OutCapacity, Grow <- OutGrow, vec <- outVec, pos <- outPos, cap <- outCap

InP == INSTANCE InBuffer_proofs WITH
  Capacity <- InCapacity, Grow <- InGrow, vec <- inVec, pos <- inPos, cap <- inCap

\* What is under way: the network hands over only what was written, and the sockets
\* hold no more than their window.
Flow ==
  /\ sent <= Len(wire)
  /\ Len(wire) - taken <= Window

\* The inductive invariant: that of both buffers, and what is between them.
IInv == OutP!IInv /\ InP!IInv /\ Flow

LEMMA Assumptions == OutP!BufferAssumption /\ InP!InBufferAssumption
BY PipeAssumption DEF OutP!BufferAssumption, InP!InBufferAssumption

\* The two ways to name the same instance.
LEMMA SameOut ==
  /\ Out!Unsent = OutP!Unsent
  /\ \A n : Out!Send(n) = OutP!Send(n) /\ Out!Refuse(n) = OutP!Refuse(n)
  /\ Out!Close = OutP!Close
  /\ \A k : Out!Write(k) = OutP!Write(k)
  /\ Out!Fail = OutP!Fail
BY DEF Out!Unsent, OutP!Unsent, Out!Send, OutP!Send, Out!Refuse, OutP!Refuse, Out!Close, OutP!Close,
       Out!Write, OutP!Write, Out!Fail, OutP!Fail, Out!Refused, OutP!Refused, Out!Full, OutP!Full,
       Out!Written, OutP!Written, Out!CheckBufferOut, OutP!CheckBufferOut, Out!Interested,
       OutP!Interested, Out!Compacted, OutP!Compacted, Out!Buffer, OutP!Buffer,
       Out!Extended, OutP!Extended, Out!Grown, OutP!Grown

LEMMA SameIn == In!LoopStep = InP!LoopStep
BY DEF In!LoopStep, InP!LoopStep, In!Readable, InP!Readable, In!ReadSome, InP!ReadSome,
       In!ReadFull, InP!ReadFull, In!ReadEnd, InP!ReadEnd, In!ReadBlocks, InP!ReadBlocks,
       In!ReadData, InP!ReadData, In!Rebuild, InP!Rebuild, In!Unread, InP!Unread,
       In!IsText, InP!IsText, In!Error, InP!Error, In!Filled, InP!Filled, In!Got, InP!Got,
       In!RoomyCap, InP!RoomyCap, In!Grown, InP!Grown, In!Full, InP!Full, In!peer, InP!peer,
       In!ReadFails, InP!ReadFails, In!events, InP!events, In!history, InP!history

LEMMA SameOutput == In!Output = InP!Output
BY DEF In!Output, InP!Output, In!peer, InP!peer, In!history, InP!history

\* The invariants in numbers.
LEMMA Numbers ==
  ASSUME IInv
  PROVE  /\ Len(wire) \in Nat /\ accepted \in Nat /\ Out!Unsent \in Nat
         /\ accepted = Len(wire) + Out!Unsent
         /\ sent \in Nat /\ taken \in Nat /\ taken <= sent /\ sent <= accepted
         /\ Len(delivered) \in Nat
<1>1. /\ Len(wire) \in Nat /\ accepted \in Nat /\ OutP!Unsent \in Nat
      /\ accepted = Len(wire) + OutP!Unsent
  <2>1. /\ wire \in Seq(Nat) /\ accepted \in Nat /\ outVec \in Seq(Nat) /\ outPos \in Nat
        /\ outPos <= Len(outVec) /\ accepted = Len(wire) + OutP!Unsent
    BY DEF IInv, OutP!IInv, OutP!TypeOK, OutP!NothingLost
  <2> QED
    BY <2>1 DEF OutP!Unsent
<1>2. sent \in Nat /\ taken \in Nat /\ taken <= sent /\ Len(delivered) \in Nat
  BY InP!Numbers, Assumptions DEF IInv
<1>3. sent <= accepted
  BY <1>1, <1>2 DEF IInv, Flow
<1> QED
  BY <1>1, <1>2, <1>3, SameOut
-----------------------------------------------------------------------------
(* The steps *)

\* A step of the sender's buffer keeps its invariant; the wire only gets longer.
LEMMA OutStep ==
  ASSUME IInv, OutP!Next
  PROVE  OutP!IInv'
BY OutP!Inductive, Assumptions DEF IInv

LEMMA OutStill ==
  ASSUME OutP!IInv, UNCHANGED outVars
  PROVE  OutP!IInv'
BY DEF outVars, OutP!IInv, OutP!TypeOK, OutP!NothingLost, OutP!WriteInterest, OutP!Unsent,
       OutP!Channel!Stream

LEMMA InStill ==
  ASSUME InP!IInv, UNCHANGED <<net, inVars>>
  PROVE  InP!IInv'
BY DEF net, inVars, InP!IInv, InP!TypeOK, InP!NothingLost, InP!WholeCharacters, InP!InOrder,
       InP!Consumed, InP!Channel!Last, InP!Channel!Stream

LEMMA SendStep ==
  ASSUME IInv, Send
  PROVE  IInv' /\ accepted' \in Nat /\ accepted' >= accepted /\ UNCHANGED <<delivered, garbled>>
<1>1. UNCHANGED <<net, inVars, wire>>
  BY DEF Send, Out!Send, Out!Refuse, Out!Close
<1>2. OutP!Next
  BY SameOut DEF Send, OutP!Next
<1>3. accepted' \in Nat /\ accepted' >= accepted
  <2>1. CASE UNCHANGED accepted
    BY <2>1, Numbers
  <2>2. ASSUME NEW n \in Sizes, accepted' = accepted + n
        PROVE  accepted' \in Nat /\ accepted' >= accepted
    <3>1. n \in Nat
      BY PipeAssumption
    <3> QED
      BY <2>2, <3>1, Numbers
  <2> QED
    BY <2>1, <2>2 DEF Send, Out!Send, Out!Refuse, Out!Close
<1>4. Flow'
  BY <1>1 DEF IInv, Flow, net, inVars
<1> QED
  BY <1>1, <1>2, <1>3, <1>4, OutStep, InStill DEF IInv, inVars

LEMMA WriteStep ==
  ASSUME IInv, Write
  PROVE  IInv' /\ UNCHANGED <<accepted, delivered, garbled>>
<1>1. PICK k \in 0..Out!Unsent : Len(wire) + k - taken <= Window /\ Out!Write(k)
  BY DEF Write
<1>2. UNCHANGED <<net, inVars, accepted>>
  BY <1>1 DEF Write, Out!Write
<1>3. k \in 0..OutP!Unsent /\ OutP!Write(k) /\ OutP!Next
  BY <1>1, SameOut DEF OutP!Next
<1>4. Len(wire') = Len(wire) + k
  BY <1>3, OutP!WireStep, Assumptions DEF IInv
<1>5. Flow'
  <2>1. k \in Nat /\ Len(wire) \in Nat /\ sent \in Nat /\ taken \in Nat
    BY <1>1, Numbers
  <2>2. sent' = sent /\ taken' = taken
    BY <1>2 DEF net, inVars
  <2> QED
    BY <1>1, <1>4, <2>1, <2>2 DEF IInv, Flow
<1> QED
  BY <1>2, <1>3, <1>5, OutStep, InStill DEF IInv, inVars

\* One of the ends goes away.
LEMMA EndsStep ==
  ASSUME IInv, WriteFails \/ Drop \/ Leave
  PROVE  IInv' /\ UNCHANGED <<accepted, delivered, garbled>>
<1>1. UNCHANGED <<sent, fin, taken, wire, accepted, delivered, garbled, inVec, inPos, inCap, empties>>
  BY DEF WriteFails, Drop, Leave, Out!Fail, net, inVars, outVars
<1>2. Flow'
  BY <1>1 DEF IInv, Flow
<1>3. CASE WriteFails
  <2>1. OutP!Next
    BY <1>3, SameOut DEF WriteFails, OutP!Next
  <2> QED
    BY <1>1, <1>2, <1>3, <2>1, OutStep, InStill DEF WriteFails, IInv
<1>4. CASE Drop
  <2>1. OutP!IInv'
    BY <1>4 DEF Drop, IInv, OutP!IInv, OutP!TypeOK, OutP!NothingLost, OutP!WriteInterest,
                OutP!Unsent, OutP!Channel!Stream
  <2> QED
    BY <1>1, <1>2, <1>4, <2>1, InStill DEF Drop, IInv
<1>5. CASE Leave
  <2>1. sent \in Nat /\ sent' >= sent /\ inCap \in Nat /\ inCap' >= inCap /\ fin \in BOOLEAN
    BY <1>1, Numbers DEF IInv, InP!IInv, InP!TypeOK
  <2>2. /\ pc' \in {"idle", "reading"} /\ state' \in {"Open", "AwaitingClose", "lost"}
        /\ reads' \in BOOLEAN /\ writes' \in BOOLEAN /\ failed' \in BOOLEAN
    BY <1>5 DEF Leave, IInv, InP!IInv, InP!TypeOK
  <2>3. InP!IInv'
    BY <1>1, <2>1, <2>2, InP!StillStep, Assumptions DEF IInv
  <2> QED
    BY <1>1, <1>2, <1>5, <2>3, OutStill DEF Leave, IInv
<1> QED
  BY <1>3, <1>4, <1>5

LEMMA CarryStep ==
  ASSUME IInv, Carry \/ CarryEnd
  PROVE  IInv' /\ UNCHANGED <<accepted, delivered, garbled>>
<1>1. UNCHANGED <<outVars, inVars>>
  BY DEF Carry, CarryEnd
<1>2. sent' \in Nat /\ sent' >= sent /\ sent' <= Len(wire)
  <2>1. CASE sent' = sent
    BY <2>1, Numbers DEF IInv, Flow
  <2>2. CASE sent' = sent + 1 /\ sent < Len(wire)
    BY <2>2, Numbers
  <2> QED
    BY <2>1, <2>2 DEF Carry, CarryEnd
<1>3. fin' \in BOOLEAN /\ pc \in {"idle", "reading"} /\ state \in {"Open", "AwaitingClose", "lost"}
  BY DEF Carry, CarryEnd, IInv, InP!IInv, InP!TypeOK
<1>4. inCap \in Nat /\ inCap' >= inCap
  BY <1>1 DEF inVars, IInv, InP!IInv, InP!TypeOK
<1>5. reads' \in BOOLEAN /\ writes' \in BOOLEAN /\ failed' \in BOOLEAN
  BY <1>1 DEF inVars, IInv, InP!IInv, InP!TypeOK
<1>6. InP!IInv'
  BY <1>1, <1>2, <1>3, <1>4, <1>5, InP!StillStep, Assumptions DEF IInv, inVars
<1>7. Flow'
  BY <1>1, <1>2 DEF IInv, Flow, outVars, inVars
<1> QED
  BY <1>1, <1>6, <1>7, OutStill DEF IInv, outVars, inVars

LEMMA ReplyStep ==
  ASSUME IInv, Reply
  PROVE  IInv' /\ UNCHANGED <<accepted, delivered, garbled>>
<1>1. InP!Output /\ UNCHANGED outVars
  BY SameOutput DEF Reply
<1>2. UNCHANGED <<sent, taken, wire, accepted, delivered, garbled>>
  BY <1>1 DEF InP!Output, InP!peer, InP!history, outVars
<1>3. InP!IInv'
  BY <1>1, InP!OutputStep, Assumptions DEF IInv
<1>4. Flow'
  BY <1>2 DEF IInv, Flow
<1> QED
  BY <1>1, <1>2, <1>3, <1>4, OutStill DEF IInv

\* What a step of the reader's loop is to the channel from end to end.
Channelled ==
  \/ EndToEnd!Deliver \/ EndToEnd!DeliverOn \/ EndToEnd!Refuse
  \/ UNCHANGED <<accepted, delivered, garbled>>

LEMMA ReadStep ==
  ASSUME IInv, Read
  PROVE  IInv' /\ Channelled
<1>1. InP!IInv' /\ InP!Channelled
  BY InP!LoopInductive, Assumptions, SameIn DEF Read, IInv
<1>2. UNCHANGED outVars /\ UNCHANGED net
  BY DEF Read, In!LoopStep, In!Readable, In!ReadSome, In!ReadFull, In!ReadEnd, In!ReadBlocks,
         In!ReadFails, In!peer, net
<1>3. taken' \in Nat /\ taken' >= taken
  <2>1. taken \in Nat /\ InP!Got \in Nat
    BY Numbers, InP!FilledProperties, Assumptions DEF IInv
  <2>2. taken' = taken \/ taken' = taken + InP!Got
    BY SameIn DEF Read, InP!LoopStep, InP!Readable, InP!ReadSome, InP!ReadFull, InP!ReadEnd,
                  InP!ReadBlocks, InP!ReadFails
  <2> QED
    BY <2>1, <2>2
<1>4. Flow'
  <2>1. Len(wire) - taken <= Window /\ sent <= Len(wire) /\ Len(wire) \in Nat /\ taken \in Nat
    BY Numbers DEF IInv, Flow
  <2>2. sent' = sent /\ wire' = wire
    BY <1>2 DEF outVars, net
  <2>3. Window \in Nat
    BY PipeAssumption
  <2> QED
    BY <1>3, <2>1, <2>2, <2>3 DEF Flow
<1>5. Channelled
  <2>1. accepted' = accepted /\ sent' = sent /\ sent \in Nat /\ accepted \in Nat /\ sent <= accepted
    BY <1>2, Numbers DEF outVars, net
  <2>2. CASE InP!Channel!Deliver
    <3>1. PICK n \in Len(delivered)..sent : delivered' = EndToEnd!Stream(n)
      BY <2>2 DEF InP!Channel!Deliver, InP!Channel!Stream, EndToEnd!Stream
    <3>2. n \in Len(delivered)..accepted
      BY <2>1, <3>1, Numbers
    <3> QED
      BY <2>1, <2>2, <3>1, <3>2 DEF Channelled, InP!Channel!Deliver, EndToEnd!Deliver
  <2>3. CASE InP!Channel!DeliverOn
    <3>1. PICK a \in (EndToEnd!Last + 1)..sent, b \in (EndToEnd!Last + 1)..sent :
            delivered' = delivered \o EndToEnd!Part(a, b)
      BY <2>3 DEF InP!Channel!DeliverOn, InP!Channel!Part, EndToEnd!Part,
                  InP!Channel!Last, EndToEnd!Last
    <3>2. EndToEnd!Last \in Int
      BY Numbers DEF IInv, InP!IInv, InP!TypeOK, EndToEnd!Last
    <3>3. a \in (EndToEnd!Last + 1)..accepted /\ b \in (EndToEnd!Last + 1)..accepted
      BY <2>1, <3>1, <3>2
    <3> QED
      BY <2>1, <2>3, <3>1, <3>3 DEF Channelled, InP!Channel!DeliverOn, EndToEnd!DeliverOn
  <2>4. CASE InP!Channel!Refuse \/ UNCHANGED <<delivered, garbled>>
    BY <2>1, <2>4 DEF Channelled, InP!Channel!Refuse, EndToEnd!Refuse
  <2> QED
    BY <1>1, <2>2, <2>3, <2>4 DEF InP!Channelled
<1> QED
  BY <1>1, <1>2, <1>4, <1>5, OutStill DEF IInv
LEMMA Initially == Init => IInv
<1>1. ASSUME Init PROVE OutP!IInv /\ InP!IInv
  <2>1. OutP!Init /\ InP!Init
    BY <1>1 DEF Init, Out!Init, OutP!Init, In!Init, InP!Init
  <2> QED
    BY <2>1, OutP!Initially, InP!Initially, Assumptions
<1>2. ASSUME Init PROVE Flow
  <2>1. sent = 0 /\ taken = 0 /\ Len(wire) = 0
    BY <1>2 DEF Init, Out!Init, In!Init
  <2> QED
    BY <2>1, PipeAssumption DEF Flow
<1> QED
  BY <1>1, <1>2 DEF IInv

LEMMA Inductive == IInv /\ [Next]_vars => IInv' /\ (EndToEnd!Accept \/ Channelled)
<1> SUFFICES ASSUME IInv, [Next]_vars PROVE IInv' /\ (EndToEnd!Accept \/ Channelled)
  OBVIOUS
<1>1. CASE UNCHANGED vars
  <2>1. UNCHANGED <<net, inVars>> /\ UNCHANGED outVars
    BY <1>1 DEF vars
  <2>2. Flow'
    BY <2>1 DEF IInv, Flow, outVars, net, inVars
  <2> QED
    BY <2>1, <2>2, OutStill, InStill DEF IInv, Channelled, outVars, inVars
<1>2. CASE Send
  BY <1>2, SendStep DEF EndToEnd!Accept
<1>3. CASE Write \/ WriteFails \/ Drop \/ Leave \/ Reply \/ Carry \/ CarryEnd
  BY <1>3, WriteStep, EndsStep, ReplyStep, CarryStep DEF Channelled
<1>4. CASE Read
  BY <1>4, ReadStep
<1> QED
  BY <1>1, <1>2, <1>3, <1>4 DEF Next, Quiet

-----------------------------------------------------------------------------
(* The theorems *)

\* The invariant holds in every behaviour.
THEOREM Invariance == Spec => []IInv
BY Initially, Inductive, PTL DEF Spec

\* No byte is in two places and none has vanished, on the whole way from send_message
\* to on_message.  (connection.rs, check_buffer_out, write, buffer_in, read_data)
THEOREM BytesAreConserved == Spec => []Conserved
<1>1. IInv => Conserved
  <2> SUFFICES ASSUME IInv PROVE Conserved
    OBVIOUS
  <2>1. /\ Len(wire) \in Nat /\ Out!Unsent \in Nat /\ accepted = Len(wire) + Out!Unsent
        /\ taken \in Nat /\ taken <= sent /\ Len(delivered) \in Nat
    BY Numbers
  <2>2. ASSUME ~garbled
        PROVE  accepted = Out!Unsent + (Len(wire) - taken) + (Len(inVec) - inPos) + Len(delivered)
    <3>1. Len(delivered) + (Len(inVec) - inPos) = taken
      BY <2>2 DEF IInv, InP!IInv, InP!NothingLost
    <3>2. Len(inVec) \in Nat /\ inPos \in Nat
      BY InP!Numbers, Assumptions DEF IInv
    <3> QED
      BY <2>1, <3>1, <3>2
  <2> QED
    BY <2>1, <2>2 DEF Conserved, IInv, Flow
<1> QED
  BY <1>1, Invariance, PTL

\* End to end the buffers and the network are one channel: on_message is given what
\* send_message accepted, in order and none twice, without gaps until a chunk is
\* refused, also when one end goes away.
\* (connection.rs, send_message, write, buffer_in, read_data)
THEOREM EndToEndRefinement == Spec => EndToEndSpec
<1>1. Init => EndToEnd!Init
  BY DEF Init, Out!Init, In!Init, EndToEnd!Init
<1>2. IInv /\ [Next]_vars =>
        [EndToEnd!Accept \/ EndToEnd!Deliver \/ EndToEnd!DeliverOn \/ EndToEnd!Refuse]_<<accepted, delivered, garbled>>
  BY Inductive DEF Channelled
<1> QED
  BY <1>1, <1>2, Invariance, PTL DEF Spec, EndToEndSpec, EndToEnd!Spec
=============================================================================
