-------------------------- MODULE OutBuffer_proofs --------------------------
(***************************************************************************)
(* Proofs about OutBuffer for every capacity, every set of message sizes   *)
(* and every length of the traffic: the type invariant, that no byte is    *)
(* lost or repeated, that the interest in writability is exact, that the   *)
(* vector grows only when it must, and that the buffer implements          *)
(* ByteChannel.                                                            *)
(***************************************************************************)
EXTENDS OutBuffer, SequenceTheorems, TLAPS

\* The inductive invariant: the labels of the unsent bytes need the types, and the
\* bytes on the wire stay in order because of those labels.
IInv == TypeOK /\ NothingLost /\ WriteInterest

\* A vector never shrinks when it grows, and gets what was asked for.
LEMMA GrownProperties ==
  ASSUME NEW c \in Nat, NEW needed \in Nat
  PROVE  /\ Grown(c, needed) \in Nat
         /\ Grown(c, needed) >= c
         /\ Grown(c, needed) >= needed
BY DEF Grown

\* check_buffer_out keeps the bytes that are not written, after the cursor.
LEMMA CheckBufferOutProperties ==
  ASSUME IInv, NEW n \in Nat
  PROVE  LET b == CheckBufferOut(n) IN
         /\ b.vec \in Seq(Nat) /\ b.pos \in Nat /\ b.cap \in Nat
         /\ b.pos <= Len(b.vec) /\ Len(b.vec) <= b.cap
         /\ Len(b.vec) - b.pos = Unsent
         /\ \A i \in (b.pos + 1)..Len(b.vec) : b.vec[i] = Len(wire) + (i - b.pos)
<1> DEFINE b == CheckBufferOut(n)
<1>1. /\ vec \in Seq(Nat) /\ pos \in Nat /\ cap \in Nat /\ Len(vec) \in Nat
      /\ Len(wire) \in Nat /\ Capacity \in Nat
      /\ pos <= Len(vec) /\ Len(vec) <= cap
      /\ \A i \in (pos + 1)..Len(vec) : vec[i] = Len(wire) + (i - pos)
  BY LenProperties, BufferAssumption DEF IInv, TypeOK, NothingLost
<1>2. CASE ~Full(n)
  <2>1. b = [vec |-> vec, pos |-> pos, cap |-> cap]
    BY <1>2 DEF CheckBufferOut, Buffer
  <2> QED
    BY <1>1, <2>1 DEF Unsent
<1>3. CASE Full(n)
  <2> DEFINE s == SubSeq(vec, pos + 1, Len(vec))
             c == IF Unsent = cap THEN Grown(cap, Unsent + Capacity) ELSE cap
  <2>1. b = [vec |-> s, pos |-> 0, cap |-> c]
    BY <1>3 DEF CheckBufferOut, Compacted, Buffer
  <2>2. /\ s \in Seq(Nat) /\ Len(s) = Len(vec) - pos
        /\ \A i \in 1..Len(s) : s[i] = vec[pos + i]
    BY <1>1, SMT
  <2>3. c \in Nat /\ c >= cap
    <3>1. Unsent \in Nat /\ Unsent + Capacity \in Nat /\ Unsent <= cap
      BY <1>1 DEF Unsent
    <3>2. Grown(cap, Unsent + Capacity) \in Nat /\ Grown(cap, Unsent + Capacity) >= cap
      BY <1>1, <3>1, GrownProperties
    <3> QED
      BY <1>1, <3>2
  <2>4. \A i \in 1..Len(s) : s[i] = Len(wire) + i
    <3> HIDE DEF s
    <3> SUFFICES ASSUME NEW i \in 1..Len(s) PROVE s[i] = Len(wire) + i
      OBVIOUS
    <3>1. pos + i \in (pos + 1)..Len(vec) /\ (pos + i) - pos = i
      BY <1>1, <2>2
    <3>2. vec[pos + i] = Len(wire) + ((pos + i) - pos)
      BY <1>1, <3>1
    <3> QED
      BY <2>2, <3>1, <3>2
  <2> HIDE DEF s, c
  <2> QED
    BY <1>1, <2>1, <2>2, <2>3, <2>4 DEF Unsent
<1> QED
  BY <1>2, <1>3

\* Appending n bytes to a buffer that holds the unsent ones keeps the labels.
LEMMA WrittenProperties ==
  ASSUME IInv, NEW n \in Nat, NEW b,
         b.vec \in Seq(Nat), b.pos \in Nat, b.cap \in Nat,
         b.pos <= Len(b.vec), Len(b.vec) <= b.cap, Len(b.vec) - b.pos = Unsent,
         \A i \in (b.pos + 1)..Len(b.vec) : b.vec[i] = Len(wire) + (i - b.pos)
  PROVE  LET w == Written(b, n) IN
         /\ w.vec \in Seq(Nat) /\ w.pos \in Nat /\ w.cap \in Nat
         /\ w.pos <= Len(w.vec) /\ Len(w.vec) <= w.cap
         /\ Len(w.vec) - w.pos = Unsent + n
         /\ \A i \in (w.pos + 1)..Len(w.vec) : w.vec[i] = Len(wire) + (i - w.pos)
<1> DEFINE v == b.vec
           e == Extended(v, n)
           k == Grown(b.cap, Len(v) + n)
<1>1. v \in Seq(Nat) /\ Len(v) \in Nat /\ b.pos \in Nat /\ b.cap \in Nat /\ n \in Nat
  BY LenProperties
<1>2. accepted \in Nat /\ Len(wire) \in Nat /\ accepted = Len(wire) + Unsent
  BY LenProperties DEF IInv, TypeOK, NothingLost
<1>3. /\ Written(b, n).vec = e
      /\ Written(b, n).pos = b.pos
      /\ Written(b, n).cap = k
  BY DEF Written, Buffer
<1>4. k \in Nat /\ k >= Len(v) + n
  <2>1. Len(v) + n \in Nat
    BY <1>1
  <2> QED
    BY <1>1, <2>1, GrownProperties
<1>5. e \in Seq(Nat) /\ Len(e) = Len(v) + n
  <2>1. \A i \in 1..(Len(v) + n) :
          (IF i <= Len(v) THEN v[i] ELSE accepted + (i - Len(v))) \in Nat
    <3> TAKE i \in 1..(Len(v) + n)
    <3>1. CASE i <= Len(v)
      <4>1. i \in 1..Len(v)
        BY <1>1, <3>1
      <4>2. v[i] \in Nat
        BY <1>1, <4>1, ElementOfSeq
      <4> QED
        BY <3>1, <4>2
    <3>2. CASE ~(i <= Len(v))
      <4>1. accepted + (i - Len(v)) \in Nat
        BY <1>1, <1>2, <3>2
      <4> QED
        BY <3>2, <4>1
    <3> QED
      BY <3>1, <3>2
  <2> QED
    BY <1>1, <2>1 DEF Extended
<1>6. ASSUME NEW i \in (b.pos + 1)..Len(e) PROVE e[i] = Len(wire) + (i - b.pos)
  <2>1. i \in 1..(Len(v) + n) /\ i \in Nat
    BY <1>1, <1>5
  <2>2. e[i] = IF i <= Len(v) THEN v[i] ELSE accepted + (i - Len(v))
    BY <2>1 DEF Extended
  <2>3. CASE i <= Len(v)
    BY <1>1, <1>2, <2>1, <2>2, <2>3
  <2>4. CASE ~(i <= Len(v))
    BY <1>1, <1>2, <2>1, <2>2, <2>4
  <2> QED
    BY <2>3, <2>4
<1>8. \A i \in (b.pos + 1)..Len(e) : e[i] = Len(wire) + (i - b.pos)
  BY <1>6
<1> HIDE DEF v, e, k
<1>7. Len(e) - b.pos = Unsent + n /\ b.pos <= Len(e) /\ Len(e) <= k
  BY <1>1, <1>2, <1>4, <1>5 DEF v
<1> QED
  BY <1>1, <1>3, <1>4, <1>5, <1>7, <1>8, Zenon

LEMMA Initially == Init => IInv
<1> SUFFICES ASSUME Init PROVE IInv
  OBVIOUS
<1>1. Len(vec) = 0 /\ Len(wire) = 0 /\ Capacity \in Nat
  BY BufferAssumption DEF Init
<1>2. TypeOK
  <2>1. <<>> \in Seq(Nat)
    BY EmptySeq
  <2> QED
    BY <1>1, <2>1 DEF Init, TypeOK
<1>3. NothingLost
  <2>1. Channel!Stream(0) = <<>>
    BY DEF Channel!Stream
  <2> QED
    BY <1>1, <2>1 DEF Init, NothingLost, Unsent
<1>4. WriteInterest
  BY <1>1 DEF Init, WriteInterest, Unsent
<1> QED
  BY <1>2, <1>3, <1>4 DEF IInv

LEMMA SendStep ==
  ASSUME IInv, NEW n \in Nat, Send(n)
  PROVE  IInv'
<1> DEFINE b == CheckBufferOut(n)
           w == Written(b, n)
<1>1. /\ w.vec \in Seq(Nat) /\ w.pos \in Nat /\ w.cap \in Nat
      /\ w.pos <= Len(w.vec) /\ Len(w.vec) <= w.cap
      /\ Len(w.vec) - w.pos = Unsent + n
      /\ \A i \in (w.pos + 1)..Len(w.vec) : w.vec[i] = Len(wire) + (i - w.pos)
  BY CheckBufferOutProperties, WrittenProperties
<1>2. /\ vec' = w.vec /\ pos' = w.pos /\ cap' = w.cap
      /\ writable' = Interested(writable, w.vec, w.pos)
      /\ accepted' = accepted + n /\ wire' = wire
      /\ closing' = closing /\ broken' = broken /\ ~broken
  BY DEF Send
<1> HIDE DEF w, b
<1>3. TypeOK /\ Unsent \in Nat /\ Len(wire) \in Nat
  BY LenProperties DEF IInv, TypeOK, NothingLost, Unsent
<1>4. Unsent' = Unsent + n
  BY <1>1, <1>2 DEF Unsent
<1>5. TypeOK'
  BY <1>1, <1>2, <1>3 DEF TypeOK, Interested
<1>6. NothingLost'
  BY <1>1, <1>2, <1>3, <1>4 DEF IInv, NothingLost, TypeOK
<1>7. WriteInterest'
  <2>1. w.pos < Len(w.vec) <=> Unsent + n > 0
    BY <1>1, <1>3, LenProperties
  <2>2. writable <=> Unsent > 0
    BY <1>2 DEF IInv, WriteInterest
  <2>3. writable' <=> writable \/ w.pos < Len(w.vec)
    BY <1>2, Zenon DEF Interested
  <2>4. (Unsent > 0 \/ Unsent + n > 0) <=> Unsent' > 0
    BY <1>3, <1>4
  <2> QED
    BY <2>1, <2>2, <2>3, <2>4, Zenon DEF WriteInterest
<1> QED
  BY <1>5, <1>6, <1>7 DEF IInv

\* Writing the next k bytes extends the stream on the wire by k.
LEMMA WireStep ==
  ASSUME IInv, NEW k \in 0..Unsent, Write(k)
  PROVE  /\ wire' = Channel!Stream(Len(wire) + k)
         /\ wire' \in Seq(Nat) /\ Len(wire') = Len(wire) + k
<1> DEFINE s == SubSeq(vec, pos + 1, pos + k)
<1>1. /\ vec \in Seq(Nat) /\ wire \in Seq(Nat) /\ pos \in Nat /\ k \in Nat
      /\ Len(vec) \in Nat /\ Len(wire) \in Nat /\ pos + k <= Len(vec)
      /\ wire = Channel!Stream(Len(wire))
      /\ \A i \in (pos + 1)..Len(vec) : vec[i] = Len(wire) + (i - pos)
  BY LenProperties DEF IInv, TypeOK, NothingLost, Unsent
<1>2. /\ s \in Seq(Nat) /\ Len(s) = k
      /\ \A i \in 1..k : s[i] = vec[pos + i]
  BY <1>1, SMT
<1> HIDE DEF s
<1>3. \A i \in 1..k : s[i] = Len(wire) + i
  <2> SUFFICES ASSUME NEW i \in 1..k PROVE s[i] = Len(wire) + i
    OBVIOUS
  <2>1. pos + i \in (pos + 1)..Len(vec) /\ (pos + i) - pos = i
    BY <1>1
  <2>2. vec[pos + i] = Len(wire) + ((pos + i) - pos)
    BY <1>1, <2>1
  <2> QED
    BY <1>2, <2>1, <2>2
<1>4. wire' = wire \o s
  BY DEF Write, s
<1>5. /\ wire' \in Seq(Nat) /\ Len(wire') = Len(wire) + k
      /\ \A i \in 1..(Len(wire) + k) :
            wire'[i] = IF i <= Len(wire) THEN wire[i] ELSE s[i - Len(wire)]
  BY <1>1, <1>2, <1>4, ConcatProperties
<1> DEFINE t == Channel!Stream(Len(wire) + k)
<1>6. t \in Seq(Nat) /\ Len(t) = Len(wire) + k /\ \A i \in 1..(Len(wire) + k) : t[i] = i
  BY <1>1 DEF Channel!Stream
<1>7. \A i \in 1..(Len(wire) + k) : wire'[i] = i
  <2> SUFFICES ASSUME NEW i \in 1..(Len(wire) + k) PROVE wire'[i] = i
    OBVIOUS
  <2>1. CASE i <= Len(wire)
    <3>1. i \in 1..Len(wire)
      BY <1>1, <2>1
    <3>2. wire[i] = i
      BY <1>1, <3>1 DEF Channel!Stream
    <3> QED
      BY <1>5, <2>1, <3>2
  <2>2. CASE ~(i <= Len(wire))
    <3>1. i - Len(wire) \in 1..k /\ Len(wire) + (i - Len(wire)) = i
      BY <1>1, <2>2
    <3> QED
      BY <1>3, <1>5, <2>2, <3>1
  <2> QED
    BY <2>1, <2>2
<1> HIDE DEF t
<1>8. wire' = t
  BY <1>5, <1>6, <1>7, SeqEqual
<1> QED
  BY <1>5, <1>8 DEF t

LEMMA WriteStep ==
  ASSUME IInv, NEW k \in 0..Unsent, Write(k)
  PROVE  IInv'
<1>1. /\ vec \in Seq(Nat) /\ pos \in Nat /\ k \in Nat /\ Len(vec) \in Nat
      /\ Len(wire) \in Nat /\ pos + k <= Len(vec) /\ accepted \in Nat
      /\ accepted = Len(wire) + Unsent
  BY LenProperties DEF IInv, TypeOK, NothingLost, Unsent
<1>2. /\ wire' = Channel!Stream(Len(wire')) /\ wire' \in Seq(Nat) /\ Len(wire') = Len(wire) + k
  BY WireStep
<1>3. /\ pos' = pos + k /\ vec' = vec /\ cap' = cap /\ accepted' = accepted
      /\ closing' = closing /\ broken' = broken /\ writable' = Interested(FALSE, vec, pos + k)
  BY DEF Write
<1>4. Unsent' = Unsent - k
  BY <1>1, <1>3 DEF Unsent
<1>5. TypeOK'
  BY <1>1, <1>2, <1>3 DEF IInv, TypeOK, Interested
<1>6. NothingLost'
  <2>1. pos' <= Len(vec') /\ Len(vec') <= cap'
    BY <1>1, <1>3 DEF IInv, NothingLost
  <2>2. accepted' = Len(wire') + Unsent'
    BY <1>1, <1>2, <1>3, <1>4 DEF Unsent
  <2>3. \A i \in (pos' + 1)..Len(vec') : vec'[i] = Len(wire') + (i - pos')
    <3> SUFFICES ASSUME NEW i \in (pos + k + 1)..Len(vec)
                 PROVE  vec[i] = Len(wire) + k + (i - (pos + k))
      BY <1>2, <1>3
    <3>1. i \in (pos + 1)..Len(vec)
      BY <1>1
    <3>2. vec[i] = Len(wire) + (i - pos)
      BY <3>1 DEF IInv, NothingLost
    <3> QED
      BY <1>1, <3>1, <3>2
  <2> QED
    BY <1>2, <2>1, <2>2, <2>3 DEF NothingLost
<1>7. WriteInterest'
  <2>1. writable' <=> pos + k < Len(vec)
    BY <1>3, Zenon DEF Interested
  <2>2. pos + k < Len(vec) <=> Unsent' > 0
    BY <1>1, <1>4 DEF Unsent
  <2> QED
    BY <2>1, <2>2, Zenon DEF WriteInterest
<1> QED
  BY <1>5, <1>6, <1>7 DEF IInv

\* The invariant is inductive.
LEMMA Inductive == IInv /\ [Next]_vars => IInv'
<1> SUFFICES ASSUME IInv, [Next]_vars PROVE IInv'
  OBVIOUS
<1> USE DEF IInv
<1>1. ASSUME NEW n \in Sizes, Send(n) PROVE IInv'
  BY <1>1, SendStep, BufferAssumption
<1>2. ASSUME NEW n \in Sizes, Refuse(n) PROVE IInv'
  BY <1>2, LenProperties DEF Refuse, TypeOK, NothingLost, WriteInterest, Unsent, Interested
<1>3. CASE Close
  BY <1>3, LenProperties DEF Close, TypeOK, NothingLost, WriteInterest, Unsent, Interested
<1>4. ASSUME NEW k \in 0..Unsent, Write(k) PROVE IInv'
  BY <1>4, WriteStep
<1>5. CASE Fail
  BY <1>5 DEF Fail, TypeOK, NothingLost, WriteInterest, Unsent
<1>6. CASE UNCHANGED vars
  BY <1>6 DEF vars, TypeOK, NothingLost, WriteInterest, Unsent
<1> QED
  BY <1>1, <1>2, <1>3, <1>4, <1>5, <1>6 DEF Next

\* The invariant holds in every behaviour.
THEOREM Invariance == Spec => []IInv
<1>1. Init => IInv
  BY Initially
<1>2. IInv /\ [Next]_vars => IInv'
  BY Inductive
<1> QED
  BY <1>1, <1>2, PTL DEF Spec

\* The variables keep their types: the cursor never leaves the vector and no length
\* falls below 0, for every capacity.  (connection.rs, check_buffer_out, write)
THEOREM TypeCorrect == Spec => []TypeOK
<1>1. IInv => TypeOK
  BY DEF IInv
<1> QED
  BY <1>1, Invariance, PTL

\* Rebuilding and growing the vector loses and repeats no byte.
THEOREM NothingIsLost == Spec => []NothingLost
<1>1. IInv => NothingLost
  BY DEF IInv
<1> QED
  BY <1>1, Invariance, PTL

\* The loop asks for writability exactly while there is something to write.
THEOREM InterestIsExact == Spec => []WriteInterest
<1>1. IInv => WriteInterest
  BY DEF IInv
<1> QED
  BY <1>1, Invariance, PTL

\* Every step on the buffer is a step of the channel or leaves the channel alone.
LEMMA StepSimulation ==
  IInv /\ [Next]_vars => [Channel!Accept \/ Channel!Deliver \/ Channel!DeliverOn \/ Channel!Refuse]_<<accepted, wire, FALSE>>
<1> SUFFICES ASSUME IInv, [Next]_vars
             PROVE  Channel!Accept \/ Channel!Deliver \/ UNCHANGED <<accepted, wire>>
  OBVIOUS
<1>1. ASSUME NEW n \in Sizes, Send(n) PROVE Channel!Accept
  BY <1>1, BufferAssumption DEF Send, Channel!Accept, IInv, TypeOK
<1>2. ASSUME NEW n \in Sizes, Refuse(n) PROVE UNCHANGED <<accepted, wire>>
  BY <1>2 DEF Refuse
<1>3. CASE Close
  BY <1>3 DEF Close
<1>4. ASSUME NEW k \in 0..Unsent, Write(k) PROVE Channel!Deliver
  <2>1. /\ wire' = Channel!Stream(Len(wire) + k) /\ UNCHANGED accepted
    BY <1>4, WireStep DEF Write
  <2>2. Len(wire) + k \in Len(wire)..accepted
    BY <1>4, LenProperties DEF IInv, TypeOK, NothingLost, Unsent
  <2> QED
    BY <2>1, <2>2 DEF Channel!Deliver
<1>5. CASE Fail
  BY <1>5 DEF Fail
<1>6. CASE UNCHANGED vars
  BY <1>6 DEF vars
<1> QED
  BY <1>1, <1>2, <1>3, <1>4, <1>5, <1>6 DEF Next

\* The output buffer implements the channel: bytes leave in the order they were
\* accepted, none twice and none left out.
THEOREM Refinement == Spec => ChannelSpec
<1>1. Init => Channel!Init
  BY DEF Init, Channel!Init
<1>2. IInv /\ [Next]_vars => [Channel!Accept \/ Channel!Deliver \/ Channel!DeliverOn \/ Channel!Refuse]_<<accepted, wire, FALSE>>
  BY StepSimulation
<1> QED
  BY <1>1, <1>2, Invariance, PTL DEF Spec, ChannelSpec, Channel!Spec

\* A message makes the vector grow only together with the unsent bytes.
LEMMA SendGrows ==
  ASSUME IInv, NEW n \in Nat, Send(n), cap' > cap
  PROVE  Unsent + n >= cap
<1> DEFINE b == CheckBufferOut(n)
<1>1. /\ vec \in Seq(Nat) /\ pos \in Nat /\ cap \in Nat /\ Len(vec) \in Nat
      /\ pos <= Len(vec) /\ Len(vec) <= cap
  BY LenProperties DEF IInv, TypeOK, NothingLost
<1>2. cap' = Grown(b.cap, Len(b.vec) + n)
  BY DEF Send, Written, Buffer
<1>3. CASE ~Full(n)
  <2>1. b.vec = vec /\ b.cap = cap
    BY <1>3 DEF CheckBufferOut, Buffer
  <2> QED
    BY <1>1, <1>2, <1>3, <2>1 DEF Full, Grown
<1>4. CASE Full(n) /\ Unsent = cap
  BY <1>1, <1>4
<1>5. CASE Full(n) /\ Unsent # cap
  <2>1. b.vec = SubSeq(vec, pos + 1, Len(vec)) /\ b.cap = cap
    BY <1>5 DEF CheckBufferOut, Compacted, Buffer
  <2>2. Len(b.vec) = Unsent
    BY <1>1, <2>1, SMT DEF Unsent
  <2> HIDE DEF b
  <2> QED
    BY <1>1, <1>2, <2>1, <2>2 DEF Grown, Unsent
<1> QED
  BY <1>3, <1>4, <1>5

\* The vector grows only when the bytes that are not written, with the new ones,
\* fill it.  (check_buffer_out)
THEOREM GrowthIsNeeded == Spec => GrowsOnlyWhenFull
<1>1. IInv /\ [Next]_vars => [cap' > cap => Unsent + (accepted' - accepted) >= cap]_vars
  <2> SUFFICES ASSUME IInv, Next, cap' > cap
               PROVE  Unsent + (accepted' - accepted) >= cap
    OBVIOUS
  <2>1. cap \in Nat /\ accepted \in Nat
    BY DEF IInv, TypeOK
  <2>2. PICK n \in Sizes : Send(n)
    <3>1. (\E n \in Sizes : Send(n)) \/ cap' = cap
      BY Zenon DEF Next, Refuse, Close, Write, Fail, vars
    <3> QED
      BY <2>1, <3>1
  <2>3. n \in Nat /\ accepted' - accepted = n
    BY <2>1, <2>2, BufferAssumption DEF Send
  <2> QED
    BY <2>2, <2>3, SendGrows
<1> QED
  BY <1>1, Invariance, PTL DEF Spec, GrowsOnlyWhenFull
=============================================================================
