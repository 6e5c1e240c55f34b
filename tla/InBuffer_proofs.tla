--------------------------- MODULE InBuffer_proofs ---------------------------
(***************************************************************************)
(* Proofs about InBuffer for every capacity, every text and every way it   *)
(* is cut into reads: the type invariant, that rebuilding the vector loses *)
(* and repeats no byte, that on_message is never given half a character,   *)
(* and that the buffer implements ByteChannel.                             *)
(***************************************************************************)
EXTENDS InBuffer, SequenceTheorems, TLAPS

\* The bytes before the cursor: they were given to on_message or refused.
Consumed == taken - (Len(vec) - pos)

\* Until a chunk is refused all that was consumed was delivered; afterwards nothing
\* is delivered a second time.
InOrder ==
  /\ ~garbled => delivered = Channel!Stream(Consumed)
  /\ Channel!Last <= Consumed

\* The inductive invariant: the next chunk begins after the last byte delivered, so
\* what is delivered stays in order; it is text, so characters stay whole.
IInv == TypeOK /\ NothingLost /\ WholeCharacters /\ InOrder

-----------------------------------------------------------------------------
(* The vector *)

LEMMA GrownProperties ==
  ASSUME NEW c \in Nat, NEW needed \in Nat
  PROVE  Grown(c, needed) \in Nat /\ Grown(c, needed) >= c
BY DEF Grown

\* What the invariant says in numbers.
LEMMA Numbers ==
  ASSUME IInv
  PROVE  /\ vec \in Seq(Nat) /\ delivered \in Seq(Nat)
         /\ pos \in Nat /\ cap \in Nat /\ taken \in Nat /\ sent \in Nat
         /\ Len(vec) \in Nat /\ Len(delivered) \in Nat
         /\ pos <= Len(vec) /\ Len(vec) <= cap /\ taken <= sent
         /\ Consumed \in Int /\ Consumed = taken - (Len(vec) - pos)
BY LenProperties DEF IInv, TypeOK, NothingLost, Consumed

LEMMA NoneWithheld == ASSUME IInv, ~garbled PROVE Len(delivered) = Consumed
<1>1. Len(delivered) + (Len(vec) - pos) = taken
  BY DEF IInv, NothingLost
<1> QED
  BY <1>1, Numbers

\* try_read_buf puts bytes that arrived into the room of the vector, after the ones
\* that are there.
LEMMA FilledProperties ==
  ASSUME IInv
  PROVE  /\ RoomyCap \in Nat /\ RoomyCap >= cap
         /\ Got \in Nat /\ taken + Got <= sent
         /\ Filled \in Seq(Nat) /\ Len(Filled) = Len(vec) + Got /\ Len(Filled) <= RoomyCap
         /\ \A i \in (pos + 1)..Len(Filled) : Filled[i] = (taken + Got) - Len(Filled) + i
<1>1. /\ vec \in Seq(Nat) /\ pos \in Nat /\ cap \in Nat /\ taken \in Nat /\ sent \in Nat
      /\ Len(vec) \in Nat /\ pos <= Len(vec) /\ Len(vec) <= cap /\ taken <= sent
  BY Numbers
<1>2. RoomyCap \in Nat /\ RoomyCap >= cap
  <2>1. cap + Reserve \in Nat
    BY <1>1, InBufferAssumption
  <2> QED
    BY <1>1, <2>1, GrownProperties DEF RoomyCap
<1>3. Got \in Nat /\ taken + Got <= sent /\ Len(vec) + Got <= RoomyCap
  BY <1>1, <1>2 DEF Got
<1>4. \A i \in 1..(Len(vec) + Got) :
        (IF i <= Len(vec) THEN vec[i] ELSE taken + (i - Len(vec))) \in Nat
  <2> TAKE i \in 1..(Len(vec) + Got)
  <2>1. CASE i <= Len(vec)
    <3>1. i \in 1..Len(vec)
      BY <1>1, <1>3, <2>1
    <3> QED
      BY <1>1, <2>1, <3>1, ElementOfSeq
  <2>2. CASE ~(i <= Len(vec))
    <3>1. taken + (i - Len(vec)) \in Nat
      BY <1>1, <1>3, <2>2
    <3> QED
      BY <2>2, <3>1
  <2> QED
    BY <2>1, <2>2
<1>5. Filled \in Seq(Nat) /\ Len(Filled) = Len(vec) + Got
  BY <1>1, <1>3, <1>4 DEF Filled
<1>6. ASSUME NEW i \in (pos + 1)..Len(Filled)
      PROVE  Filled[i] = (taken + Got) - Len(Filled) + i
  <2>1. Filled[i] = IF i <= Len(vec) THEN vec[i] ELSE taken + (i - Len(vec))
    <3>1. i \in 1..(Len(vec) + Got)
      BY <1>1, <1>3, <1>5
    <3> QED
      BY <3>1 DEF Filled
  <2>2. CASE i <= Len(vec)
    <3>1. i \in (pos + 1)..Len(vec)
      BY <1>1, <1>3, <1>5, <2>2
    <3>2. vec[i] = taken - Len(vec) + i
      BY <3>1 DEF IInv, NothingLost
    <3> QED
      BY <1>1, <1>3, <1>5, <2>1, <2>2, <3>2
  <2>3. CASE ~(i <= Len(vec))
    BY <1>1, <1>3, <1>5, <2>1, <2>3
  <2> QED
    BY <2>2, <2>3
<1> QED
  BY <1>2, <1>3, <1>5, <1>6

\* The bytes past the cursor of a vector that ends with the n-th byte.
LEMMA UnreadProperties ==
  ASSUME NEW v \in Seq(Nat), NEW p \in Nat, NEW n \in Nat, p <= Len(v),
         \A i \in (p + 1)..Len(v) : v[i] = n - Len(v) + i
  PROVE  /\ Unread(v, p) \in Seq(Nat) /\ Len(Unread(v, p)) = Len(v) - p
         /\ \A i \in 1..(Len(v) - p) : Unread(v, p)[i] = n - (Len(v) - p) + i
<1>1. Len(v) \in Nat
  BY LenProperties
<1>2. /\ Unread(v, p) \in Seq(Nat) /\ Len(Unread(v, p)) = Len(v) - p
      /\ \A i \in 1..(Len(v) - p) : Unread(v, p)[i] = v[p + i]
  BY <1>1, SMT DEF Unread
<1>3. ASSUME NEW i \in 1..(Len(v) - p) PROVE v[p + i] = n - (Len(v) - p) + i
  <2>1. p + i \in (p + 1)..Len(v)
    BY <1>1
  <2>2. v[p + i] = n - Len(v) + (p + i)
    BY <2>1
  <2> QED
    BY <1>1, <2>2
<1> QED
  BY <1>2, <1>3
-----------------------------------------------------------------------------
(* What is delivered *)

\* The characters of the bytes d are whole, and the last of them.
Whole(d) ==
  \A i \in DOMAIN d :
    /\ d[i] \in Leads => i < Len(d) /\ d[i + 1] = d[i] + 1
    /\ d[i] - 1 \in Leads => i > 1 /\ d[i - 1] = d[i] - 1
LastOf(d) == IF d = <<>> THEN 0 ELSE d[Len(d)]

LEMMA JoinProperties ==
  ASSUME NEW d \in Seq(Nat), NEW c \in Seq(Nat)
  PROVE  /\ d \o c \in Seq(Nat) /\ Len(d \o c) = Len(d) + Len(c)
         /\ Len(d) \in Nat /\ Len(c) \in Nat
         /\ DOMAIN d = 1..Len(d) /\ DOMAIN (d \o c) = 1..(Len(d) + Len(c))
         /\ \A i \in 1..Len(d) : (d \o c)[i] = d[i]
         /\ \A i \in 1..Len(c) : (d \o c)[Len(d) + i] = c[i]
<1>1. d \o c \in Seq(Nat) /\ Len(d \o c) = Len(d) + Len(c) /\ Len(d) \in Nat /\ Len(c) \in Nat
  BY ConcatProperties, LenProperties
<1>2. /\ \A i \in 1..Len(d) : (d \o c)[i] = d[i]
      /\ \A i \in 1..Len(c) : (d \o c)[Len(d) + i] = c[i]
  BY <1>1, SMT
<1>3. DOMAIN d = 1..Len(d) /\ DOMAIN (d \o c) = 1..Len(d \o c)
  BY <1>1, LenProperties
<1> QED
  BY <1>1, <1>2, <1>3

\* A text that follows whole characters.
LEMMA WholeJoin ==
  ASSUME NEW d \in Seq(Nat), NEW c \in Seq(Nat), NEW m \in Int, Whole(d), IsText(c),
         \A i \in 1..Len(c) : c[i] = m + i
  PROVE  Whole(d \o c)
<1> DEFINE e == d \o c
<1>1. /\ Len(e) = Len(d) + Len(c) /\ Len(d) \in Nat /\ Len(c) \in Nat
      /\ DOMAIN d = 1..Len(d) /\ DOMAIN e = 1..(Len(d) + Len(c))
      /\ \A i \in 1..Len(d) : e[i] = d[i]
      /\ \A i \in 1..Len(c) : e[Len(d) + i] = c[i]
  BY JoinProperties
<1> HIDE DEF e
<1> SUFFICES ASSUME NEW i \in DOMAIN e
             PROVE  /\ e[i] \in Leads => i < Len(e) /\ e[i + 1] = e[i] + 1
                    /\ e[i] - 1 \in Leads => i > 1 /\ e[i - 1] = e[i] - 1
  BY DEF Whole, e
<1>2. CASE i <= Len(d)
  <2>1. i \in 1..Len(d) /\ e[i] = d[i]
    BY <1>1, <1>2
  <2>2. ASSUME d[i] \in Leads PROVE i < Len(e) /\ e[i + 1] = e[i] + 1
    <3>1. i < Len(d) /\ d[i + 1] = d[i] + 1
      BY <1>1, <2>1, <2>2 DEF Whole
    <3>2. e[i + 1] = d[i + 1]
      BY <1>1, <2>1, <3>1
    <3> QED
      BY <1>1, <2>1, <3>1, <3>2
  <2>3. ASSUME d[i] - 1 \in Leads PROVE i > 1 /\ e[i - 1] = e[i] - 1
    <3>1. i > 1 /\ d[i - 1] = d[i] - 1
      BY <1>1, <2>1, <2>3 DEF Whole
    <3>2. e[i - 1] = d[i - 1]
      BY <1>1, <2>1, <3>1
    <3> QED
      BY <2>1, <3>1, <3>2
  <2> QED
    BY <2>1, <2>2, <2>3
<1>3. CASE i > Len(d)
  <2>1. PICK j \in 1..Len(c) : i = Len(d) + j
    <3>1. i - Len(d) \in 1..Len(c) /\ i = Len(d) + (i - Len(d))
      BY <1>1, <1>3
    <3> QED
      BY <3>1
  <2>2. e[i] = m + j /\ c[j] = m + j
    BY <1>1, <2>1
  <2>3. c[1] - 1 \notin Leads /\ c[Len(c)] \notin Leads
    <3>1. c # <<>>
      BY <1>1, <2>1
    <3> QED
      BY <3>1 DEF IsText
  <2>4. ASSUME m + j \in Leads PROVE i < Len(e) /\ e[i + 1] = e[i] + 1
    <3>1. j # Len(c)
      BY <2>2, <2>3, <2>4
    <3>2. j + 1 \in 1..Len(c) /\ i + 1 = Len(d) + (j + 1)
      BY <1>1, <2>1, <3>1
    <3>3. e[i + 1] = m + (j + 1)
      BY <1>1, <3>2
    <3> QED
      BY <1>1, <2>1, <2>2, <3>2, <3>3
  <2>5. ASSUME (m + j) - 1 \in Leads PROVE i > 1 /\ e[i - 1] = e[i] - 1
    <3>1. j # 1
      BY <2>2, <2>3, <2>5
    <3>2. j - 1 \in 1..Len(c) /\ i - 1 = Len(d) + (j - 1)
      BY <1>1, <2>1, <3>1
    <3>3. e[i - 1] = m + (j - 1)
      BY <1>1, <3>2
    <3> QED
      BY <1>1, <2>1, <2>2, <3>2, <3>3
  <2> QED
    BY <2>2, <2>4, <2>5
<1> QED
  BY <1>1, <1>2, <1>3

\* The chunk of read_data, on a vector that ends with the n-th byte.
LEMMA ChunkProperties ==
  ASSUME IInv, NEW v \in Seq(Nat), NEW n \in Nat, pos <= Len(v), n - (Len(v) - pos) = Consumed,
         \A i \in (pos + 1)..Len(v) : v[i] = n - Len(v) + i
  PROVE  LET chunk == Unread(v, pos) IN
         /\ chunk \in Seq(Nat) /\ Len(chunk) = n - Consumed /\ Consumed <= n
         /\ \A i \in 1..Len(chunk) : chunk[i] = Consumed + i
         /\ Len(delivered \o chunk) = Len(delivered) + Len(chunk)
         /\ delivered \o chunk \in Seq(Nat)
         /\ LastOf(delivered \o chunk) <= n
         /\ ~garbled => delivered \o chunk = Channel!Stream(n)
         /\ chunk # <<>> => Consumed + 1 <= n /\ chunk = Channel!Part(Consumed + 1, n)
<1> DEFINE c == Unread(v, pos)
           d == delivered \o c
<1>1. /\ pos \in Nat /\ Len(v) \in Nat /\ Consumed \in Int /\ delivered \in Seq(Nat)
      /\ Len(delivered) \in Nat
  BY Numbers, LenProperties
<1> HIDE DEF c, d
<1>2. /\ c \in Seq(Nat) /\ Len(c) = n - Consumed /\ Consumed <= n
      /\ \A i \in 1..Len(c) : c[i] = Consumed + i
  <2>1. /\ c \in Seq(Nat) /\ Len(c) = Len(v) - pos
        /\ \A i \in 1..(Len(v) - pos) : c[i] = n - (Len(v) - pos) + i
    BY <1>1, UnreadProperties DEF c
  <2>2. n - Consumed = Len(v) - pos
    BY <1>1
  <2>3. \A i \in 1..Len(c) : c[i] = Consumed + i
    <3> TAKE i \in 1..Len(c)
    <3>1. c[i] = n - (Len(v) - pos) + i
      BY <2>1
    <3> QED
      BY <1>1, <3>1
  <2> QED
    BY <1>1, <2>1, <2>2, <2>3
<1>3. /\ d \in Seq(Nat) /\ Len(d) = Len(delivered) + Len(c) /\ Len(c) \in Nat
      /\ \A i \in 1..Len(delivered) : d[i] = delivered[i]
      /\ \A i \in 1..Len(c) : d[Len(delivered) + i] = c[i]
  BY <1>1, <1>2, JoinProperties DEF d
<1>4. LastOf(d) <= n
  <2>1. CASE Len(c) = 0
    <3>1. Len(d) = Len(delivered) /\ \A i \in 1..Len(delivered) : d[i] = delivered[i]
      BY <1>1, <1>3, <2>1
    <3>2. d = <<>> <=> Len(d) = 0
      BY <1>3
    <3>3. delivered = <<>> <=> Len(delivered) = 0
      BY <1>1
    <3>4. LastOf(d) = Channel!Last
      BY <1>1, <3>1, <3>2, <3>3 DEF LastOf, Channel!Last
    <3> QED
      BY <1>1, <1>2, <2>1, <3>4 DEF IInv, InOrder
  <2>2. CASE Len(c) # 0
    <3>1. Len(c) \in 1..Len(c)
      BY <1>3, <2>2
    <3>2. c[Len(c)] = Consumed + Len(c)
      BY <1>2, <3>1
    <3>3. d[Len(d)] = c[Len(c)]
      BY <1>3, <3>1
    <3>4. Consumed + Len(c) = n
      BY <1>1, <1>2
    <3>5. d # <<>>
      BY <1>1, <1>3, <3>1
    <3> QED
      BY <3>2, <3>3, <3>4, <3>5 DEF LastOf
  <2> QED
    BY <2>1, <2>2
<1>5. ASSUME ~garbled PROVE d = Channel!Stream(n)
  <2>1. delivered = Channel!Stream(Consumed) /\ Len(delivered) = Consumed
    BY <1>1, <1>5 DEF IInv, InOrder, NothingLost, Consumed
  <2>2. Len(d) = n
    BY <1>1, <1>2, <1>3, <2>1
  <2>3. \A i \in 1..n : d[i] = i
    <3> TAKE i \in 1..n
    <3>1. CASE i <= Consumed
      <4>1. i \in 1..Len(delivered) /\ delivered[i] = i
        BY <1>1, <2>1, <3>1 DEF Channel!Stream
      <4> QED
        BY <1>3, <4>1
    <3>2. CASE i > Consumed
      <4>1. i - Consumed \in 1..Len(c) /\ i = Len(delivered) + (i - Consumed)
        BY <1>1, <1>2, <2>1, <3>2
      <4>2. c[i - Consumed] = Consumed + (i - Consumed)
        BY <1>2, <4>1
      <4>3. d[Len(delivered) + (i - Consumed)] = c[i - Consumed]
        BY <1>3, <4>1
      <4>4. Consumed + (i - Consumed) = i
        BY <1>1
      <4> QED
        BY <4>1, <4>2, <4>3, <4>4
    <3> QED
      BY <1>1, <3>1, <3>2
  <2>4. d = [i \in 1..n |-> d[i]]
    BY <1>3, <2>2
  <2> QED
    BY <2>3, <2>4 DEF Channel!Stream
<1>6. ASSUME c # <<>> PROVE Consumed + 1 <= n /\ c = Channel!Part(Consumed + 1, n)
  <2>1. Len(c) # 0 /\ Consumed + 1 <= n
    BY <1>1, <1>2, <1>3, <1>6
  <2>2. n - (Consumed + 1) + 1 = Len(c)
    BY <1>1, <1>2
  <2>3. c = [i \in 1..Len(c) |-> c[i]]
    BY <1>2
  <2>4. \A i \in 1..Len(c) : c[i] = (Consumed + 1) + i - 1
    BY <1>1, <1>2
  <2> QED
    BY <2>1, <2>2, <2>3, <2>4 DEF Channel!Part
<1> QED
  BY <1>2, <1>3, <1>4, <1>5, <1>6 DEF c, d
-----------------------------------------------------------------------------
(* The steps *)

\* A step that leaves the bytes alone: some may arrive, the vector may get room.
LEMMA StillStep ==
  ASSUME IInv, UNCHANGED <<taken, vec, pos, delivered, garbled, empties>>,
         sent' \in Nat, sent' >= sent, fin' \in BOOLEAN, cap' \in Nat, cap' >= cap,
         pc' \in {"idle", "reading"}, state' \in {"Open", "AwaitingClose", "lost"},
         reads' \in BOOLEAN, writes' \in BOOLEAN, failed' \in BOOLEAN
  PROVE  IInv'
<1>1. TypeOK'
  BY DEF IInv, TypeOK
<1>2. NothingLost'
  <2>1. /\ taken \in Nat /\ sent \in Nat /\ cap \in Nat /\ Len(vec) \in Nat
        /\ Len(vec) <= cap /\ taken <= sent
    BY Numbers
  <2>2. taken' <= sent' /\ Len(vec') <= cap'
    BY <2>1
  <2> QED
    BY <2>2 DEF IInv, NothingLost
<1>3. WholeCharacters' /\ InOrder'
  BY DEF IInv, WholeCharacters, InOrder, Consumed, Channel!Last
<1> QED
  BY <1>1, <1>2, <1>3 DEF IInv

LEMMA ErrorStep ==
  ASSUME TypeOK, NEW kind, Error(kind)
  PROVE  state' \in {"Open", "AwaitingClose", "lost"} /\ failed' \in BOOLEAN
BY DEF TypeOK, Error

\* What a step of the loop is to the channel.
Channelled ==
  \/ Channel!Deliver \/ Channel!DeliverOn \/ Channel!Refuse
  \/ UNCHANGED <<sent, delivered, garbled>>

\* read_data delivers the chunk or refuses it, and consumes it either way.
LEMMA ReadDataStep ==
  ASSUME IInv, NEW v \in Seq(Nat), NEW n \in Nat,
         pos <= Len(v), Len(v) <= RoomyCap, RoomyCap \in Nat, n <= sent,
         n - (Len(v) - pos) = Consumed,
         \A i \in (pos + 1)..Len(v) : v[i] = n - Len(v) + i,
         ReadData(v), taken' = n, UNCHANGED peer
  PROVE  IInv' /\ Channelled
<1> DEFINE c == Unread(v, pos)
           d == delivered \o c
<1>1. /\ c \in Seq(Nat) /\ Len(c) = n - Consumed /\ Consumed <= n
      /\ \A i \in 1..Len(c) : c[i] = Consumed + i
      /\ Len(d) = Len(delivered) + Len(c) /\ d \in Seq(Nat)
      /\ LastOf(d) <= n
      /\ ~garbled => d = Channel!Stream(n)
      /\ c # <<>> => Consumed + 1 <= n /\ c = Channel!Part(Consumed + 1, n)
  BY ChunkProperties
<1>2. /\ delivered \in Seq(Nat) /\ Len(delivered) \in Nat /\ Len(v) \in Nat /\ Consumed \in Int
      /\ sent \in Nat /\ Channel!Last <= Consumed /\ pos \in Nat /\ taken \in Nat
  BY Numbers, LenProperties DEF IInv, InOrder
<1>3. /\ pc' = "idle" /\ vec' = v /\ pos' = Len(v) /\ cap' = RoomyCap
      /\ sent' = sent /\ fin' = fin
      /\ \/ IsText(c) /\ delivered' = d /\ UNCHANGED garbled
         \/ garbled' = TRUE /\ UNCHANGED delivered
  BY DEF ReadData, peer
<1>4. /\ state' \in {"Open", "AwaitingClose", "lost"} /\ empties' \in BOOLEAN
      /\ reads' \in BOOLEAN /\ writes' \in BOOLEAN /\ failed' \in BOOLEAN
  <2>1. TypeOK
    BY DEF IInv
  <2>2. writes' = writes /\ (empties' = empties \/ empties' = (empties \/ c = <<>>))
    BY DEF ReadData, events
  <2>3. \/ \E kind : Error(kind) /\ reads' = reads
        \/ failed' = FALSE /\ reads' = (v = <<>> => ~writes) /\ state' \in {"lost", state}
    BY DEF ReadData, events
  <2>4. writes' \in BOOLEAN /\ empties' \in BOOLEAN
    BY <2>1, <2>2 DEF TypeOK
  <2>5. state' \in {"Open", "AwaitingClose", "lost"} /\ failed' \in BOOLEAN /\ reads' \in BOOLEAN
    BY <2>1, <2>3, ErrorStep DEF TypeOK
  <2> QED
    BY <2>4, <2>5
<1> HIDE DEF c, d
<1>5. Consumed' = n
  BY <1>2, <1>3 DEF Consumed
<1>6. TypeOK'
  BY <1>1, <1>2, <1>3, <1>4 DEF IInv, TypeOK
<1>7. ~garbled' => Len(delivered') = n
  <2> SUFFICES ASSUME ~garbled' PROVE Len(delivered') = n
    OBVIOUS
  <2>1. ~garbled /\ delivered' = d
    BY <1>3
  <2>2. Len(delivered) = Consumed
    BY <2>1, NoneWithheld
  <2> QED
    BY <1>1, <1>2, <2>1, <2>2
<1>8. NothingLost'
  <2>1. \A i \in (pos' + 1)..Len(vec') : vec'[i] = taken' - Len(vec') + i
    BY <1>2, <1>3
  <2>2. pos' <= Len(vec') /\ Len(vec') <= cap' /\ taken' <= sent'
    BY <1>2, <1>3
  <2>3. Len(vec') - pos' = 0
    BY <1>2, <1>3
  <2>4. ~garbled' => Len(delivered') + (Len(vec') - pos') = taken'
    BY <1>7, <2>3
  <2> QED
    BY <2>1, <2>2, <2>4 DEF NothingLost
<1>9. WholeCharacters'
  <2>1. Whole(delivered)
    BY DEF IInv, WholeCharacters, Whole
  <2>2. Whole(delivered')
    BY <1>1, <1>2, <1>3, <2>1, WholeJoin DEF d
  <2> QED
    BY <2>2 DEF WholeCharacters, Whole
<1>10. InOrder'
  <2>1. LastOf(delivered') <= n
    <3>1. CASE delivered' = d
      BY <1>1, <3>1
    <3>2. CASE UNCHANGED delivered
      <4>1. LastOf(delivered) <= Consumed /\ LastOf(delivered) \in Nat
        BY <1>2 DEF LastOf, Channel!Last
      <4> QED
        BY <1>1, <1>2, <3>2, <4>1
    <3> QED
      BY <1>3, <3>1, <3>2
  <2>2. Channel!Last' <= Consumed'
    BY <1>5, <2>1 DEF LastOf, Channel!Last
  <2>3. ~garbled' => delivered' = Channel!Stream(n)
    BY <1>1, <1>3
  <2> QED
    BY <1>5, <2>2, <2>3 DEF InOrder, Channel!Stream
<1>11. Channelled
  <2>1. CASE IsText(c) /\ delivered' = d /\ UNCHANGED garbled /\ ~garbled
    <3>1. Len(delivered) = Consumed
      BY <2>1, NoneWithheld
    <3>2. n \in Len(delivered)..sent
      BY <1>1, <1>2, <3>1
    <3> QED
      BY <1>1, <1>3, <2>1, <3>2 DEF Channelled, Channel!Deliver
  <2>2. CASE IsText(c) /\ delivered' = d /\ UNCHANGED garbled /\ garbled /\ c # <<>>
    <3>1. Channel!Last \in Int
      BY <1>2 DEF Channel!Last
    <3>2. Consumed + 1 \in (Channel!Last + 1)..sent /\ n \in (Channel!Last + 1)..sent
      BY <1>1, <1>2, <2>2, <3>1
    <3>3. delivered' = delivered \o Channel!Part(Consumed + 1, n)
      BY <1>1, <2>2 DEF d
    <3> QED
      BY <1>3, <2>2, <3>2, <3>3 DEF Channelled, Channel!DeliverOn
  <2>3. CASE delivered' = d /\ UNCHANGED garbled /\ c = <<>>
    BY <1>2, <1>3, <2>3 DEF Channelled, d
  <2>4. CASE garbled' = TRUE /\ UNCHANGED delivered
    BY <1>3, <2>4 DEF Channelled, Channel!Refuse
  <2> QED
    BY <1>3, <2>1, <2>2, <2>3, <2>4
<1> QED
  BY <1>6, <1>8, <1>9, <1>10, <1>11 DEF IInv
\* buffer_in moves the cursor and what is past it, and consumes nothing.
LEMMA RebuildStep ==
  ASSUME IInv, Rebuild, taken' = taken + Got, UNCHANGED <<peer, events, history>>
  PROVE  IInv' /\ Channelled
<1> DEFINE rest == Unread(Filled, pos)
           n == taken + Got
<1>1. /\ RoomyCap \in Nat /\ Got \in Nat /\ n <= sent
      /\ Filled \in Seq(Nat) /\ Len(Filled) = Len(vec) + Got /\ Len(Filled) <= RoomyCap
      /\ \A i \in (pos + 1)..Len(Filled) : Filled[i] = n - Len(Filled) + i
  BY FilledProperties
<1>2. /\ Len(vec) \in Nat /\ pos \in Nat /\ pos <= Len(vec) /\ taken \in Nat
      /\ Consumed = taken - (Len(vec) - pos)
  BY Numbers
<1>3. /\ rest \in Seq(Nat) /\ Len(rest) = Len(Filled) - pos
      /\ \A i \in 1..Len(rest) : rest[i] = n - Len(rest) + i
  <2>1. n \in Nat /\ pos <= Len(Filled)
    BY <1>1, <1>2
  <2>2. /\ rest \in Seq(Nat) /\ Len(rest) = Len(Filled) - pos
        /\ \A i \in 1..(Len(Filled) - pos) : rest[i] = n - (Len(Filled) - pos) + i
    BY <1>1, <1>2, <2>1, UnreadProperties
  <2> QED
    BY <2>2
<1> HIDE DEF rest, n
<1>4. /\ vec' \in Seq(Nat) /\ pos' \in Nat /\ cap' \in Nat
      /\ pos' <= Len(vec') /\ Len(vec') <= cap'
      /\ Len(vec') - pos' = Len(Filled) - pos
      /\ \A i \in (pos' + 1)..Len(vec') : vec'[i] = n - Len(vec') + i
      /\ pc' \in {"idle", "reading"} /\ state' \in {"Open", "AwaitingClose", "lost"}
      /\ failed' \in BOOLEAN
  <2>1. CASE Len(rest) = RoomyCap /\ ~Grow
    <3>1. vec' = Filled /\ cap' = RoomyCap /\ pos' = pos /\ pc' = "idle" /\ Error("Capacity")
      BY <2>1 DEF Rebuild, rest
    <3>2. state' \in {"Open", "AwaitingClose", "lost"} /\ failed' \in BOOLEAN
      BY <3>1, ErrorStep DEF IInv
    <3> QED
      BY <1>1, <1>2, <3>1, <3>2
  <2>2. CASE ~(Len(rest) = RoomyCap /\ ~Grow)
    <3>1. /\ vec' = rest /\ pos' = 0 /\ pc' = pc /\ state' = state /\ failed' = failed
          /\ cap' = IF Len(rest) = RoomyCap THEN Grown(RoomyCap, RoomyCap + Capacity) ELSE RoomyCap
      BY <2>2 DEF Rebuild, rest
    <3>2. cap' \in Nat /\ cap' >= RoomyCap
      <4>1. RoomyCap + Capacity \in Nat
        BY <1>1, InBufferAssumption
      <4> QED
        BY <1>1, <3>1, <4>1, GrownProperties
    <3>3. /\ pc' \in {"idle", "reading"} /\ state' \in {"Open", "AwaitingClose", "lost"}
          /\ failed' \in BOOLEAN
      BY <3>1 DEF IInv, TypeOK
    <3>4. Len(rest) \in Nat /\ Len(rest) <= cap'
      BY <1>1, <1>2, <1>3, <3>2
    <3> QED
      BY <1>3, <3>1, <3>2, <3>3, <3>4
  <2> QED
    BY <2>1, <2>2
<1>5. taken' = n /\ n \in Nat
  BY <1>1, <1>2 DEF n
<1>6. Len(vec') \in Nat /\ Consumed' = Consumed /\ Consumed' = n - (Len(vec') - pos')
  <2>1. Len(vec') \in Nat
    BY <1>4, LenProperties
  <2>2. Consumed' = n - (Len(vec') - pos')
    BY <1>5 DEF Consumed
  <2> QED
    BY <1>1, <1>2, <1>4, <2>1, <2>2 DEF n
<1>7. TypeOK'
  BY <1>4, <1>5 DEF IInv, TypeOK, peer, events, history
<1>8. NothingLost'
  <2>1. ASSUME ~garbled' PROVE Len(delivered') + (Len(vec') - pos') = taken'
    <3>1. Len(delivered') = Consumed'
      BY <1>6, <2>1, NoneWithheld DEF history
    <3> QED
      BY <1>4, <1>5, <1>6, <3>1
  <2>2. taken' <= sent'
    BY <1>1, <1>5 DEF peer
  <2> QED
    BY <1>4, <1>5, <2>1, <2>2 DEF NothingLost
<1>9. WholeCharacters' /\ InOrder'
  BY <1>6 DEF IInv, WholeCharacters, InOrder, Channel!Last, Channel!Stream, history
<1> QED
  BY <1>7, <1>8, <1>9 DEF IInv, Channelled, peer, history

\* Every step of the loop.
LEMMA LoopInductive == ASSUME IInv, LoopStep PROVE IInv' /\ Channelled
<1>1. /\ RoomyCap \in Nat /\ RoomyCap >= cap /\ Got \in Nat /\ taken + Got <= sent
      /\ Filled \in Seq(Nat) /\ Len(Filled) = Len(vec) + Got /\ Len(Filled) <= RoomyCap
      /\ \A i \in (pos + 1)..Len(Filled) : Filled[i] = (taken + Got) - Len(Filled) + i
  BY FilledProperties
<1>2. /\ vec \in Seq(Nat) /\ Len(vec) \in Nat /\ pos \in Nat /\ cap \in Nat
      /\ pos <= Len(vec) /\ Len(vec) <= cap /\ taken \in Nat /\ sent \in Nat /\ taken <= sent
      /\ Consumed = taken - (Len(vec) - pos)
  BY Numbers
<1>3. TypeOK
  BY DEF IInv
<1>4. CASE Readable
  BY <1>2, <1>3, <1>4, StillStep DEF Readable, Channelled, peer, events, history, TypeOK
<1>5. CASE ReadSome
  <2>1. ReadData(Filled) /\ taken' = taken + Got /\ UNCHANGED peer
    BY <1>5 DEF ReadSome
  <2>2. taken + Got \in Nat /\ pos <= Len(Filled) /\ (taken + Got) - (Len(Filled) - pos) = Consumed
    BY <1>1, <1>2
  <2> QED
    BY <1>1, <2>1, <2>2, ReadDataStep
<1>6. CASE ReadFull
  BY <1>6, RebuildStep DEF ReadFull
<1>7. CASE ReadEnd
  <2>1. ReadData(vec) /\ taken' = taken /\ UNCHANGED peer
    BY <1>7 DEF ReadEnd
  <2>2. \A i \in (pos + 1)..Len(vec) : vec[i] = taken - Len(vec) + i
    BY DEF IInv, NothingLost
  <2>3. Len(vec) <= RoomyCap /\ taken - (Len(vec) - pos) = Consumed
    BY <1>1, <1>2
  <2> QED
    BY <1>1, <1>2, <2>1, <2>2, <2>3, ReadDataStep
<1>8. CASE ReadBlocks \/ ReadFails
  <2>1. state' \in {"Open", "AwaitingClose", "lost"} /\ failed' \in BOOLEAN
    BY <1>3, <1>8, ErrorStep DEF ReadBlocks, ReadFails, TypeOK
  <2>2. /\ pc' = "idle" /\ cap' = RoomyCap
        /\ UNCHANGED <<sent, fin, taken, vec, pos, reads, writes, delivered, garbled, empties>>
    BY <1>8 DEF ReadBlocks, ReadFails, peer, events, history
  <2> QED
    BY <1>1, <1>2, <1>3, <2>1, <2>2, StillStep DEF Channelled, TypeOK
<1> QED
  BY <1>4, <1>5, <1>6, <1>7, <1>8 DEF LoopStep

\* What the rest of the connection does between two reads.
LEMMA OutputStep == ASSUME IInv, Output \/ Breaks PROVE IInv' /\ Channelled
<1>1. /\ reads' \in BOOLEAN /\ writes' \in BOOLEAN /\ failed' \in BOOLEAN
      /\ state' \in {"Open", "AwaitingClose", "lost"}
  BY DEF IInv, TypeOK, Output, Breaks, events
<1>2. UNCHANGED <<pc, sent, fin, taken, vec, pos, cap, delivered, garbled, empties>>
  BY DEF Output, Breaks, peer, history
<1>3. sent' \in Nat /\ sent' >= sent /\ cap' \in Nat /\ cap' >= cap
  BY <1>2, Numbers
<1>4. fin' \in BOOLEAN /\ pc' \in {"idle", "reading"}
  BY <1>2 DEF IInv, TypeOK
<1> QED
  BY <1>1, <1>2, <1>3, <1>4, StillStep DEF Channelled

LEMMA ArriveStep == ASSUME IInv, Arrive PROVE IInv' /\ Channel!Accept
<1>1. sent' \in Nat /\ sent' >= sent /\ fin' \in BOOLEAN
  <2>1. CASE sent' = sent + 1 /\ UNCHANGED fin
    <3>1. sent' \in Nat /\ sent' >= sent
      BY <2>1, Numbers
    <3> QED
      BY <2>1, <3>1 DEF IInv, TypeOK
  <2>2. CASE fin' = TRUE /\ UNCHANGED sent
    BY <2>2, Numbers
  <2> QED
    BY <2>1, <2>2 DEF Arrive
<1>2. UNCHANGED <<pc, taken, vec, pos, cap, state, reads, writes, failed, delivered, garbled, empties>>
  BY DEF Arrive, events, history
<1>3. cap' \in Nat /\ cap' >= cap
  BY <1>2, Numbers
<1>4. /\ pc' \in {"idle", "reading"} /\ state' \in {"Open", "AwaitingClose", "lost"}
      /\ reads' \in BOOLEAN /\ writes' \in BOOLEAN /\ failed' \in BOOLEAN
  BY <1>2 DEF IInv, TypeOK
<1> QED
  BY <1>1, <1>2, <1>3, <1>4, StillStep DEF Channel!Accept

LEMMA Initially == Init => IInv
<1> SUFFICES ASSUME Init PROVE IInv
  OBVIOUS
<1>1. /\ vec = <<>> /\ pos = 0 /\ cap = Capacity /\ taken = 0 /\ sent = 0 /\ delivered = <<>>
      /\ Len(vec) = 0 /\ Len(delivered) = 0 /\ Capacity \in Nat
  BY InBufferAssumption DEF Init
<1>2. TypeOK
  <2>1. vec \in Seq(Nat) /\ delivered \in Seq(Nat)
    BY <1>1
  <2>2. pos \in Nat /\ cap \in Nat /\ taken \in Nat /\ sent \in Nat
    BY <1>1
  <2> QED
    BY <2>1, <2>2 DEF Init, TypeOK
<1>3. NothingLost /\ WholeCharacters
  BY <1>1 DEF NothingLost, WholeCharacters
<1>4. InOrder
  <2>1. Consumed = 0
    <3>1. Len(vec) = 0 /\ taken = 0 /\ pos = 0
      BY <1>1
    <3>2. taken - (Len(vec) - pos) = 0
      BY <3>1
    <3> QED
      BY <3>2 DEF Consumed
  <2>2. Channel!Stream(0) = <<>>
    BY DEF Channel!Stream
  <2> QED
    BY <1>1, <2>1, <2>2 DEF InOrder, Channel!Last
<1> QED
  BY <1>2, <1>3, <1>4 DEF IInv

LEMMA Inductive == IInv /\ [Next]_vars => IInv' /\ (Channel!Accept \/ Channelled)
<1> SUFFICES ASSUME IInv, [Next]_vars PROVE IInv' /\ (Channel!Accept \/ Channelled)
  OBVIOUS
<1>1. CASE UNCHANGED vars
  <2>1. IInv'
    BY <1>1 DEF vars, peer, events, history, IInv, TypeOK, NothingLost, WholeCharacters, InOrder, Consumed,
                Channel!Last, Channel!Stream
  <2> QED
    BY <1>1, <2>1 DEF Channelled, vars, peer, history
<1> QED
  BY <1>1, ArriveStep, OutputStep, LoopInductive DEF Next

-----------------------------------------------------------------------------
(* The theorems *)

\* The invariant holds in every behaviour.
THEOREM Invariance == Spec => []IInv
BY Initially, Inductive, PTL DEF Spec

\* The variables keep their types, whatever arrives and however it is read.
\* (connection.rs, buffer_in, read_data; stream.rs, try_read_buf)
THEOREM TypeCorrect == Spec => []TypeOK
<1>1. IInv => TypeOK
  BY DEF IInv
<1> QED
  BY <1>1, Invariance, PTL

\* Rebuilding the vector loses and repeats no byte, for every capacity and every
\* growth.  (connection.rs, buffer_in)
THEOREM NothingIsLost == Spec => []NothingLost
<1>1. IInv => NothingLost
  BY DEF IInv
<1> QED
  BY <1>1, Invariance, PTL

\* on_message is never given half a character, however the text is cut into reads,
\* also after a chunk was refused.  (connection.rs, read_data)
THEOREM CharactersStayWhole == Spec => []WholeCharacters
<1>1. IInv => WholeCharacters
  BY DEF IInv
<1> QED
  BY <1>1, Invariance, PTL

\* The input implements the channel: what on_message is given is what the peer sent,
\* in order and none twice, without gaps until a chunk is refused.
\* (connection.rs, read, buffer_in, read_data)
THEOREM Refinement == Spec => ChannelSpec
<1>1. Init => Channel!Init
  BY DEF Init, Channel!Init
<1>2. IInv /\ [Next]_vars =>
        [Channel!Accept \/ Channel!Deliver \/ Channel!DeliverOn \/ Channel!Refuse]_<<sent, delivered, garbled>>
  BY Inductive DEF Channelled
<1> QED
  BY <1>1, <1>2, Invariance, PTL DEF Spec, ChannelSpec, Channel!Spec
=============================================================================
