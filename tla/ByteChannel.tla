---------------------------- MODULE ByteChannel ----------------------------
(***************************************************************************)
(* What the buffers of a connection promise: the bytes accepted come out   *)
(* in the order they came, none twice, and none is left out until a part   *)
(* of them is refused; after that what comes out is still in order.  The   *)
(* bytes are numbered in the order they were accepted.                     *)
(***************************************************************************)
EXTENDS Integers, Sequences

VARIABLES accepted,  \* how many bytes were accepted
          delivered, \* the bytes that came out
          refused    \* some bytes were left out

\* The first n bytes, and the bytes from a to b.
Stream(n) == [i \in 1..n |-> i]
Part(a, b) == [i \in 1..(b - a + 1) |-> a + i - 1]

Last == IF delivered = <<>> THEN 0 ELSE delivered[Len(delivered)]

Init == accepted = 0 /\ delivered = <<>> /\ refused = FALSE

Accept == accepted' \in Nat /\ accepted' >= accepted /\ UNCHANGED <<delivered, refused>>

Deliver ==
  /\ ~refused
  /\ \E n \in Len(delivered)..accepted : delivered' = Stream(n)
  /\ UNCHANGED <<accepted, refused>>

\* What follows a refused part.
DeliverOn ==
  /\ refused
  /\ \E a, b \in (Last + 1)..accepted : delivered' = delivered \o Part(a, b)
  /\ UNCHANGED <<accepted, refused>>

Refuse == refused' = TRUE /\ UNCHANGED <<accepted, delivered>>

Spec == Init /\ [][Accept \/ Deliver \/ DeliverOn \/ Refuse]_<<accepted, delivered, refused>>
=============================================================================
