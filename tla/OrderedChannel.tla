--------------------------- MODULE OrderedChannel ----------------------------
(***************************************************************************)
(* What the swarm bridge promises between two devices: messages, numbered  *)
(* in the order they are sent, arrive in that order and at most once; some *)
(* may be lost.                                                            *)
(***************************************************************************)
EXTENDS Naturals, Sequences

VARIABLES
  sent,       \* number of messages sent
  pending,    \* those on their way, oldest first
  delivered   \* those handed to the receiving application, oldest first

vars == <<sent, pending, delivered>>

Init == sent = 0 /\ pending = <<>> /\ delivered = <<>>

Send ==
  /\ sent' = sent + 1
  /\ pending' = Append(pending, sent + 1)
  /\ UNCHANGED delivered

Deliver ==
  /\ pending # <<>>
  /\ delivered' = Append(delivered, Head(pending))
  /\ pending' = Tail(pending)
  /\ UNCHANGED sent

\* The messages after the first i and before the j-th are lost together.
Lose ==
  /\ \E i \in 0..Len(pending), j \in 1..(Len(pending) + 1) :
       /\ i < j
       /\ pending' = SubSeq(pending, 1, i) \o SubSeq(pending, j, Len(pending))
  /\ UNCHANGED <<sent, delivered>>

Next == Send \/ Deliver \/ Lose

Spec == Init /\ [][Next]_vars

\* Messages are delivered in the order they were sent, none twice.
InOrder ==
  \A i, j \in 1..Len(delivered) : i < j => delivered[i] < delivered[j]
=============================================================================
