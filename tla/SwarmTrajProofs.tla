--------------------------- MODULE SwarmTrajProofs ---------------------------
(***************************************************************************)
(* Proofs about SwarmTraj, for any number of drones and broadcasts.  The   *)
(* order of the start rests on three facts: a store is as long as the      *)
(* highest drone heard requires, an entry holds what its drone really      *)
(* sent, and a drone other than the first has planned, or was stopped      *)
(* before it could, only if its flag is set; which it is at an entry that  *)
(* was valid then.                                                         *)
(***************************************************************************)
EXTENDS SwarmTraj, TLAPS

\* A store reaches up to a drone that was heard.
SizeInv == \A d \in Drones : size[d] > 0 => sent[size[d] - 1] > 0

\* An entry never runs ahead of its drone, and a valid one is not blank.
EntryInv ==
  \A r, s \in Drones :
    /\ start[r][s] <= sent[s]
    /\ valid[r][s] => start[r][s] > 0

\* What the flag means once it is set.
FlagInv == \A d \in Drones : pre[d] => d > 0 /\ size[d] >= d /\ start[d][0] > 0

\* Who has sent something has planned or was stopped, and who has planned was
\* allowed to.
SentInv ==
  \A d \in Drones :
    /\ sent[d] > 0 => d \in planned \union braked
    /\ d \in planned => d = 0 \/ pre[d] \/ d \in braked

Inv == TypeOK /\ SizeInv /\ EntryInv /\ FlagInv /\ SentInv

LEMMA Numbers ==
  /\ N \in Nat \ {0}
  /\ 0 \in Drones
  /\ \A d \in Drones : d \in Nat /\ d < N
  /\ \A n \in 1..N : n - 1 \in Drones
BY SizeAssumption DEF SizeAssumption, Drones

LEMMA InvInit == Init => Inv
BY SizeAssumption DEF SizeAssumption, Init, Inv, TypeOK, SizeInv, EntryInv, FlagInv, SentInv,
   Drones

\* What every broadcast leaves as it was.
LEMMA BroadcastStep ==
  ASSUME Inv, NEW d \in Drones, Broadcast(d), UNCHANGED <<size, valid, start, pre>>
  PROVE  /\ sent' \in [Drones -> Nat]
         /\ \A s \in Drones : s # d => sent'[s] = sent[s]
         /\ SizeInv' /\ EntryInv' /\ FlagInv'
<1>1. sent' = [sent EXCEPT ![d] = @ + 1]
  BY DEF Broadcast
<1>2. sent' \in [Drones -> Nat] /\ (\A s \in Drones : s # d => sent'[s] = sent[s])
  BY <1>1 DEF Inv, TypeOK
<1>3. \A s \in Drones : sent'[s] >= sent[s]
  BY <1>1 DEF Inv, TypeOK
<1>4. SizeInv'
  <2> SUFFICES ASSUME NEW e \in Drones, size[e] > 0
               PROVE  sent'[size[e] - 1] > 0
    BY DEF SizeInv
  <2>1. size[e] \in 1..N
    BY Numbers DEF Inv, TypeOK
  <2>2. size[e] - 1 \in Drones
    BY <2>1, Numbers
  <2>3. sent[size[e] - 1] > 0
    BY DEF Inv, SizeInv
  <2> QED BY <2>2, <2>3, <1>2, <1>3 DEF Inv, TypeOK
<1>5. EntryInv'
  BY <1>2, <1>3 DEF Inv, TypeOK, EntryInv
<1>6. FlagInv'
  BY DEF Inv, FlagInv
<1> QED BY <1>2, <1>4, <1>5, <1>6

LEMMA PlanStep ==
  ASSUME Inv, NEW d \in Drones, PlanAndBroadcast(d)
  PROVE  Inv'
<1>1. Broadcast(d) /\ planned' = planned \union {d} /\ MayPlan(d)
  BY DEF PlanAndBroadcast
<1>2. UNCHANGED <<size, valid, start, pre, braked>>
  BY DEF PlanAndBroadcast
<1>3. /\ sent' \in [Drones -> Nat]
      /\ \A s \in Drones : s # d => sent'[s] = sent[s]
      /\ SizeInv' /\ EntryInv' /\ FlagInv'
  BY <1>1, <1>2, BroadcastStep
<1>4. TypeOK'
  BY <1>1, <1>2, <1>3 DEF Inv, TypeOK
<1>5. d = 0 \/ pre[d] \/ d \in planned \union braked
  BY <1>1 DEF Inv, SentInv, MayPlan
<1>6. SentInv'
  BY <1>1, <1>2, <1>3, <1>5 DEF Inv, SentInv
<1> QED BY <1>3, <1>4, <1>6 DEF Inv

LEMMA BrakeStep ==
  ASSUME Inv, NEW d \in Drones, BrakeAndBroadcast(d)
  PROVE  Inv'
<1>1. /\ Broadcast(d)
      /\ braked' = IF d \in planned THEN braked ELSE braked \union {d}
  BY DEF BrakeAndBroadcast
<1>2. UNCHANGED <<size, valid, start, pre, planned>>
  BY DEF BrakeAndBroadcast
<1>3. /\ sent' \in [Drones -> Nat]
      /\ \A s \in Drones : s # d => sent'[s] = sent[s]
      /\ SizeInv' /\ EntryInv' /\ FlagInv'
  BY <1>1, <1>2, BroadcastStep
<1>4. TypeOK'
  BY <1>1, <1>2, <1>3 DEF Inv, TypeOK
<1>5. SentInv'
  BY <1>1, <1>2, <1>3 DEF Inv, SentInv
<1> QED BY <1>3, <1>4, <1>5 DEF Inv

\* What every way of receiving does to the length of the store.
LEMMA FilledStep ==
  ASSUME Inv, NEW r \in Drones, NEW s \in Drones, NEW k \in 1..sent[s],
         size' = [size EXCEPT ![r] = Filled(r, s)], UNCHANGED sent
  PROVE  /\ size' \in [Drones -> 0..N]
         /\ SizeInv'
         /\ \A d \in Drones : size'[d] >= size[d]
<1>0. size[r] \in 0..N
  BY DEF Inv, TypeOK
<1>1. Filled(r, s) \in 0..N /\ Filled(r, s) >= size[r]
  BY <1>0, Numbers DEF Filled
<1>2. Filled(r, s) > 0 => sent[Filled(r, s) - 1] > 0
  <2>1. CASE size[r] <= s
    <3>1. Filled(r, s) - 1 = s
      BY <2>1, Numbers DEF Filled
    <3>2. sent[s] > 0
      BY DEF Inv, TypeOK
    <3> QED BY <3>1, <3>2
  <2>2. CASE ~(size[r] <= s)
    BY <2>2 DEF Filled, Inv, SizeInv
  <2> QED BY <2>1, <2>2
<1> QED BY <1>1, <1>2 DEF Inv, TypeOK, SizeInv

LEMMA OldStep ==
  ASSUME Inv, NEW r \in Drones, NEW s \in Drones, NEW k \in 1..sent[s], RecvOld(r, s, k)
  PROVE  Inv'
<1>1. /\ size' = [size EXCEPT ![r] = Filled(r, s)]
      /\ UNCHANGED <<sent, valid, start, pre, planned, braked>>
  BY DEF RecvOld
<1>2. /\ size' \in [Drones -> 0..N]
      /\ SizeInv'
      /\ \A d \in Drones : size'[d] >= size[d]
  BY <1>1, FilledStep
<1>3. TypeOK'
  BY <1>1, <1>2 DEF Inv, TypeOK
<1>4. EntryInv' /\ SentInv'
  BY <1>1 DEF Inv, EntryInv, SentInv
<1>5. FlagInv'
  BY <1>1, <1>2, Numbers DEF Inv, TypeOK, FlagInv
<1> QED BY <1>2, <1>3, <1>4, <1>5 DEF Inv

LEMMA FarStep ==
  ASSUME Inv, NEW r \in Drones, NEW s \in Drones, NEW k \in 1..sent[s], RecvFar(r, s, k)
  PROVE  Inv'
<1>1. /\ size' = [size EXCEPT ![r] = Filled(r, s)]
      /\ valid' = [valid EXCEPT ![r][s] = FALSE]
      /\ UNCHANGED <<sent, start, pre, planned, braked>>
  BY DEF RecvFar
<1>2. /\ size' \in [Drones -> 0..N]
      /\ SizeInv'
      /\ \A d \in Drones : size'[d] >= size[d]
  BY <1>1, FilledStep
<1>3. valid' \in [Drones -> [Drones -> BOOLEAN]]
  BY <1>1, Zenon DEF Inv, TypeOK
<1>4. TypeOK'
  BY <1>1, <1>2, <1>3 DEF Inv, TypeOK
<1>5. EntryInv'
  BY <1>1 DEF Inv, TypeOK, EntryInv
<1>6. SentInv'
  BY <1>1 DEF Inv, SentInv
<1>7. FlagInv'
  BY <1>1, <1>2, Numbers DEF Inv, TypeOK, FlagInv
<1> QED BY <1>2, <1>4, <1>5, <1>6, <1>7 DEF Inv

LEMMA StoredStep ==
  ASSUME Inv, NEW r \in Drones, NEW s \in Drones, NEW k \in 1..sent[s],
         NEW far \in BOOLEAN, RecvStored(r, s, k, far)
  PROVE  Inv'
<1>1. /\ size' = [size EXCEPT ![r] = Filled(r, s)]
      /\ valid' = [valid EXCEPT ![r][s] = TRUE]
      /\ start' = [start EXCEPT ![r][s] = k]
      /\ pre' = [pre EXCEPT ![r] = @ \/ PreHeard(r, valid'[r])]
      /\ UNCHANGED <<sent, planned, braked>>
      /\ k > start[r][s]
  BY DEF RecvStored, Old, Inv, TypeOK
<1>2. /\ size' \in [Drones -> 0..N]
      /\ SizeInv'
      /\ \A d \in Drones : size'[d] >= size[d]
  BY <1>1, FilledStep
<1>3. valid' \in [Drones -> [Drones -> BOOLEAN]]
  BY <1>1, Zenon DEF Inv, TypeOK
<1>4. start' \in [Drones -> [Drones -> Nat]]
  BY <1>1 DEF Inv, TypeOK
<1>5. pre' \in [Drones -> BOOLEAN]
  BY <1>1, Zenon DEF Inv, TypeOK
<1>6. TypeOK'
  BY <1>1, <1>2, <1>3, <1>4, <1>5 DEF Inv, TypeOK
<1>7. EntryInv'
  BY <1>1, <1>4 DEF Inv, TypeOK, EntryInv
<1>8. SentInv'
  <2>1. \A d \in Drones : pre[d] => pre'[d]
    BY <1>1 DEF Inv, TypeOK
  <2> QED BY <2>1, <1>1 DEF Inv, TypeOK, SentInv
<1>9. FlagInv'
  <2> SUFFICES ASSUME NEW d \in Drones, pre'[d]
               PROVE  d > 0 /\ size'[d] >= d /\ start'[d][0] > 0
    BY DEF FlagInv
  <2>0. 0 \in Drones /\ d \in Nat /\ size'[d] \in Nat /\ size[d] \in Nat
    BY <1>2, Numbers DEF Inv, TypeOK
  <2>1. \A t \in Drones : start'[d][t] >= start[d][t]
    BY <1>1 DEF Inv, TypeOK
  <2>2. CASE pre[d]
    <3>1. d > 0 /\ size[d] >= d /\ start[d][0] > 0
      BY <2>2 DEF Inv, FlagInv
    <3>2. start'[d][0] >= start[d][0] /\ start'[d][0] \in Nat /\ start[d][0] \in Nat
      BY <2>0, <2>1, <1>4 DEF Inv, TypeOK
    <3> QED BY <3>1, <3>2, <2>0, <1>2
  <2>3. CASE ~pre[d]
    <3>1. d = r /\ PreHeard(r, valid'[r])
      BY <2>3, <1>1, Zenon DEF Inv, TypeOK
    <3>2. size'[d] >= d /\ d > 0 /\ valid'[d][0]
      BY <3>1 DEF PreHeard
    <3>3. start'[d][0] > 0
      BY <3>2, <2>0, <1>7 DEF EntryInv
    <3> QED BY <3>2, <3>3
  <2> QED BY <2>2, <2>3
<1> QED BY <1>2, <1>6, <1>7, <1>8, <1>9 DEF Inv

LEMMA InvStep == Inv /\ [Next]_vars => Inv'
<1> SUFFICES ASSUME Inv, [Next]_vars PROVE Inv'
  OBVIOUS
<1>1. ASSUME NEW d \in Drones, PlanAndBroadcast(d) \/ BrakeAndBroadcast(d) PROVE Inv'
  BY <1>1, PlanStep, BrakeStep
<1>2. ASSUME NEW r \in Drones, NEW s \in Drones, Deliver(r, s) PROVE Inv'
  <2>1. PICK k \in 1..sent[s] : Recv(r, s, k)
    BY <1>2 DEF Deliver
  <2> QED BY <2>1, OldStep, StoredStep, FarStep DEF Recv
<1>3. ASSUME UNCHANGED vars PROVE Inv'
  BY <1>3 DEF vars, Inv, TypeOK, SizeInv, EntryInv, FlagInv, SentInv
<1> QED BY <1>1, <1>2, <1>3 DEF Next

THEOREM Correct == Spec => []Inv
BY InvInit, InvStep, PTL DEF Spec

\* Every variable stays in its type: no store is longer than the swarm.
THEOREM TypeCorrect == Spec => []TypeOK
BY Correct, PTL DEF Inv

\* The start of the swarm is in order as far as StartsInOrder says, for any
\* number of drones and whatever the radio does.
THEOREM StartOrdered == Spec => []StartsInOrder
<1>1. Inv => StartsInOrder
  <2> SUFFICES ASSUME Inv, NEW d \in planned \ ({0} \union braked)
               PROVE  /\ start[d][0] \in 1..sent[0]
                      /\ \E s \in Drones : s >= d - 1 /\ sent[s] > 0 /\ s < size[d]
    BY DEF StartsInOrder
  <2>1. d \in Drones /\ pre[d]
    BY DEF Inv, TypeOK, SentInv
  <2>2. d > 0 /\ size[d] >= d /\ start[d][0] > 0
    BY <2>1 DEF Inv, FlagInv
  <2>3. 0 \in Drones /\ d \in Nat /\ size[d] \in 0..N /\ N \in Nat
    BY Numbers DEF Inv, TypeOK
  <2>4. start[d][0] \in 1..sent[0]
    BY <2>2, <2>3 DEF Inv, TypeOK, EntryInv
  <2>5. size[d] - 1 \in Drones /\ size[d] - 1 >= d - 1 /\ sent[size[d] - 1] > 0
    BY <2>1, <2>2, <2>3, Numbers DEF Inv, SizeInv
  <2>6. size[d] - 1 < size[d]
    BY <2>3
  <2> QED BY <2>4, <2>5, <2>6
<1> QED BY <1>1, Correct, PTL

\* A stored trajectory is never replaced by an older one, for any number of
\* drones and broadcasts.
THEOREM NeverBack == Spec => NeverGoesBack
<1>1. Inv /\ [Next]_vars
        => [\A r, s \in Drones : start'[r][s] >= start[r][s]]_vars
  <2> SUFFICES ASSUME Inv, Next
               PROVE  \A r, s \in Drones : start'[r][s] >= start[r][s]
    OBVIOUS
  <2>1. ASSUME UNCHANGED start PROVE \A r, s \in Drones : start'[r][s] >= start[r][s]
    BY <2>1 DEF Inv, TypeOK
  <2>2. ASSUME NEW d \in Drones, PlanAndBroadcast(d) \/ BrakeAndBroadcast(d)
        PROVE  UNCHANGED start
    BY <2>2 DEF PlanAndBroadcast, BrakeAndBroadcast
  <2>3. ASSUME NEW r \in Drones, NEW s \in Drones, Deliver(r, s)
        PROVE  \A a, b \in Drones : start'[a][b] >= start[a][b]
    <3>1. PICK k \in 1..sent[s] : Recv(r, s, k)
      BY <2>3 DEF Deliver
    <3>2. CASE RecvOld(r, s, k) \/ RecvFar(r, s, k)
      BY <3>2, <2>1 DEF RecvOld, RecvFar
    <3>3. ASSUME NEW far \in BOOLEAN, RecvStored(r, s, k, far)
          PROVE  \A a, b \in Drones : start'[a][b] >= start[a][b]
      BY <3>3 DEF RecvStored, Old, Inv, TypeOK
    <3> QED BY <3>1, <3>2, <3>3 DEF Recv
  <2> QED BY <2>1, <2>2, <2>3 DEF Next
<1> QED BY <1>1, Correct, PTL DEF Spec, NeverGoesBack
=============================================================================
