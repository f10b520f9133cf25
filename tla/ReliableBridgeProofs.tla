------------------------ MODULE ReliableBridgeProofs -------------------------
(***************************************************************************)
(* The bridge implements OrderedChannel, for every queue and socket size:  *)
(* whatever the threads, the connection and the peer do, messages arrive   *)
(* in the order they were sent and at most once.                           *)
(***************************************************************************)
EXTENDS ReliableBridge, SequenceTheorems, TLAPS

\* The sender has a message in hand whenever it sends or pops one.
Inv ==
  /\ TypeOK
  /\ sender \in {"send", "pop"} => queue # <<>>
  /\ producer = "checked" => accepted < MaxMsgs /\ (running => Len(queue) <= QueueSize)
  /\ producer # "idle" => running

-----------------------------------------------------------------------------
(* Sequences.                                                              *)

LEMMA MoveHead ==
  ASSUME NEW w \in Seq(Nat), NEW q \in Seq(Nat), q # <<>>
  PROVE  Append(w, Head(q)) \o Tail(q) = w \o q
<1>1. Head(q) \in Nat /\ Tail(q) \in Seq(Nat) /\ <<Head(q)>> \in Seq(Nat)
  BY HeadTailProperties
<1>2. Append(w, Head(q)) = w \o <<Head(q)>>  BY <1>1, AppendIsConcat
<1>3. <<Head(q)>> \o Tail(q) = q  OBVIOUS
<1>4. (w \o <<Head(q)>>) \o Tail(q) = w \o (<<Head(q)>> \o Tail(q))
  BY <1>1, ConcatAssociative
<1> QED  BY <1>2, <1>3, <1>4, Zenon

LEMMA AppendRight ==
  ASSUME NEW w \in Seq(Nat), NEW u \in Seq(Nat), NEW x \in Nat
  PROVE  w \o Append(u, x) = Append(w \o u, x)
<1>1. w \o u \in Seq(Nat) /\ <<x>> \in Seq(Nat)  OBVIOUS
<1>2. Append(u, x) = u \o <<x>> /\ Append(w \o u, x) = (w \o u) \o <<x>>
  BY <1>1, AppendIsConcat
<1>3. (w \o u) \o <<x>> = w \o (u \o <<x>>)  BY <1>1, ConcatAssociative
<1> QED  BY <1>2, <1>3, Zenon

\* Cutting a concatenation inside or at the end of its first part.
LEMMA CutConcat ==
  ASSUME NEW w \in Seq(Nat), NEW u \in Seq(Nat), NEW n \in 0..Len(w)
  PROVE  /\ SubSeq(w \o u, 1, n) = SubSeq(w, 1, n)
         /\ SubSeq(w \o u, Len(w) + 1, Len(w \o u)) = u
<1>1. /\ w \o u \in Seq(Nat) /\ Len(w \o u) = Len(w) + Len(u)
      /\ \A i \in 1..(Len(w) + Len(u)) :
           (w \o u)[i] = IF i <= Len(w) THEN w[i] ELSE u[i - Len(w)]
  BY ConcatProperties
<1>2. SubSeq(w \o u, 1, n) = SubSeq(w, 1, n)
  <2>1. CASE n = 0
    BY <2>1, SubSeqEmpty
  <2>2. CASE n # 0
    BY <2>2, SubSeqOfConcat1
  <2> QED  BY <2>1, <2>2
<1>3. SubSeq(w \o u, Len(w) + 1, Len(w \o u)) = u
  <2>1. CASE u = <<>>
    <3>1. Len(w) \in Nat /\ Len(w \o u) = Len(w)  BY <1>1, <2>1
    <3> QED  BY <2>1, <3>1, SubSeqEmpty
  <2>2. CASE u # <<>>
    <3>1. Len(u) \in Nat \ {0} /\ Len(w) \in Nat  BY <2>2
    <3>2. /\ Len(w) + 1 \in Len(w) + 1 .. Len(w) + Len(u)
          /\ Len(w) + Len(u) \in Len(w) + 1 .. Len(w) + Len(u)
          /\ Len(w) + 1 - Len(w) = 1 /\ Len(w) + Len(u) - Len(w) = Len(u)
      BY <3>1
    <3>3. SubSeq(w \o u, Len(w) + 1, Len(w) + Len(u))
            = SubSeq(u, Len(w) + 1 - Len(w), Len(w) + Len(u) - Len(w))
      BY <3>2, SubSeqOfConcat2
    <3>4. SubSeq(u, 1, Len(u)) = u  BY SubSeqFull
    <3> QED  BY <1>1, <3>2, <3>3, <3>4
  <2> QED  BY <2>1, <2>2
<1> QED  BY <1>2, <1>3

LEMMA HeadConcat ==
  ASSUME NEW w \in Seq(Nat), NEW u \in Seq(Nat), w # <<>>
  PROVE  /\ w \o u # <<>>
         /\ Head(w \o u) = Head(w)
         /\ Tail(w \o u) = Tail(w) \o u
<1>1. /\ w \o u \in Seq(Nat) /\ Len(w \o u) = Len(w) + Len(u)
      /\ \A i \in 1..(Len(w) + Len(u)) :
           (w \o u)[i] = IF i <= Len(w) THEN w[i] ELSE u[i - Len(w)]
  BY ConcatProperties
<1>2. Len(w) \in Nat \ {0} /\ Len(u) \in Nat  OBVIOUS
<1>3. w \o u # <<>>  BY <1>1, <1>2
<1>4. Head(w \o u) = Head(w)  BY <1>1, <1>2
<1>5. /\ Tail(w) \in Seq(Nat) /\ Len(Tail(w)) = Len(w) - 1
      /\ \A i \in 1..(Len(w) - 1) : Tail(w)[i] = w[i + 1]
  BY HeadTailProperties
<1>6. /\ Tail(w \o u) \in Seq(Nat) /\ Len(Tail(w \o u)) = Len(w) + Len(u) - 1
      /\ \A i \in 1..(Len(w) + Len(u) - 1) : Tail(w \o u)[i] = (w \o u)[i + 1]
  BY <1>1, <1>3, HeadTailProperties
<1>7. /\ Tail(w) \o u \in Seq(Nat) /\ Len(Tail(w) \o u) = Len(w) - 1 + Len(u)
      /\ \A i \in 1..(Len(w) - 1 + Len(u)) :
           (Tail(w) \o u)[i] = IF i <= Len(w) - 1 THEN Tail(w)[i] ELSE u[i - (Len(w) - 1)]
  BY <1>5, ConcatProperties
<1>8. \A i \in 1..(Len(w) + Len(u) - 1) : Tail(w \o u)[i] = (Tail(w) \o u)[i]
  <2> SUFFICES ASSUME NEW i \in 1..(Len(w) + Len(u) - 1)
               PROVE  Tail(w \o u)[i] = (Tail(w) \o u)[i]
    OBVIOUS
  <2>1. i + 1 \in 1..(Len(w) + Len(u)) /\ i \in 1..(Len(w) - 1 + Len(u))  BY <1>2
  <2>2. CASE i <= Len(w) - 1
    <3>1. i \in 1..(Len(w) - 1) /\ i + 1 <= Len(w)  BY <1>2, <2>2
    <3>2. Tail(w \o u)[i] = w[i + 1]  BY <1>1, <1>6, <2>1, <3>1
    <3>3. (Tail(w) \o u)[i] = w[i + 1]  BY <1>5, <1>7, <2>1, <2>2, <3>1
    <3> QED  BY <3>2, <3>3
  <2>3. CASE ~(i <= Len(w) - 1)
    <3>1. ~(i + 1 <= Len(w)) /\ i + 1 - Len(w) = i - (Len(w) - 1)  BY <1>2, <2>3
    <3>2. Tail(w \o u)[i] = u[i + 1 - Len(w)]  BY <1>1, <1>6, <2>1, <3>1
    <3>3. (Tail(w) \o u)[i] = u[i - (Len(w) - 1)]  BY <1>7, <2>1, <2>3
    <3> QED  BY <3>1, <3>2, <3>3
  <2> QED  BY <2>2, <2>3
<1>9. Tail(w \o u) = Tail(w) \o u
  BY <1>2, <1>6, <1>7, <1>8, SeqEqual
<1> QED  BY <1>3, <1>4, <1>9

-----------------------------------------------------------------------------
(* Types.                                                                  *)

LEMMA InitInv == Init => Inv
<1> SUFFICES ASSUME Init PROVE Inv
  OBVIOUS
<1>1. QueueSize \in Nat /\ WireSize \in Nat /\ MaxMsgs \in Nat
  BY SizeAssumption DEF SizeAssumption
<1>2. queue \in Seq(Nat) /\ wire \in Seq(Nat) /\ delivered \in Seq(Nat)
  BY DEF Init
<1>3. Len(queue) = 0 /\ Len(wire) = 0
  BY DEF Init
<1>4. running \in BOOLEAN /\ linked \in BOOLEAN /\ registered \in BOOLEAN /\ lost \in BOOLEAN
  BY Zenon DEF Init
<1>5. running
  BY Zenon DEF Init
<1>6. /\ Len(queue) <= QueueSize + 1 /\ Len(wire) <= WireSize
      /\ accepted \in 0..MaxMsgs
  BY <1>1, <1>3 DEF Init
<1>7. /\ producer = "idle" /\ producer # "checked" /\ sender = "start"
      /\ sender \notin {"send", "pop"}
  BY DEF Init
<1> QED  BY <1>2, <1>4, <1>5, <1>6, <1>7, Zenon DEF Inv, TypeOK

LEMMA InvStep == Inv /\ [Next]_vars => Inv'
<1> SUFFICES ASSUME Inv, [Next]_vars PROVE Inv'
  OBVIOUS
<1> USE SizeAssumption DEF Inv, TypeOK, SizeAssumption
<1>1. CASE SendChecks
  BY <1>1 DEF SendChecks, Room, peerVars
<1>2. CASE SendPushes
  <2>1. /\ queue' \in Seq(Nat) /\ Len(queue') <= QueueSize + 1 /\ queue' # <<>>
        /\ accepted' \in 0..MaxMsgs
    BY <1>2 DEF SendPushes
  <2> QED  BY <1>2, <2>1, Zenon DEF SendPushes, peerVars
<1>3. CASE SendNotifies
  BY <1>3 DEF SendNotifies, peerVars
<1>4. CASE StartsWaiting \/ WakesSpuriously \/ ChecksQueue \/ SocketFails
  BY <1>4 DEF StartsWaiting, WakesSpuriously, ChecksQueue, SocketFails, peerVars
<1>5. CASE SocketSends
  BY <1>5 DEF SocketSends, peerVars
<1>6. CASE Pops
  <2>1. Tail(queue) \in Seq(Nat) /\ Len(Tail(queue)) = Len(queue) - 1 /\ Len(queue) \in Nat
    BY <1>6, HeadTailProperties DEF Pops
  <2> QED  BY <1>6, <2>1 DEF Pops, DropFront, NextRound, peerVars
<1>7. CASE StopThread
  <2>1. queue' \in Seq(Nat) /\ Len(queue') <= QueueSize + 1
    BY <1>7 DEF StopThread
  <2>2. lost' \in BOOLEAN /\ running' \in BOOLEAN /\ sender' = "ended" /\ producer' = "idle"
    BY <1>7, Zenon DEF StopThread
  <2>3. sender' \notin {"send", "pop"} /\ producer' # "checked"
    BY <2>2
  <2> QED  BY <1>7, <2>1, <2>2, <2>3, Zenon DEF StopThread, peerVars
<1>8. CASE Receives
  <2>1. Head(wire) \in Nat /\ Tail(wire) \in Seq(Nat) /\ Len(Tail(wire)) = Len(wire) - 1
    BY <1>8, HeadTailProperties DEF Receives
  <2>2. wire' = Tail(wire) /\ delivered' \in {delivered, Append(delivered, Head(wire))}
    BY <1>8, Zenon DEF Receives
  <2>a. wire' \in Seq(Nat) /\ Len(wire') <= WireSize /\ delivered' \in Seq(Nat)
    <3>1. delivered \in Seq(Nat) /\ Len(wire) <= WireSize /\ Len(wire) \in Nat
      OBVIOUS
    <3>2. Append(delivered, Head(wire)) \in Seq(Nat)
      BY <2>1, <3>1
    <3> QED
      <4>1. wire' \in Seq(Nat) /\ Len(wire') <= WireSize  BY <2>1, <2>2, <3>1
      <4>2. delivered' \in Seq(Nat)  BY <2>2, <3>1, <3>2, Zenon
      <4> QED  BY <4>1, <4>2
  <2>3. lost' \in BOOLEAN
    BY <1>8, Zenon DEF Receives
  <2> QED  BY <1>8, <2>a, <2>3, Zenon DEF Receives, threadVars, peerVars
<1>9. CASE Registers \/ Connects \/ PeerRestarts
  <2>a. wire' \in {wire, <<>>}
    BY <1>9, Zenon DEF Registers, Connects, PeerRestarts
  <2>1. wire' \in Seq(Nat) /\ Len(wire') <= WireSize
    <3>1. wire \in Seq(Nat) /\ Len(wire) <= WireSize /\ <<>> \in Seq(Nat) /\ Len(<<>>) <= WireSize
      OBVIOUS
    <3> QED  BY <2>a, <3>1
  <2>2. linked' \in BOOLEAN /\ registered' \in BOOLEAN /\ lost' \in BOOLEAN
    BY <1>9, Zenon DEF Registers, Connects, PeerRestarts
  <2> QED  BY <1>9, <2>1, <2>2, Zenon DEF Registers, Connects, PeerRestarts, threadVars
<1>10. CASE Disconnects
  <2>1. PICK n \in 0..Len(wire) : wire' = SubSeq(wire, 1, n) /\ lost' = (lost \/ n < Len(wire))
    BY <1>10 DEF Disconnects
  <2>2. SubSeq(wire, 1, n) \in Seq(Nat) /\ Len(SubSeq(wire, 1, n)) = n
    BY SubSeqProperties
  <2>3. Len(wire') <= WireSize
    BY <2>1, <2>2
  <2>4. linked' \in BOOLEAN /\ lost' \in BOOLEAN
    BY <1>10, <2>1, Zenon DEF Disconnects
  <2> QED  BY <1>10, <2>1, <2>2, <2>3, <2>4, Zenon DEF Disconnects, threadVars
<1>11. CASE UNCHANGED vars
  BY <1>11 DEF vars, threadVars, peerVars
<1> QED
  BY <1>1, <1>2, <1>3, <1>4, <1>5, <1>6, <1>7, <1>8, <1>9, <1>10, <1>11 DEF Next

\* Every variable keeps its type; in particular the queue of one peer never
\* holds more than queue_size + 1 messages, although its size is tested before
\* the lock is taken and the test is size() > queue_size.
THEOREM TypeCorrect == Spec => []TypeOK
<1>1. Spec => []Inv  BY InitInv, InvStep, PTL DEF Spec
<1>2. Inv => TypeOK  BY DEF Inv
<1> QED  BY <1>1, <1>2, PTL

-----------------------------------------------------------------------------
(* What an ordered channel keeps: s messages sent, p pending, d delivered. *)

\* A sequence of numbers, each greater than the one before.
Rising(q) == \A i, j \in 1..Len(q) : i < j => q[i] < q[j]

\* Delivered messages come before pending ones, and all have been sent.
Ordered(s, p, d) ==
  /\ Rising(d)
  /\ Rising(p)
  /\ \A i \in 1..Len(d), j \in 1..Len(p) : d[i] < p[j]
  /\ \A i \in 1..Len(d) : d[i] <= s
  /\ \A j \in 1..Len(p) : p[j] <= s

\* What is left of s when the messages between i and j are gone.
Cut(s, i, j) == SubSeq(s, 1, i) \o SubSeq(s, j, Len(s))

\* It is a sequence whose members keep their order.
LEMMA CutLemma ==
  ASSUME NEW s \in Seq(Nat), NEW i \in 0..Len(s), NEW j \in 1..(Len(s) + 1), i < j
  PROVE  /\ Cut(s, i, j) \in Seq(Nat)
         /\ Len(Cut(s, i, j)) = i + (Len(s) + 1 - j)
         /\ \A k \in 1..(i + (Len(s) + 1 - j)) :
              Cut(s, i, j)[k] = IF k <= i THEN s[k] ELSE s[k - i + j - 1]
<1> DEFINE t == Cut(s, i, j)
           a == SubSeq(s, 1, i)
           b == SubSeq(s, j, Len(s))
<1>1. a \in Seq(Nat) /\ Len(a) = i /\ \A k \in 1..i : a[k] = s[k]
  OBVIOUS
<1>2. b \in Seq(Nat) /\ Len(b) = Len(s) + 1 - j
      /\ \A k \in 1..(Len(s) + 1 - j) : b[k] = s[k + j - 1]
  OBVIOUS
<1>3. t = a \o b  BY DEF Cut
<1> HIDE DEF a, b, t
<1>4. /\ t \in Seq(Nat)
      /\ Len(t) = Len(a) + Len(b)
      /\ \A k \in 1..(Len(a) + Len(b)) :
           t[k] = IF k <= Len(a) THEN a[k] ELSE b[k - Len(a)]
  <2>1. a \in Seq(Nat) /\ b \in Seq(Nat)  BY <1>1, <1>2
  <2>2. /\ a \o b \in Seq(Nat)
        /\ Len(a \o b) = Len(a) + Len(b)
        /\ \A k \in 1..(Len(a) + Len(b)) :
             (a \o b)[k] = IF k <= Len(a) THEN a[k] ELSE b[k - Len(a)]
    BY <2>1, ConcatProperties, Zenon
  <2> QED  BY <2>2, <1>3, Zenon
<1>6. Len(s) \in Nat /\ Len(t) = i + (Len(s) + 1 - j)
  <2>1. Len(s) \in Nat  OBVIOUS
  <2>2. Len(t) = Len(a) + Len(b) /\ Len(a) = i /\ Len(b) = Len(s) + 1 - j
    BY <1>1, <1>2, <1>4
  <2> QED  BY <2>1, <2>2
<1>5. ASSUME NEW k \in 1..Len(t)
      PROVE  t[k] = IF k <= i THEN s[k] ELSE s[k - i + j - 1]
  <2>1. CASE k <= i
    BY <1>1, <1>4, <2>1
  <2>2. CASE ~(k <= i)
    <3>4. k \in 1..(i + (Len(s) + 1 - j))  BY <1>6, Zenon
    <3>5. i \in Int /\ j \in Int  BY <1>6
    <3>0. k \in Int /\ k <= i + (Len(s) + 1 - j) /\ ~(k <= i)  BY <1>6, <2>2, <3>4, <3>5
    <3>1. k - i \in 1..(Len(s) + 1 - j)  BY <3>0, <3>5, <1>6
    <3>2. t[k] = b[k - i]  BY <1>1, <1>2, <1>4, <1>6, <2>2
    <3>3. b[k - i] = s[k - i + j - 1]  BY <1>2, <3>1
    <3> QED  BY <2>2, <3>2, <3>3
  <2> QED  BY <2>1, <2>2
<1> QED  BY <1>4, <1>5, <1>6 DEF t

\* Another number at the end, greater than all.
LEMMA RisingAppend ==
  ASSUME NEW q \in Seq(Nat), NEW x \in Nat, Rising(q), \A k \in 1..Len(q) : q[k] < x
  PROVE  Rising(Append(q, x))
<1> DEFINE t == Append(q, x)
<1>1. /\ Len(q) \in Nat /\ Len(t) = Len(q) + 1 /\ t[Len(q) + 1] = x
      /\ \A k \in 1..Len(q) : t[k] = q[k]
  BY AppendProperties
<1> HIDE DEF t
<1> SUFFICES ASSUME NEW i \in 1..Len(t), NEW j \in 1..Len(t), i < j
             PROVE  t[i] < t[j]
  BY DEF Rising, t
<1>2. CASE j = Len(q) + 1
  <2>1. i \in 1..Len(q)  BY <1>1, <1>2
  <2> QED  BY <1>1, <1>2, <2>1
<1>3. CASE j # Len(q) + 1
  <2>0. Len(q) \in Nat /\ i \in 1..(Len(q) + 1) /\ j \in 1..(Len(q) + 1)  BY <1>1
  <2>1. i \in 1..Len(q) /\ j \in 1..Len(q)  BY <2>0, <1>3, SMTT(30)
  <2>2. t[i] = q[i] /\ t[j] = q[j]  BY <1>1, <2>1
  <2> QED  BY <2>1, <2>2 DEF Rising
<1> QED  BY <1>2, <1>3

LEMMA OrderSend ==
  ASSUME NEW s \in Nat, NEW p \in Seq(Nat), NEW d \in Seq(Nat), Ordered(s, p, d)
  PROVE  Ordered(s + 1, Append(p, s + 1), d)
<1> DEFINE t == Append(p, s + 1)
<1>1. /\ Len(p) \in Nat /\ Len(t) = Len(p) + 1 /\ t[Len(p) + 1] = s + 1
      /\ \A k \in 1..Len(p) : t[k] = p[k]
  BY AppendProperties
<1>2. \A k \in 1..Len(p) : p[k] \in Nat /\ p[k] <= s
  BY DEF Ordered
<1>3. Rising(t)
  <2>1. \A k \in 1..Len(p) : p[k] < s + 1  BY <1>2
  <2> QED  BY <2>1, RisingAppend DEF Ordered
<1> HIDE DEF t
<1>4. \A j \in 1..Len(t) : j \in 1..Len(p) \/ j = Len(p) + 1
  BY <1>1
<1>5. \A j \in 1..Len(t) : t[j] <= s + 1
  BY <1>1, <1>2, <1>4
<1>6. \A i \in 1..Len(d) : d[i] \in Nat /\ d[i] <= s /\ d[i] < s + 1 /\ d[i] <= s + 1
  BY DEF Ordered
<1>7. \A i \in 1..Len(d), j \in 1..Len(t) : d[i] < t[j]
  BY <1>1, <1>4, <1>6 DEF Ordered
<1> QED  BY <1>3, <1>5, <1>6, <1>7 DEF Ordered, t

LEMMA OrderDeliver ==
  ASSUME NEW s \in Nat, NEW p \in Seq(Nat), NEW d \in Seq(Nat), p # <<>>, Ordered(s, p, d)
  PROVE  Ordered(s, Tail(p), Append(d, Head(p)))
<1> DEFINE t == Tail(p)
           e == Append(d, Head(p))
<1>1. /\ t \in Seq(Nat) /\ Len(t) = Len(p) - 1 /\ 1 \in 1..Len(p) /\ Head(p) = p[1]
      /\ \A k \in 1..Len(t) : k + 1 \in 1..Len(p) /\ t[k] = p[k + 1]
  OBVIOUS
<1>2. /\ p[1] \in Nat /\ p[1] <= s /\ e = Append(d, p[1])
      /\ \A i \in 1..Len(d) : d[i] < p[1]
  BY <1>1 DEF Ordered
<1>3. Rising(e)
  BY <1>2, RisingAppend DEF Ordered
<1>4. /\ Len(e) = Len(d) + 1 /\ e[Len(d) + 1] = p[1] /\ Len(d) \in Nat
      /\ \A k \in 1..Len(d) : e[k] = d[k]
  BY <1>2, AppendProperties
<1> HIDE DEF t, e
<1>5. \A i \in 1..Len(e) : i \in 1..Len(d) \/ i = Len(d) + 1
  BY <1>4
<1>6. Rising(t)
  <2> SUFFICES ASSUME NEW i \in 1..Len(t), NEW j \in 1..Len(t), i < j
               PROVE  t[i] < t[j]
    BY DEF Rising
  <2>1. i + 1 \in 1..Len(p) /\ j + 1 \in 1..Len(p) /\ i + 1 < j + 1
    BY <1>1
  <2>2. p[i + 1] < p[j + 1]  BY <2>1 DEF Ordered, Rising
  <2> QED  BY <1>1, <2>2
<1>7. ASSUME NEW i \in 1..Len(e), NEW j \in 1..Len(t)
      PROVE  e[i] < t[j]
  <2>1. j + 1 \in 1..Len(p) /\ 1 < j + 1 /\ t[j] = p[j + 1]  BY <1>1
  <2>2. CASE i = Len(d) + 1
    <3>1. p[1] < p[j + 1]  BY <1>1, <2>1 DEF Ordered, Rising
    <3> QED  BY <1>4, <2>1, <2>2, <3>1
  <2>3. CASE i \in 1..Len(d)
    <3>1. d[i] < p[j + 1]  BY <2>1, <2>3 DEF Ordered
    <3> QED  BY <1>4, <2>1, <2>3, <3>1
  <2> QED  BY <1>5, <2>2, <2>3
<1>8. \A i \in 1..Len(e) : e[i] <= s
  BY <1>2, <1>4, <1>5 DEF Ordered
<1>9. \A j \in 1..Len(t) : t[j] <= s
  BY <1>1 DEF Ordered
<1> QED  BY <1>3, <1>6, <1>7, <1>8, <1>9 DEF Ordered, t, e

LEMMA OrderLose ==
  ASSUME NEW s \in Nat, NEW p \in Seq(Nat), NEW d \in Seq(Nat), Ordered(s, p, d),
         NEW i \in 0..Len(p), NEW j \in 1..(Len(p) + 1), i < j
  PROVE  Ordered(s, Cut(p, i, j), d)
<1> DEFINE t == Cut(p, i, j)
<1>2. /\ t \in Seq(Nat)
      /\ Len(t) = i + (Len(p) + 1 - j)
      /\ \A k \in 1..Len(t) : t[k] = IF k <= i THEN p[k] ELSE p[k - i + j - 1]
  BY CutLemma
<1> HIDE DEF t
<1> DEFINE from(k) == IF k <= i THEN k ELSE k - i + j - 1
<1>3. \A k \in 1..Len(t) : from(k) \in 1..Len(p)
  <2> SUFFICES ASSUME NEW k \in 1..Len(t) PROVE from(k) \in 1..Len(p)
    OBVIOUS
  <2>1. Len(p) \in Nat /\ i \in Int /\ j \in Int /\ k \in 1..(i + (Len(p) + 1 - j))
    BY <1>2
  <2> QED  BY <2>1
<1>4. \A k \in 1..Len(t) : t[k] = p[from(k)]
  BY <1>2
<1>5. \A k, l \in 1..Len(t) : k < l => from(k) < from(l)
  <2> SUFFICES ASSUME NEW k \in 1..Len(t), NEW l \in 1..Len(t), k < l
               PROVE  from(k) < from(l)
    OBVIOUS
  <2>1. i \in Int /\ j \in Int /\ k \in Int /\ l \in Int  OBVIOUS
  <2> QED  BY <2>1
<1> HIDE DEF from
<1>6. Rising(t)  BY <1>3, <1>4, <1>5 DEF Ordered, Rising
<1> QED  BY <1>3, <1>4, <1>6 DEF Ordered, t

-----------------------------------------------------------------------------
(* The refinement.  What the channel has pending is what the socket holds  *)
(* and then what the queue holds, the message the thread has sent and not  *)
(* yet removed counted once.                                               *)

Pending == wire \o Unsent

LEMMA UnsentType == Inv => /\ Unsent \in Seq(Nat)
                           /\ wire \in Seq(Nat)
                           /\ Pending \in Seq(Nat)
                           /\ Len(Pending) = Len(wire) + Len(Unsent)
<1> SUFFICES ASSUME Inv PROVE /\ Unsent \in Seq(Nat)
                              /\ wire \in Seq(Nat)
                              /\ Pending \in Seq(Nat)
                              /\ Len(Pending) = Len(wire) + Len(Unsent)
  OBVIOUS
<1>1. Unsent \in Seq(Nat) /\ wire \in Seq(Nat)
  BY HeadTailProperties DEF Inv, TypeOK, Unsent
<1> QED  BY <1>1, ConcatProperties DEF Pending

\* What the steps that move a message do to it.
LEMMA PendingPushed == Inv /\ SendPushes => Pending' = Append(Pending, accepted + 1)
<1> SUFFICES ASSUME Inv, SendPushes PROVE Pending' = Append(Pending, accepted + 1)
  OBVIOUS
<1>1. queue \in Seq(Nat) /\ accepted + 1 \in Nat  BY DEF Inv, TypeOK
<1>2. Unsent' = Append(Unsent, accepted + 1)
  <2>1. CASE sender = "pop"
    <3>1. queue # <<>>  BY <2>1 DEF Inv
    <3>2. Tail(Append(queue, accepted + 1)) = Append(Tail(queue), accepted + 1)
      BY <1>1, <3>1, HeadTailAppend
    <3> QED  BY <2>1, <3>2 DEF SendPushes, Unsent
  <2>2. CASE sender # "pop"
    BY <2>2 DEF SendPushes, Unsent
  <2> QED  BY <2>1, <2>2
<1> QED
  BY <1>1, <1>2, UnsentType, AppendRight DEF SendPushes, Pending

LEMMA PendingMoved == Inv /\ SocketSends => Pending' = Pending
<1> SUFFICES ASSUME Inv, SocketSends PROVE Pending' = Pending
  OBVIOUS
<1>1. queue # <<>> /\ queue \in Seq(Nat) /\ wire \in Seq(Nat)
  BY DEF SocketSends, Inv, TypeOK
<1>2. Unsent = queue /\ Unsent' = Tail(queue) /\ wire' = Append(wire, Head(queue))
  BY DEF SocketSends, Unsent
<1> QED  BY <1>1, <1>2, MoveHead DEF Pending

LEMMA PendingReceived ==
  Inv /\ Receives => Pending # <<>> /\ Head(Pending) = Head(wire) /\ Pending' = Tail(Pending)
<1> SUFFICES ASSUME Inv, Receives
             PROVE  Pending # <<>> /\ Head(Pending) = Head(wire) /\ Pending' = Tail(Pending)
  OBVIOUS
<1>1. wire # <<>> /\ wire' = Tail(wire) /\ Unsent' = Unsent
  BY DEF Receives, threadVars, Unsent
<1> QED  BY <1>1, UnsentType, HeadConcat DEF Pending

\* What is cut from the end of the wire, or all of it, is lost together.
LEMMA LoseWire ==
  ASSUME Inv, NEW n \in 0..Len(wire), wire' = SubSeq(wire, 1, n),
         UNCHANGED <<queue, sender, accepted, delivered>>
  PROVE  [Channel!Next]_(Channel!vars)
<1> USE UnsentType
<1>1. Unsent' = Unsent  BY DEF Unsent
<1>2. /\ n \in 0..Len(Pending) /\ Len(wire) + 1 \in 1..(Len(Pending) + 1)
      /\ n < Len(wire) + 1
  OBVIOUS
<1>3. /\ SubSeq(Pending, 1, n) = SubSeq(wire, 1, n)
      /\ SubSeq(Pending, Len(wire) + 1, Len(Pending)) = Unsent
  BY CutConcat DEF Pending
<1>4. Pending' = SubSeq(Pending, 1, n) \o SubSeq(Pending, Len(wire) + 1, Len(Pending))
  BY <1>1, <1>3 DEF Pending
<1> QED  BY <1>2, <1>4 DEF Channel!Next, Channel!Lose, Channel!vars, Pending

\* Every step of the bridge is a step of the channel, or none of its business.
LEMMA ChannelStep == Inv /\ [Next]_vars => [Channel!Next]_(Channel!vars)
<1> SUFFICES ASSUME Inv, [Next]_vars PROVE [Channel!Next]_(Channel!vars)
  OBVIOUS
<1> USE UnsentType
<1>1. CASE SendPushes
  BY <1>1, PendingPushed DEF SendPushes, Channel!Next, Channel!Send, Pending
<1>2. CASE SocketSends
  BY <1>2, PendingMoved DEF SocketSends, Channel!vars, Pending
<1>3. CASE Pops
  <2>1. Unsent' = Unsent /\ wire' = wire
    BY <1>3 DEF Pops, DropFront, NextRound, Unsent
  <2> QED  BY <1>3, <2>1 DEF Pops, Channel!vars
<1>4. CASE StopThread
  <2>1. Unsent' = <<>> /\ wire' = wire
    BY <1>4 DEF StopThread, Unsent
  <2>2. Pending' = wire
    BY <2>1 DEF Pending
  <2>3. /\ SubSeq(Pending, 1, Len(wire)) = wire
        /\ SubSeq(Pending, Len(Pending) + 1, Len(Pending)) = <<>>
    <3>1. SubSeq(Pending, 1, Len(wire)) = SubSeq(wire, 1, Len(wire))
      <4>1. Len(wire) \in 0..Len(wire)  OBVIOUS
      <4> QED  BY <4>1, CutConcat DEF Pending
    <3>2. SubSeq(wire, 1, Len(wire)) = wire  BY SubSeqFull
    <3>3. SubSeq(Pending, Len(Pending) + 1, Len(Pending)) = <<>>
      BY SubSeqEmpty
    <3> QED  BY <3>1, <3>2, <3>3
  <2>4. /\ Len(wire) \in 0..Len(Pending) /\ Len(Pending) + 1 \in 1..(Len(Pending) + 1)
        /\ Len(wire) < Len(Pending) + 1
    OBVIOUS
  <2>5. Pending' = SubSeq(Pending, 1, Len(wire))
                     \o SubSeq(Pending, Len(Pending) + 1, Len(Pending))
    BY <2>2, <2>3
  <2> QED
    BY <1>4, <2>4, <2>5 DEF StopThread, Channel!Next, Channel!Lose, Pending
<1>5. CASE Receives
  <2>1. wire # <<>> /\ wire' = Tail(wire) /\ Unsent' = Unsent /\ accepted' = accepted
    BY <1>5 DEF Receives, threadVars, Unsent
  <2>2. Pending # <<>> /\ Head(Pending) = Head(wire) /\ Pending' = Tail(Pending)
    BY <1>5, PendingReceived
  <2>3. CASE registered
    <3>1. delivered' = Append(delivered, Head(Pending))
      BY <1>5, <2>2, <2>3 DEF Receives
    <3> QED  BY <2>1, <2>2, <3>1 DEF Channel!Next, Channel!Deliver, Pending
  <2>4. CASE ~registered
    <3>1. delivered' = delivered  BY <1>5, <2>4 DEF Receives
    <3>2. Len(Pending) \in Nat \ {0}  BY <2>2
    <3>3. SubSeq(Pending, 2, Len(Pending)) = Tail(Pending) /\ SubSeq(Pending, 1, 0) = <<>>
      BY <2>2, <3>2, TailIsSubSeq, SubSeqEmpty
    <3>4. Pending' = SubSeq(Pending, 1, 0) \o SubSeq(Pending, 2, Len(Pending))
      <4>1. Tail(Pending) \in Seq(Nat)  BY <2>2, HeadTailProperties
      <4> QED  BY <2>2, <3>3, <4>1
    <3>5. 0 \in 0..Len(Pending) /\ 2 \in 1..(Len(Pending) + 1) /\ 0 < 2
      BY <3>2
    <3> QED  BY <2>1, <3>1, <3>4, <3>5 DEF Channel!Next, Channel!Lose, Pending
  <2> QED  BY <2>3, <2>4
<1>6. CASE Disconnects
  <2>1. PICK n \in 0..Len(wire) : wire' = SubSeq(wire, 1, n)
    BY <1>6 DEF Disconnects
  <2> QED  BY <1>6, <2>1, LoseWire DEF Disconnects, threadVars
<1>7. CASE PeerRestarts
  <2>1. 0 \in 0..Len(wire) /\ wire' = SubSeq(wire, 1, 0)
    BY <1>7, SubSeqEmpty DEF PeerRestarts
  <2> QED  BY <1>7, <2>1, LoseWire DEF PeerRestarts, threadVars
<1>8. CASE \/ SendChecks \/ SendNotifies \/ StartsWaiting \/ WakesSpuriously
           \/ ChecksQueue \/ SocketFails \/ Registers \/ Connects
  <2>1. UNCHANGED <<wire, accepted, delivered, Unsent>>
    BY <1>8 DEF SendChecks, SendNotifies, StartsWaiting, WakesSpuriously, ChecksQueue,
      SocketFails, Registers, Connects, threadVars, peerVars, Unsent
  <2> QED  BY <2>1 DEF Channel!vars
<1>9. CASE UNCHANGED vars
  BY <1>9 DEF vars, threadVars, peerVars, Channel!vars, Unsent
<1> QED
  BY <1>1, <1>2, <1>3, <1>4, <1>5, <1>6, <1>7, <1>8, <1>9 DEF Next

\* Queue, threads, sockets, connection and peer together are an ordered
\* channel: messages may be lost, and are never swapped or repeated.
THEOREM Implements == Spec => ImplementsChannel
<1>1. Init => Channel!Init
  <2>1. Init => Pending = <<>>
    BY DEF Init, Pending, Unsent
  <2> QED  BY <2>1 DEF Init, Channel!Init, Pending
<1>2. Spec => []Inv  BY InitInv, InvStep, PTL DEF Spec
<1> QED
  BY <1>1, <1>2, ChannelStep, PTL DEF Spec, ImplementsChannel, Channel!Spec

LEMMA OrderStep ==
  Inv /\ Ordered(accepted, Pending, delivered) /\ [Next]_vars
    => Ordered(accepted, Pending, delivered)'
<1> SUFFICES ASSUME Inv, Ordered(accepted, Pending, delivered), [Next]_vars
             PROVE  Ordered(accepted', Pending', delivered')
  BY DEF Ordered, Rising
<1>1. accepted \in Nat /\ delivered \in Seq(Nat) /\ Pending \in Seq(Nat)
  BY UnsentType DEF Inv, TypeOK
<1>2. CASE Channel!Send
  BY <1>1, <1>2, OrderSend DEF Channel!Send, Pending
<1>3. CASE Channel!Deliver
  BY <1>1, <1>3, OrderDeliver DEF Channel!Deliver, Pending
<1>4. CASE Channel!Lose
  BY <1>1, <1>4, OrderLose DEF Channel!Lose, Pending, Cut
<1>5. CASE UNCHANGED Channel!vars
  BY <1>5 DEF Channel!vars, Pending
<1> QED  BY <1>2, <1>3, <1>4, <1>5, ChannelStep DEF Channel!Next

\* The promise of the file's header: what a callback gets from one device, it
\* gets in the order the device sent it, and never twice.
THEOREM StrictOrder == Spec => []Channel!InOrder
<1>1. Init => Ordered(accepted, Pending, delivered)
  BY DEF Init, Ordered, Rising, Pending, Unsent
<1>2. Spec => []Inv  BY InitInv, InvStep, PTL DEF Spec
<1>3. Ordered(accepted, Pending, delivered) => Channel!InOrder
  BY DEF Ordered, Rising, Channel!InOrder
<1> QED  BY <1>1, <1>2, <1>3, OrderStep, PTL DEF Spec

-----------------------------------------------------------------------------
(* Nothing is lost.  Delivered and pending messages together are what was  *)
(* accepted, numbered; a step moves one from Pending to delivered, adds    *)
(* the next at the end, or sets the flag.                                  *)

Accounted == ~lost => delivered \o Pending = [i \in 1..accepted |-> i]

LEMMA NextNumber ==
  ASSUME NEW n \in Nat
  PROVE  Append([i \in 1..n |-> i], n + 1) = [i \in 1..(n + 1) |-> i]
<1> DEFINE s == [i \in 1..n |-> i]
           t == [i \in 1..(n + 1) |-> i]
<1>1. s \in Seq(Nat) /\ Len(s) = n /\ t \in Seq(Nat) /\ Len(t) = n + 1
  OBVIOUS
<1>2. /\ Append(s, n + 1) \in Seq(Nat) /\ Len(Append(s, n + 1)) = n + 1
      /\ \A i \in 1..n : Append(s, n + 1)[i] = s[i]
      /\ Append(s, n + 1)[n + 1] = n + 1
  BY <1>1, AppendProperties
<1>3. \A i \in 1..(n + 1) : Append(s, n + 1)[i] = t[i]
  <2> SUFFICES ASSUME NEW i \in 1..(n + 1) PROVE Append(s, n + 1)[i] = t[i]
    OBVIOUS
  <2>1. CASE i \in 1..n  BY <1>2, <2>1
  <2>2. CASE i = n + 1  BY <1>2, <2>2
  <2> QED  BY <2>1, <2>2
<1> QED  BY <1>1, <1>2, <1>3, SeqEqual

LEMMA AccountedStep == Inv /\ Accounted /\ [Next]_vars => Accounted'
<1> SUFFICES ASSUME Inv, Accounted, [Next]_vars, ~lost' 
             PROVE  (delivered \o Pending)' = [i \in 1..accepted' |-> i]
  BY DEF Accounted
<1> USE UnsentType
<1>d. delivered \in Seq(Nat) /\ accepted \in Nat  BY SizeAssumption DEF Inv, TypeOK, SizeAssumption
<1>1. CASE SendPushes
  <2>1. ~lost /\ delivered' = delivered /\ accepted' = accepted + 1
    BY <1>1 DEF SendPushes
  <2>2. Pending' = Append(Pending, accepted + 1)
    BY <1>1, PendingPushed
  <2>3. delivered \o Append(Pending, accepted + 1) = Append(delivered \o Pending, accepted + 1)
    BY <1>d, AppendRight
  <2>4. delivered \o Pending = [i \in 1..accepted |-> i]
    BY <2>1 DEF Accounted
  <2> QED  BY <1>d, <2>1, <2>2, <2>3, <2>4, NextNumber, Zenon
<1>2. CASE Receives
  <2>1. CASE registered
    <3>1. ~lost /\ delivered' = Append(delivered, Head(Pending)) /\ accepted' = accepted
      BY <1>2, <2>1, PendingReceived DEF Receives
    <3>2. Pending # <<>> /\ Pending' = Tail(Pending)
      BY <1>2, PendingReceived
    <3>3. Append(delivered, Head(Pending)) \o Tail(Pending) = delivered \o Pending
      BY <1>d, <3>2, MoveHead
    <3> QED  BY <3>1, <3>2, <3>3, Zenon DEF Accounted
  <2>2. CASE ~registered
    BY <1>2, <2>2 DEF Receives
  <2> QED  BY <2>1, <2>2
<1>3. ASSUME ~lost, Pending' = Pending, UNCHANGED <<accepted, delivered>>
      PROVE  (delivered \o Pending)' = [i \in 1..accepted' |-> i]
  BY <1>3, Zenon DEF Accounted
<1>4. CASE SocketSends
  BY <1>3, <1>4, PendingMoved DEF SocketSends
<1>5. CASE StopThread
  <2>1. ~lost /\ Unsent = <<>>  BY <1>5 DEF StopThread
  <2>2. Unsent' = <<>> /\ wire' = wire /\ UNCHANGED <<accepted, delivered>>
    BY <1>5 DEF StopThread, Unsent
  <2>3. Pending' = Pending  BY <2>1, <2>2, Zenon DEF Pending
  <2> QED  BY <1>3, <2>1, <2>2, <2>3
<1>6. CASE Disconnects
  <2>1. PICK n \in 0..Len(wire) : wire' = SubSeq(wire, 1, n) /\ lost' = (lost \/ n < Len(wire))
    BY <1>6 DEF Disconnects
  <2>2. n = Len(wire) /\ ~lost
    <3>1. ~lost /\ ~(n < Len(wire))  BY <2>1, Zenon
    <3> QED  BY <3>1
  <2>3. wire' = wire  BY <2>1, <2>2, SubSeqFull
  <2>4. UNCHANGED <<accepted, delivered, Unsent>>
    BY <1>6 DEF Disconnects, threadVars, Unsent
  <2> QED  BY <1>3, <2>2, <2>3, <2>4 DEF Pending
<1>7. CASE PeerRestarts
  <2>1. ~lost /\ wire = <<>>  BY <1>7 DEF PeerRestarts
  <2>2. UNCHANGED <<wire, accepted, delivered, Unsent>>
    BY <1>7, <2>1 DEF PeerRestarts, threadVars, Unsent
  <2> QED  BY <1>3, <2>1, <2>2 DEF Pending
<1>8. CASE Pops
  <2>1. UNCHANGED <<wire, accepted, delivered, Unsent, lost>>
    BY <1>8 DEF Pops, DropFront, NextRound, Unsent
  <2> QED  BY <1>3, <2>1 DEF Pending
<1>9. CASE \/ SendChecks \/ SendNotifies \/ StartsWaiting \/ WakesSpuriously
           \/ ChecksQueue \/ SocketFails \/ Registers \/ Connects
  <2>1. UNCHANGED <<wire, accepted, delivered, Unsent, lost>>
    BY <1>9 DEF SendChecks, SendNotifies, StartsWaiting, WakesSpuriously, ChecksQueue,
      SocketFails, Registers, Connects, threadVars, peerVars, Unsent
  <2> QED  BY <1>3, <2>1 DEF Pending
<1>10. CASE UNCHANGED vars
  <2>1. UNCHANGED <<wire, accepted, delivered, Unsent, lost>>
    BY <1>10 DEF vars, threadVars, peerVars, Unsent
  <2> QED  BY <1>3, <2>1 DEF Pending
<1> QED
  BY <1>1, <1>2, <1>4, <1>5, <1>6, <1>7, <1>8, <1>9, <1>10 DEF Next

\* While neither the connection, nor the peer, nor the process failed, every
\* accepted message is delivered, in the socket or in the queue, in this order.
THEOREM NothingMissing == Spec => []NothingLost
<1>1. Init => Accounted
  <2>1. Init => delivered = <<>> /\ Pending = <<>> /\ accepted = 0
    BY DEF Init, Pending, Unsent
  <2>2. [i \in 1..0 |-> i] = <<>>
    OBVIOUS
  <2>3. <<>> \o <<>> = <<>>
    OBVIOUS
  <2> QED  BY <2>1, <2>2, <2>3 DEF Accounted
<1>2. Inv /\ Accounted => NothingLost
  <2> SUFFICES ASSUME Inv, Accounted PROVE NothingLost
    OBVIOUS
  <2>1. delivered \in Seq(Nat) /\ wire \in Seq(Nat) /\ Unsent \in Seq(Nat)
    BY UnsentType DEF Inv, TypeOK
  <2>2. (delivered \o wire) \o Unsent = delivered \o (wire \o Unsent)
    BY <2>1, ConcatAssociative
  <2> QED  BY <2>2, Zenon DEF Accounted, NothingLost, Pending
<1> QED
  BY <1>1, <1>2, InitInv, InvStep, AccountedStep, PTL DEF Spec
=============================================================================
