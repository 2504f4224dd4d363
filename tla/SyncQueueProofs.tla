-------------------------- MODULE SyncQueueProofs --------------------------
(***************************************************************************)
(* Proofs about SyncQueue for every Capacity, MaxCount and set of values.  *)
(* The argument: the producer owns the slot at tail_ and the consumer owns *)
(* the slots from head_ on that it has counted; each side only moves its   *)
(* own index, and only forward, so what it checked stays true until it     *)
(* acts on it (InFlight).                                                  *)
(***************************************************************************)
EXTENDS SyncQueue, SequenceTheorems, TLAPS

\* Index arithmetic around the ring, as a case split that linear arithmetic
\* can use: (i + k) % Capacity wraps at most once.
LEMMA AdvanceValue ==
  ASSUME NEW i \in Index, NEW k \in 0 .. Capacity
  PROVE  /\ Advance(i, k) = IF i + k < Capacity THEN i + k ELSE i + k - Capacity
         /\ Advance(i, k) \in Index
<1>1. Advance(i, k) = IF i + k < Capacity THEN i + k ELSE i + k - Capacity
  BY CapacityAssumption DEF Advance, Index
<1>2. QED
  BY <1>1, CapacityAssumption DEF Index

\* size() never exceeds Capacity - 1.
LEMMA AvailableBound ==
  ASSUME NEW h \in Index, NEW t \in Index
  PROVE  Available(h, t) \in 0 .. (Capacity - 1)
BY CapacityAssumption DEF Available, Index

\* The slot at tail_ is not one of the filled slots.
LEMMA TailNotFilled ==
  ASSUME NEW h \in Index, NEW t \in Index, NEW k \in 0 .. (Available(h, t) - 1)
  PROVE  Advance(h, k) # t
<1>1. Available(h, t) \in 0 .. (Capacity - 1)
  BY AvailableBound
<1>2. k \in 0 .. Capacity
  BY <1>1, CapacityAssumption
<1>3. Advance(h, k) = IF h + k < Capacity THEN h + k ELSE h + k - Capacity
  BY <1>2, AdvanceValue
<1>4. QED
  BY <1>3, CapacityAssumption DEF Index, Available

\* Publishing a slot makes exactly one more value available, in that slot.
LEMMA PublishGrows ==
  ASSUME NEW h \in Index, NEW t \in Index, Advance(t, 1) # h
  PROVE  /\ Advance(t, 1) \in Index
         /\ Available(h, Advance(t, 1)) = Available(h, t) + 1
         /\ Advance(h, Available(h, t)) = t
<1>1. 1 \in 0 .. Capacity
  BY CapacityAssumption
<1>2. Available(h, t) \in 0 .. Capacity
  BY AvailableBound, CapacityAssumption
<1>3. /\ Advance(t, 1) = IF t + 1 < Capacity THEN t + 1 ELSE t + 1 - Capacity
      /\ Advance(t, 1) \in Index
  BY <1>1, AdvanceValue
<1>4. Advance(h, Available(h, t)) = IF h + Available(h, t) < Capacity
                                      THEN h + Available(h, t)
                                      ELSE h + Available(h, t) - Capacity
  BY <1>2, AdvanceValue
<1>5. Available(h, Advance(t, 1)) = Available(h, t) + 1
  BY <1>3, CapacityAssumption DEF Index, Available
<1>6. Advance(h, Available(h, t)) = t
  BY <1>4, CapacityAssumption DEF Index, Available
<1>7. QED
  BY <1>3, <1>5, <1>6

\* Moving head_ over n filled slots leaves the others available, renumbered.
LEMMA TakeShrinks ==
  ASSUME NEW h \in Index, NEW t \in Index, NEW n \in 0 .. Available(h, t)
  PROVE  /\ Advance(h, n) \in Index
         /\ Available(Advance(h, n), t) = Available(h, t) - n
         /\ \A k \in 0 .. (Available(h, t) - n) :
              Advance(Advance(h, n), k) = Advance(h, n + k)
<1>1. Available(h, t) \in 0 .. (Capacity - 1)
  BY AvailableBound
<1>2. n \in 0 .. Capacity
  BY <1>1, CapacityAssumption
<1>3. /\ Advance(h, n) = IF h + n < Capacity THEN h + n ELSE h + n - Capacity
      /\ Advance(h, n) \in Index
  BY <1>2, AdvanceValue
<1>4. Available(Advance(h, n), t) = Available(h, t) - n
  BY <1>3, CapacityAssumption DEF Index, Available
<1>5. ASSUME NEW k \in 0 .. (Available(h, t) - n)
      PROVE  Advance(Advance(h, n), k) = Advance(h, n + k)
  <2>1. k \in 0 .. Capacity
    BY <1>1, CapacityAssumption
  <2>2. n + k \in 0 .. Capacity
    BY <1>1, CapacityAssumption
  <2> DEFINE g == Advance(h, n)
  <2>3. Advance(g, k) = IF g + k < Capacity THEN g + k ELSE g + k - Capacity
    BY <1>3, <2>1, AdvanceValue
  <2>4. Advance(h, n + k) = IF h + (n + k) < Capacity THEN h + (n + k)
                                                     ELSE h + (n + k) - Capacity
    BY <2>2, AdvanceValue
  <2>5. QED
    BY <1>3, <2>3, <2>4, <1>1, CapacityAssumption DEF Index
<1>6. QED
  BY <1>3, <1>4, <1>5

\* A full check that passed stays true while the consumer moves head_ forward.
LEMMA RoomStays ==
  ASSUME NEW h \in Index, NEW t \in Index, NEW n \in 0 .. Available(h, t),
         Advance(t, 1) # h
  PROVE  Advance(t, 1) # Advance(h, n)
<1>1. 1 \in 0 .. Capacity
  BY CapacityAssumption
<1>2. n \in 0 .. Capacity
  BY AvailableBound, CapacityAssumption
<1>3. Advance(t, 1) = IF t + 1 < Capacity THEN t + 1 ELSE t + 1 - Capacity
  BY <1>1, AdvanceValue
<1>4. Advance(h, n) = IF h + n < Capacity THEN h + n ELSE h + n - Capacity
  BY <1>2, AdvanceValue
<1>5. QED
  BY <1>3, <1>4, CapacityAssumption DEF Index, Available

-----------------------------------------------------------------------------
\* The initial state satisfies the inductive invariant.
LEMMA InitIInv == Init => IInv
<1> SUFFICES ASSUME Init PROVE IInv
  OBVIOUS
<1>1. TypeOK
  BY CapacityAssumption DEF Init, TypeOK, Index, ProducerPlaces, ConsumerPlaces
<1>2. Available(head_, tail_) = 0
  BY DEF Init, Available
<1>3. InFlight
  BY <1>2 DEF Init, InFlight
<1>4. QED
  BY <1>1, <1>3 DEF Init, IInv, NeverUnfilled

\* Every step of the two threads preserves it.
LEMMA NextIInv == IInv /\ [Next]_vars => IInv'
<1> SUFFICES ASSUME IInv, [Next]_vars PROVE IInv'
  OBVIOUS
<1> USE DEF IInv
<1> DEFINE avail == Available(head_, tail_)
<1>0. /\ head_ \in Index /\ tail_ \in Index
      /\ avail \in 0 .. (Capacity - 1)
  BY AvailableBound DEF TypeOK
<1>1. ASSUME NEW v \in Value, PushFull(v) PROVE IInv'
  BY <1>1 DEF PushFull, TypeOK, InFlight, NeverUnfilled, ring, consumer, ProducerPlaces
<1>2. ASSUME NEW v \in Value, PushLoad(v) PROVE IInv'
  BY <1>2 DEF PushLoad, TypeOK, InFlight, NeverUnfilled, ring, consumer, ProducerPlaces
<1>3. CASE PushWrite
  <2>1. /\ ptail = tail_ /\ Advance(tail_, 1) # head_ /\ pvalue \in Value
        /\ UNCHANGED <<head_, tail_, pvalue, ptail, consumer>>
        /\ ppc = "write" /\ ppc' = "publish"
        /\ buffer_' = [buffer_ EXCEPT ![ptail] = pvalue]
    BY <1>3 DEF PushWrite, InFlight
  <2>2. TypeOK'
    BY <2>1 DEF TypeOK, consumer, ProducerPlaces
  <2>3. ASSUME NEW k \in 1 .. avail
        PROVE  buffer_'[Advance(head_, k - 1)] = buffer_[Advance(head_, k - 1)]
    <3>1. k - 1 \in 0 .. (avail - 1)
      BY <1>0
    <3>2. Advance(head_, k - 1) # tail_
      BY <1>0, <3>1, TailNotFilled
    <3>3. QED
      BY <2>1, <3>2 DEF TypeOK
  <2>4. buffer_'[ptail] = pvalue
    BY <2>1 DEF TypeOK
  <2>5. ASSUME cpc = "copy", NEW k \in 1 .. Len(copied)
        PROVE  copied[k] = buffer_'[Advance(head_, k - 1)]
    <3>1. k \in 1 .. avail /\ copied[k] = buffer_[Advance(head_, k - 1)]
      BY <2>5, <1>0 DEF InFlight, TypeOK
    <3>2. QED
      BY <3>1, <2>3
  <2>6. InFlight'
    BY <2>1, <2>3, <2>4, <2>5 DEF InFlight, consumer
  <2>7. QED
    BY <2>1, <2>2, <2>6 DEF NeverUnfilled, consumer
<1>4. CASE PushPublish
  <2>1. /\ ptail = tail_ /\ Advance(tail_, 1) # head_ /\ pvalue \in Value
        /\ buffer_[ptail] = pvalue
        /\ UNCHANGED <<buffer_, head_, pvalue, ptail, consumer>>
        /\ tail_' = Advance(tail_, 1) /\ ppc' = "idle"
    BY <1>4 DEF PushPublish, InFlight
  <2>2. /\ tail_' \in Index
        /\ Available(head_, tail_') = avail + 1
        /\ Advance(head_, avail) = tail_
    BY <2>1, <1>0, PublishGrows
  <2>3. TypeOK'
    BY <2>1, <2>2 DEF TypeOK, consumer, ProducerPlaces
  <2>4. ASSUME NEW k \in 1 .. (avail + 1)
        PROVE  buffer_[Advance(head_, k - 1)] \in Value
    <3>1. CASE k = avail + 1
      <4>1. k - 1 = avail
        BY <3>1, <1>0
      <4>2. QED
        BY <4>1, <2>1, <2>2
    <3>2. CASE k \in 1 .. avail
      BY <3>2 DEF InFlight
    <3>3. QED
      BY <3>1, <3>2, <1>0
  <2>5. cpc = "copy" => count <= avail + 1
    BY <1>0 DEF InFlight, TypeOK
  <2>6. InFlight'
    BY <2>1, <2>2, <2>4, <2>5 DEF InFlight, consumer
  <2>7. QED
    BY <2>1, <2>3, <2>6 DEF NeverUnfilled, consumer
<1>5. CASE PushRefused
  BY <1>5 DEF PushRefused, TypeOK, InFlight, NeverUnfilled, ring, consumer, ProducerPlaces
<1>6. CASE PopLoadHead
  BY <1>6 DEF PopLoadHead, TypeOK, InFlight, NeverUnfilled, ring, producer, ConsumerPlaces
<1>7. CASE PopEmpty
  BY <1>7 DEF PopEmpty, TypeOK, InFlight, NeverUnfilled, ring, producer, ConsumerPlaces
<1>8. CASE PopOne
  <2>1. /\ chead = head_ /\ head_ # tail_
        /\ count' = 1 /\ copied' = <<>> /\ cpc' = "copy"
        /\ UNCHANGED <<ring, producer, chead, result>>
    BY <1>8 DEF PopOne, InFlight
  <2>2. 1 <= avail
    BY <1>0, <2>1, CapacityAssumption DEF Available, Index
  <2>3. TypeOK'
    BY <2>1 DEF TypeOK, ring, producer, ConsumerPlaces
  <2>4. InFlight'
    BY <2>1, <2>2 DEF InFlight, ring, producer
  <2>5. QED
    BY <2>1, <2>3, <2>4 DEF NeverUnfilled
<1>9. CASE BatchReady
  BY <1>9 DEF BatchReady, TypeOK, InFlight, NeverUnfilled, ring, producer, ConsumerPlaces
<1>10. CASE BatchReloadHead
  BY <1>10 DEF BatchReloadHead, TypeOK, InFlight, NeverUnfilled, ring, producer, ConsumerPlaces
<1>11. CASE BatchCount
  <2>1. /\ chead = head_
        /\ count' = IF MaxCount < avail THEN MaxCount ELSE avail
        /\ copied' = <<>> /\ cpc' = "copy"
        /\ UNCHANGED <<ring, producer, chead, result>>
    BY <1>11 DEF BatchCount, InFlight
  <2>2. count' \in Nat /\ count' <= avail
    BY <2>1, <1>0, MaxCountAssumption
  <2>3. TypeOK'
    BY <2>1, <2>2 DEF TypeOK, ring, producer, ConsumerPlaces
  <2>4. InFlight'
    BY <2>1, <2>2 DEF InFlight, ring, producer
  <2>5. QED
    BY <2>1, <2>3, <2>4 DEF NeverUnfilled
<1>12. CASE CopyOne
  <2> DEFINE x == buffer_[Advance(chead, Len(copied))]
  <2>1. /\ cpc = "copy" /\ chead = head_ /\ Len(copied) < count /\ count <= avail
        /\ copied' = Append(copied, x)
        /\ UNCHANGED <<ring, producer, cpc, chead, count, result>>
    BY <1>12 DEF CopyOne, InFlight
  <2>2. Len(copied) \in Nat /\ Len(copied) + 1 \in 1 .. avail
    BY <2>1, <1>0 DEF TypeOK
  <2>3. x \in Value
    <3>1. (Len(copied) + 1) - 1 = Len(copied)
      BY <2>2
    <3>2. QED
      BY <2>1, <2>2, <3>1 DEF InFlight
  <2>4. copied' \in Seq(Value \cup {NoValue})
    BY <2>1, <2>3 DEF TypeOK
  <2>5. TypeOK'
    BY <2>1, <2>4 DEF TypeOK, ring, producer
  <2>6. Len(copied') = Len(copied) + 1
    BY <2>1, <2>3 DEF TypeOK
  <2>7. ASSUME NEW k \in 1 .. Len(copied')
        PROVE  copied'[k] = buffer_[Advance(head_, k - 1)]
    <3>1. CASE k = Len(copied) + 1
      <4>1. k - 1 = Len(copied) /\ copied'[k] = x
        BY <3>1, <2>1, <2>2, <2>3 DEF TypeOK
      <4>2. QED
        BY <4>1, <2>1
    <3>2. CASE k \in 1 .. Len(copied)
      <4>1. copied'[k] = copied[k]
        BY <3>2, <2>1, <2>3 DEF TypeOK
      <4>2. QED
        BY <4>1, <3>2, <2>1 DEF InFlight
    <3>3. QED
      BY <3>1, <3>2, <2>2, <2>6
  <2>8. InFlight'
    <3>1. Len(copied') <= count
      BY <2>1, <2>2, <2>6 DEF TypeOK
    <3>2. QED
      BY <2>1, <2>7, <3>1 DEF InFlight, ring, producer
  <2>9. QED
    BY <2>1, <2>5, <2>8 DEF NeverUnfilled
<1>13. CASE PopAdvance
  <2>1. /\ cpc = "copy" /\ chead = head_ /\ Len(copied) = count /\ count <= avail
        /\ head_' = Advance(head_, count) /\ result' = copied /\ cpc' = "idle"
        /\ UNCHANGED <<buffer_, tail_, producer, chead, count, copied>>
    BY <1>13 DEF PopAdvance, InFlight
  <2>2. count \in 0 .. avail
    BY <2>1 DEF TypeOK
  <2>3. /\ head_' \in Index
        /\ Available(head_', tail_) = avail - count
        /\ \A k \in 0 .. (avail - count) : Advance(head_', k) = Advance(head_, count + k)
    BY <2>1, <2>2, <1>0, TakeShrinks
  <2>4. TypeOK'
    BY <2>1, <2>3 DEF TypeOK, producer, ConsumerPlaces
  <2>5. ASSUME NEW k \in 1 .. (avail - count)
        PROVE  buffer_[Advance(head_', k - 1)] \in Value
    <3>1. /\ k - 1 \in 0 .. (avail - count)
          /\ count + k \in 1 .. avail
          /\ count + (k - 1) = (count + k) - 1
      BY <2>2, <1>0
    <3>2. Advance(head_', k - 1) = Advance(head_, (count + k) - 1)
      BY <3>1, <2>3
    <3>3. QED
      BY <3>1, <3>2 DEF InFlight
  <2>6. ppc \in {"write", "publish"} => Advance(tail_, 1) # head_'
    BY <2>1, <2>2, <1>0, RoomStays DEF InFlight
  <2>7. InFlight'
    <3>1. /\ ppc' = ppc /\ pvalue' = pvalue /\ ptail' = ptail /\ tail_' = tail_
          /\ buffer_' = buffer_ /\ cpc' = "idle"
      BY <2>1 DEF producer
    <3>2. \A k \in 1 .. Available(head_', tail_') : buffer_'[Advance(head_', k - 1)] \in Value
      BY <3>1, <2>3, <2>5
    <3>3. QED
      BY <3>1, <3>2, <2>6 DEF InFlight
  <2>8. NeverUnfilled'
    <3>1. ASSUME NEW k \in DOMAIN copied PROVE copied[k] \in Value
      <4>1. k \in 1 .. Len(copied) /\ k \in 1 .. avail
        BY <2>1, <2>2, <1>0 DEF TypeOK
      <4>2. QED
        BY <4>1, <2>1 DEF InFlight
    <3>2. QED
      BY <2>1, <3>1 DEF NeverUnfilled
  <2>9. QED
    BY <2>4, <2>7, <2>8
<1>14. CASE UNCHANGED vars
  BY <1>14 DEF vars, ring, producer, consumer, TypeOK, InFlight, NeverUnfilled
<1>15. QED
  BY <1>1, <1>2, <1>3, <1>4, <1>5, <1>6, <1>7, <1>8, <1>9, <1>10, <1>11, <1>12,
     <1>13, <1>14 DEF Next, Push, Pop

-----------------------------------------------------------------------------
\* The inductive invariant holds in every reachable state.
THEOREM Invariance == Spec => []IInv
BY InitIInv, NextIInv, PTL DEF Spec

\* sync_queue.hpp keeps its indices and its slots in range.
THEOREM TypeCorrect == Spec => []TypeOK
<1>1. IInv => TypeOK
  BY DEF IInv
<1>2. QED
  BY <1>1, Invariance, PTL

\* Producer and consumer never touch the same slot at the same time, for every
\* capacity and batch size.
THEOREM NoSlotRace == Spec => []SlotExclusion
<1>1. IInv => SlotExclusion
  <2> SUFFICES ASSUME IInv, ppc \in {"write", "publish"}, cpc = "copy",
                      NEW k \in 0 .. (count - 1)
               PROVE  Advance(chead, k) # ptail
    BY DEF SlotExclusion
  <2>1. /\ ptail = tail_ /\ chead = head_ /\ count <= Available(head_, tail_)
        /\ head_ \in Index /\ tail_ \in Index /\ count \in Nat
    BY DEF IInv, InFlight, TypeOK
  <2>2. k \in 0 .. (Available(head_, tail_) - 1)
    BY <2>1, AvailableBound
  <2>3. QED
    BY <2>1, <2>2, TailNotFilled
<1>2. QED
  BY <1>1, Invariance, PTL

\* A pop never returns the content of a slot that no push filled.
THEOREM OnlyPushedValues == Spec => []NeverUnfilled
<1>1. IInv => NeverUnfilled
  BY DEF IInv
<1>2. QED
  BY <1>1, Invariance, PTL

-----------------------------------------------------------------------------
\* Contents is a sequence of the available values.
LEMMA ContentsSeq ==
  ASSUME IInv
  PROVE  /\ Contents \in Seq(Value)
         /\ Len(Contents) = Available(head_, tail_)
         /\ DOMAIN Contents = 1 .. Available(head_, tail_)
<1>1. Available(head_, tail_) \in Nat
  BY AvailableBound, CapacityAssumption DEF IInv, TypeOK
<1>2. \A k \in 1 .. Available(head_, tail_) : buffer_[Advance(head_, k - 1)] \in Value
  BY DEF IInv, InFlight
<1>3. Contents \in [1 .. Available(head_, tail_) -> Value]
  BY <1>2 DEF Contents
<1>4. QED
  BY <1>1, <1>3

\* The ring implements the bounded queue: PushPublish is Put, PopAdvance and
\* PopEmpty are Take, every other step leaves the abstract queue as it is.
THEOREM Refinement == Spec => ImplementsFifo
<1> DEFINE avail == Available(head_, tail_)
<1>1. Init => Fifo!FifoInit
  <2> SUFFICES ASSUME Init PROVE Fifo!FifoInit
    OBVIOUS
  <2>1. avail = 0
    BY DEF Init, Available
  <2>2. Contents = <<>>
    BY <2>1 DEF Contents
  <2>3. QED
    BY <2>2 DEF Init, Fifo!FifoInit
<1>2. IInv /\ IInv' /\ [Next]_vars => [Fifo!FifoNext]_(Fifo!fifoVars)
  <2> SUFFICES ASSUME IInv, IInv', [Next]_vars
               PROVE  [Fifo!FifoNext]_(Fifo!fifoVars)
    OBVIOUS
  <2>a. /\ head_ \in Index /\ tail_ \in Index
        /\ avail \in 0 .. (Capacity - 1)
        /\ avail \in Nat
    BY AvailableBound, CapacityAssumption DEF IInv, TypeOK
  <2>b. /\ Contents \in Seq(Value) /\ Len(Contents) = avail
        /\ DOMAIN Contents = 1 .. avail
    BY ContentsSeq
  <2>0. /\ head_ \in Index /\ tail_ \in Index
        /\ avail \in 0 .. (Capacity - 1)
        /\ avail \in Nat
        /\ Contents \in Seq(Value) /\ Len(Contents) = avail
        /\ DOMAIN Contents = 1 .. avail
    BY <2>a, <2>b
  <2>1. ASSUME UNCHANGED <<head_, tail_, buffer_, result>>
        PROVE  UNCHANGED Fifo!fifoVars
    BY <2>1 DEF Fifo!fifoVars, Contents
  <2>2. CASE PushWrite
    <3>1. /\ ptail = tail_
          /\ UNCHANGED <<head_, tail_, result>>
          /\ buffer_' = [buffer_ EXCEPT ![ptail] = pvalue]
      BY <2>2 DEF PushWrite, IInv, InFlight, consumer
    <3>2. ASSUME NEW k \in 1 .. avail
          PROVE  buffer_'[Advance(head_, k - 1)] = buffer_[Advance(head_, k - 1)]
      <4>1. k - 1 \in 0 .. (avail - 1)
        BY <2>0
      <4>2. Advance(head_, k - 1) # tail_
        BY <2>0, <4>1, TailNotFilled
      <4>3. QED
        BY <3>1, <4>2 DEF IInv, TypeOK
    <3>3. Contents' = Contents
      BY <3>1, <3>2 DEF Contents
    <3>4. QED
      BY <3>1, <3>3 DEF Fifo!fifoVars
  <2>3. CASE PushPublish
    <3>1. /\ ptail = tail_ /\ Advance(tail_, 1) # head_ /\ pvalue \in Value
          /\ buffer_[tail_] = pvalue
          /\ UNCHANGED <<buffer_, head_, result>>
          /\ tail_' = Advance(tail_, 1)
      BY <2>3 DEF PushPublish, IInv, InFlight, consumer
    <3>2. /\ tail_' \in Index
          /\ Available(head_, tail_') = avail + 1
          /\ Advance(head_, avail) = tail_
      BY <3>1, <2>0, PublishGrows
    <3>3. avail + 1 \in 0 .. (Capacity - 1)
      BY <3>2, <2>0, AvailableBound
    <3>4. Contents' = [k \in 1 .. (avail + 1) |-> buffer_[Advance(head_, k - 1)]]
      BY <3>1, <3>2 DEF Contents
    <3>5. ASSUME NEW k \in 1 .. (avail + 1)
          PROVE  Contents'[k] = Append(Contents, pvalue)[k]
      <4>1. CASE k = avail + 1
        <5>1. k - 1 = avail
          BY <4>1, <2>0
        <5>2. QED
          BY <4>1, <5>1, <3>4, <3>1, <3>2, <2>0
      <4>2. CASE k \in 1 .. avail
        <5>1. Append(Contents, pvalue)[k] = Contents[k]
          BY <4>2, <2>0
        <5>2. Contents[k] = buffer_[Advance(head_, k - 1)]
          BY <4>2 DEF Contents
        <5>3. QED
          BY <5>1, <5>2, <3>4
      <4>3. QED
        BY <4>1, <4>2, <2>0
    <3>6. Contents' = Append(Contents, pvalue)
      <4>1. /\ Append(Contents, pvalue) \in Seq(Value)
            /\ Len(Append(Contents, pvalue)) = avail + 1
        BY <2>0, <3>1
      <4>2. \A k \in 1 .. (avail + 1) : Contents'[k] \in Value
        BY <3>5, <4>1, ElementOfSeq
      <4>3. Contents' \in Seq(Value) /\ Len(Contents') = avail + 1
        BY <3>4, <4>2, <2>0
      <4>4. QED
        BY <3>5, <4>1, <4>3, SeqEqual
    <3>7. Fifo!Put(pvalue)
      BY <3>1, <3>3, <3>6, <2>0, CapacityAssumption DEF Fifo!Put
    <3>8. QED
      BY <3>1, <3>7 DEF Fifo!FifoNext
  <2>4. CASE PopEmpty
    <3>1. UNCHANGED <<head_, tail_, buffer_>> /\ result' = <<>>
      BY <2>4 DEF PopEmpty, ring
    <3>2. Contents' = Contents
      BY <3>1 DEF Contents
    <3>3. SubSeq(Contents, 1, 0) = <<>> /\ SubSeq(Contents, 0 + 1, Len(Contents)) = Contents
      BY <2>0
    <3>4. Fifo!Take(0)
      BY <3>1, <3>2, <3>3, <2>0 DEF Fifo!Take
    <3>5. QED
      BY <3>4, <2>0 DEF Fifo!FifoNext
  <2>5. CASE PopAdvance
    <3>1. /\ chead = head_ /\ Len(copied) = count /\ count <= avail
          /\ head_' = Advance(head_, count) /\ result' = copied
          /\ UNCHANGED <<buffer_, tail_>>
          /\ count \in 0 .. avail /\ copied \in Seq(Value \cup {NoValue})
      BY <2>5 DEF PopAdvance, IInv, InFlight, TypeOK
    <3>2. /\ Available(head_', tail_) = avail - count
          /\ \A k \in 0 .. (avail - count) :
               Advance(head_', k) = Advance(head_, count + k)
      BY <3>1, <2>0, TakeShrinks
    <3>3. copied = SubSeq(Contents, 1, count)
      <4>1. \A k \in 1 .. count : copied[k] = Contents[k]
        BY <3>1, <2>0, <2>5 DEF PopAdvance, IInv, InFlight, Contents
      <4>2. QED
        BY <3>1, <4>1, <2>0
    <3>4. Contents' = SubSeq(Contents, count + 1, avail)
      <4>1. Contents' = [k \in 1 .. (avail - count) |-> buffer_[Advance(head_', k - 1)]]
        BY <3>1, <3>2 DEF Contents
      <4>2. ASSUME NEW k \in 1 .. (avail - count)
            PROVE  Contents'[k] = Contents[count + k]
        <5>1. /\ k - 1 \in 0 .. (avail - count)
              /\ count + k \in 1 .. avail
              /\ count + (k - 1) = (count + k) - 1
          BY <3>1, <2>0
        <5>2. Advance(head_', k - 1) = Advance(head_, (count + k) - 1)
          BY <5>1, <3>2
        <5>3. QED
          BY <4>1, <5>1, <5>2 DEF Contents
      <4>3. \A k \in 1 .. avail : Contents[k] \in Value
        BY <2>0, ElementOfSeq
      <4>4. /\ avail - count \in Nat
            /\ \A k \in 1 .. (avail - count) : Contents'[k] \in Value
        BY <4>2, <4>3, <3>1, <2>0
      <4>5. Len(Contents') = avail - count /\ Contents' \in Seq(Value)
        BY <4>1, <4>4
      <4> DEFINE rest == SubSeq(Contents, count + 1, avail)
      <4>6. /\ rest \in Seq(Value)
            /\ Len(rest) = avail - count
            /\ \A k \in 1 .. (avail - count) : rest[k] = Contents[count + k]
        BY <2>0, <3>1, <4>4
      <4>7. QED
        BY <4>2, <4>5, <4>6, SeqEqual
    <3>5. Fifo!Take(count)
      BY <3>1, <3>3, <3>4, <2>0 DEF Fifo!Take
    <3>6. QED
      BY <3>1, <3>5, <2>0 DEF Fifo!FifoNext
  <2>6. ASSUME NEW v \in Value, PushFull(v) \/ PushLoad(v)
        PROVE  UNCHANGED Fifo!fifoVars
    BY <2>1, <2>6 DEF PushFull, PushLoad, ring, consumer
  <2>7. CASE PushRefused \/ PopLoadHead \/ PopOne \/ BatchReady \/ BatchReloadHead
             \/ BatchCount \/ CopyOne \/ UNCHANGED vars
    BY <2>1, <2>7 DEF PushRefused, PopLoadHead, PopOne, BatchReady, BatchReloadHead,
                      BatchCount, CopyOne, vars, ring, consumer
  <2>8. QED
    BY <2>2, <2>3, <2>4, <2>5, <2>6, <2>7 DEF Next, Push, Pop
<1>3. QED
  BY <1>1, <1>2, Invariance, PTL DEF Spec, ImplementsFifo, Fifo!FifoSpec

=============================================================================
