-------------------------- MODULE LdsPipelineProofs --------------------------
(***************************************************************************)
(* Proofs about LdsPipeline, for any number of lidars, any ring size and   *)
(* any width of the indices that is a multiple of it.                      *)
(*   Shape    the types, and which of the threads' places go together;     *)
(*   Room     what the ring of a lidar holds never exceeds it, whichever   *)
(*            value of wr_idx the poll thread still sees;                  *)
(*   Wake     whoever leaves a frame on a ring leaves somebody who will    *)
(*            look at it;                                                  *)
(*   Chain    the packets of a lidar, stage by stage on their way, are in  *)
(*            the order in which they came;                                *)
(*   Account  every packet is in one stage of one lidar, or was dropped;   *)
(*   Lags     the poll thread is one store of wr_idx behind at most.       *)
(***************************************************************************)
EXTENDS LdsPipeline, NumberLemmas

-----------------------------------------------------------------------------
(* The indices *)

LEMMA Sizes ==
  /\ Size \in Nat \ {0} /\ IndexRange \in Nat \ {0}
  /\ Size < IndexRange /\ IndexRange % Size = 0
BY SizeAssumption, RangeAssumption

\* How many frames lie between two indices.
LEMMA UsedValue ==
  ASSUME NEW w \in Index, NEW r \in Index
  PROVE  /\ Used(w, r) = IF w >= r THEN w - r ELSE w - r + IndexRange
         /\ Used(w, r) \in Index
<1>1. Used(w, r) = IF w >= r THEN w - r ELSE w - r + IndexRange
  BY Sizes DEF Used, Index
<1>2. QED
  BY <1>1, Sizes DEF Index

LEMMA Next1Value ==
  ASSUME NEW i \in Index
  PROVE  /\ Next1(i) = IF i + 1 < IndexRange THEN i + 1 ELSE 0
         /\ Next1(i) \in Index
<1>1. Next1(i) = IF i + 1 < IndexRange THEN i + 1 ELSE 0
  BY Sizes DEF Next1, Index
<1>2. QED
  BY <1>1, Sizes DEF Index

\* An index that advances: one frame more, or one less.
LEMMA UsedNext ==
  ASSUME NEW w \in Index, NEW r \in Index
  PROVE  /\ Used(w, r) = 0 <=> w = r
         /\ Used(w, r) + 1 < IndexRange => Used(Next1(w), r) = Used(w, r) + 1
         /\ Used(w, r) + 1 >= IndexRange => Used(Next1(w), r) = 0
         /\ w # r => Used(w, Next1(r)) = Used(w, r) - 1
<1>1. /\ Used(w, r) = (IF w >= r THEN w - r ELSE w - r + IndexRange)
      /\ w \in 0 .. IndexRange - 1 /\ r \in 0 .. IndexRange - 1 /\ IndexRange \in Nat
  BY UsedValue, Sizes DEF Index
<1>2. /\ Next1(w) = IF w + 1 < IndexRange THEN w + 1 ELSE 0
      /\ Next1(w) \in Index
  BY Next1Value
<1>3. /\ Next1(r) = IF r + 1 < IndexRange THEN r + 1 ELSE 0
      /\ Next1(r) \in Index
  BY Next1Value
<1>4. Used(Next1(w), r) = IF Next1(w) >= r THEN Next1(w) - r ELSE Next1(w) - r + IndexRange
  BY <1>2, UsedValue
<1>5. Used(w, Next1(r)) = IF w >= Next1(r) THEN w - Next1(r) ELSE w - Next1(r) + IndexRange
  BY <1>3, UsedValue
<1>6. QED
  BY <1>1, <1>2, <1>3, <1>4, <1>5

\* A whole turn of the indices does not change the slot they stand for.
LEMMA TurnOfIndices ==
  ASSUME NEW n \in Nat
  PROVE  Masked(n + IndexRange) = Masked(n)
<1> DEFINE p == IndexRange \div Size
           q == n \div Size
           r == n % Size
<1>1. IndexRange = Size * p + (IndexRange % Size) /\ p \in Int
  BY Sizes, DivMod
<1>2. n = Size * q + r /\ q \in Int /\ r \in 0 .. Size - 1
  BY Sizes, DivMod
<1> HIDE DEF p, q, r
<1>3. n + IndexRange = Size * (q + p) + r
  BY <1>1, <1>2, Sizes
<1>4. (Size * (q + p) + r) % Size = r
  <2>1. q + p \in Int /\ r \in 0 .. Size - 1 /\ Size \in Nat \ {0}
    BY <1>1, <1>2, Sizes
  <2> DEFINE t == q + p
  <2> HIDE DEF t
  <2>2. (Size * t + r) % Size = r
    BY <2>1, ModUnique DEF t
  <2>3. QED
    BY <2>2 DEF t
<1>5. QED
  BY <1>3, <1>4 DEF Masked, r

\* The slot at w is the one after the frames between r and w.
LEMMA SlotAtEnd ==
  ASSUME NEW w \in Index, NEW r \in Index
  PROVE  Masked(r + Used(w, r)) = Masked(w)
<1>1. /\ Used(w, r) = (IF w >= r THEN w - r ELSE w - r + IndexRange)
      /\ w \in Nat /\ r \in Nat /\ IndexRange \in Nat
  BY UsedValue, Sizes DEF Index
<1>2. CASE w >= r
  BY <1>1, <1>2
<1>3. CASE w < r
  <2>1. r + Used(w, r) = w + IndexRange
    BY <1>1, <1>3
  <2>2. QED
    BY <1>1, <2>1, TurnOfIndices
<1>4. QED
  BY <1>1, <1>2, <1>3

\* Frames less than a ring apart have slots of their own.
LEMMA SlotsDiffer ==
  ASSUME NEW a \in Nat, NEW b \in Nat, a < b, b < a + Size
  PROVE  Masked(a) # Masked(b)
<1> SUFFICES ASSUME b % Size = a % Size PROVE FALSE
  BY DEF Masked
<1>1. Size \in Nat \ {0}
  BY Sizes
<1>2. (b - a) % Size = 0
  BY <1>1, SameRemainder
<1>3. b - a \in 0 .. Size - 1 /\ b - a \in Int
  BY <1>1
<1>4. (Size * 0 + (b - a)) % Size = b - a
  BY <1>1, <1>3, ModUnique
<1>5. Size * 0 + (b - a) = b - a
  BY <1>1, <1>3
<1>6. QED
  BY <1>2, <1>3, <1>4, <1>5

\* After rd_idx advanced, the k-th frame left is the one that was behind the k-th.
LEMMA SlotNext ==
  ASSUME NEW r \in Index, NEW k \in Nat
  PROVE  Masked(Next1(r) + k) = Masked(r + (k + 1))
<1>1. /\ Next1(r) = (IF r + 1 < IndexRange THEN r + 1 ELSE 0)
      /\ r \in 0 .. IndexRange - 1 /\ IndexRange \in Nat
  BY Next1Value, Sizes DEF Index
<1>2. CASE r + 1 < IndexRange
  <2>1. Next1(r) + k = r + (k + 1)
    BY <1>1, <1>2
  <2>2. QED
    BY <2>1
<1>3. CASE r + 1 >= IndexRange
  <2>1. Next1(r) + k = k /\ r + (k + 1) = k + IndexRange
    BY <1>1, <1>3
  <2>2. QED
    BY <2>1, TurnOfIndices
<1>4. QED
  BY <1>1, <1>2, <1>3

LEMMA MaskedSlot ==
  ASSUME NEW n \in Nat
  PROVE  Masked(n) \in Slot
BY Sizes, DivMod DEF Masked, Slot

-----------------------------------------------------------------------------
(* Sets in map order *)

LEMMA AscendingLidars ==
  ASSUME NEW S \in SUBSET Lidar
  PROVE  /\ Cardinality(S) \in Nat
         /\ Ascending(S) \in [1 .. Cardinality(S) -> S]
         /\ \A i, j \in 1 .. Cardinality(S) : i < j => Ascending(S)[i] < Ascending(S)[j]
         /\ \A x \in S : \E i \in 1 .. Cardinality(S) : Ascending(S)[i] = x
<1>1. NLidars \in Nat /\ S \in SUBSET (0 .. (NLidars - 1))
  BY LidarAssumption DEF Lidar
<1>2. QED
  BY <1>1, AscendingOrder

-----------------------------------------------------------------------------
(* Shape *)

Numbers == Seq(Nat)
Queue   == [storage_packet : {<<>>} \cup [Slot -> Numbers],
            wr_idx : Index, rd_idx : Index, wr : Index]
Stored(q) == q.storage_packet # <<>>

\* The places of the process thread where the frame in hand has left it: it is on the
\* ring, or was dropped.
Parked == {"pushed", "getcount", "signal"}

RingShape ==
  /\ ring \in [Lidar -> Queue]
  /\ \A l \in Lidar : ~Stored(ring[l]) => ring[l] = NoStorage

FrameShape ==
  /\ raw_packet_queue_ \in Seq([lidar : Lidar, n : Nat]) /\ sent \in Nat
  /\ points_clouds_ \in [Lidar -> Numbers]
  /\ frame_ \in Seq([lidar : Lidar, points : Numbers])
  /\ ppc \in {"off", "idle", "store", "write"} \cup Parked
  /\ ppc \in {"write"} \cup Parked => frame_ # <<>>

PollShape ==
  /\ cpc \in {"off", "loop", "wait", "poll", "publish", "copy", "status"}
  /\ at \in Lidar
  /\ count_ \in 0 .. 1 /\ (ppc = "signal" => count_ = 0)
  /\ config \subseteq indexed /\ indexed \subseteq Lidar /\ sampling \subseteq indexed

\* A slot is filled, and emptied, on a ring that has slots.
SlotShape ==
  /\ ppc = "write" => Stored(ring[Entry.lidar])
  /\ cpc = "copy" => Stored(ring[at])

Shape == RingShape /\ FrameShape /\ PollShape /\ SlotShape

LEMMA SlotInhabited == \E s : s \in Slot
<1>1. 0 \in Slot
  BY Sizes DEF Slot
<1>2. QED
  BY <1>1

LEMMA NoStorageQueue == NoStorage \in Queue /\ ~Stored(NoStorage)
BY Sizes DEF NoStorage, Queue, Index, Stored

LEMMA InitQueueShape ==
  ASSUME NEW q \in Queue
  PROVE  /\ InitQueue(q) \in Queue /\ Stored(InitQueue(q))
         /\ InitQueue(q).wr_idx = q.wr_idx /\ InitQueue(q).rd_idx = q.rd_idx
         /\ InitQueue(q).wr = q.wr
<1>1. <<>> \in Numbers
  BY DEF Numbers
<1>2. [s \in Slot |-> <<>>] \in [Slot -> Numbers]
  BY <1>1
<1>3. [s \in Slot |-> <<>>] # <<>>
  BY SlotInhabited
<1>4. QED
  BY <1>2, <1>3 DEF InitQueue, Queue, Stored

\* Filling a slot keeps the ring a ring.
LEMMA FillShape ==
  ASSUME NEW c \in [Slot -> Numbers], NEW s \in Slot, NEW p \in Numbers
  PROVE  [c EXCEPT ![s] = p] \in [Slot -> Numbers] /\ [c EXCEPT ![s] = p] # <<>>
<1>1. [c EXCEPT ![s] = p] \in [Slot -> Numbers]
  OBVIOUS
<1>2. QED
  BY <1>1, SlotInhabited

LEMMA CutShape ==
  ASSUME NEW V, NEW S \in SUBSET Lidar, NEW clouds \in [Lidar -> V]
  PROVE  /\ Cut(S, clouds) \in Seq([lidar : Lidar, points : V])
         /\ \A k \in DOMAIN Cut(S, clouds) :
              /\ Cut(S, clouds)[k].lidar \in S
              /\ Cut(S, clouds)[k].points = clouds[Cut(S, clouds)[k].lidar]
              /\ Cut(S, clouds)[k].points # <<>>
         /\ \A j, k \in DOMAIN Cut(S, clouds) :
              j < k => Cut(S, clouds)[j].lidar < Cut(S, clouds)[k].lidar
<1> DEFINE T == {l \in S : clouds[l] # <<>>}
           order == Ascending(T)
           cut == [k \in DOMAIN order |-> [lidar |-> order[k], points |-> clouds[order[k]]]]
<1>1. /\ Cardinality(T) \in Nat
      /\ order \in [1 .. Cardinality(T) -> T]
      /\ \A i, j \in 1 .. Cardinality(T) : i < j => order[i] < order[j]
  BY AscendingLidars
<1>2. Cut(S, clouds) = cut
  BY DEF Cut
<1> HIDE DEF order
<1>3. \A k \in 1 .. Cardinality(T) : order[k] \in S /\ order[k] \in Lidar /\ clouds[order[k]] # <<>>
  BY <1>1
<1>4. cut \in Seq([lidar : Lidar, points : V])
  <2>1. \A k \in 1 .. Cardinality(T) :
          [lidar |-> order[k], points |-> clouds[order[k]]] \in [lidar : Lidar, points : V]
    BY <1>3
  <2>3. DOMAIN order = 1 .. Cardinality(T)
    BY <1>1
  <2>4. cut \in [1 .. Cardinality(T) -> [lidar : Lidar, points : V]]
    BY <2>1, <2>3
  <2> DEFINE E == [lidar : Lidar, points : V]
             n == Cardinality(T)
  <2> HIDE DEF E, n, cut
  <2>5. cut \in [1 .. n -> E] /\ n \in Nat
    BY <1>1, <2>4 DEF E, n
  <2>6. cut \in Seq(E)
    BY <2>5
  <2>7. QED
    BY <2>6 DEF E
<1>5. QED
  BY <1>1, <1>2, <1>3, <1>4

\* No cloud of S is left out.
LEMMA CutWhole ==
  ASSUME NEW S \in SUBSET Lidar, NEW clouds, NEW l \in S, clouds[l] # <<>>
  PROVE  \E k \in DOMAIN Cut(S, clouds) : Cut(S, clouds)[k].lidar = l
<1> DEFINE T == {m \in S : clouds[m] # <<>>}
           order == Ascending(T)
           cut == [k \in DOMAIN order |-> [lidar |-> order[k], points |-> clouds[order[k]]]]
<1>1. /\ order \in [1 .. Cardinality(T) -> T]
      /\ \A x \in T : \E i \in 1 .. Cardinality(T) : order[i] = x
  BY AscendingLidars
<1>2. Cut(S, clouds) = cut
  BY DEF Cut
<1>3. l \in T
  OBVIOUS
<1> HIDE DEF order, T
<1>4. PICK k \in 1 .. Cardinality(T) : order[k] = l
  BY <1>1, <1>3
<1>5. k \in DOMAIN cut /\ cut[k].lidar = l
  BY <1>1, <1>4
<1>6. QED
  BY <1>2, <1>5

LEMMA InitShape == Init => Shape
<1> SUFFICES ASSUME Init PROVE Shape
  OBVIOUS
<1>1. 0 \in Lidar
  BY LidarAssumption DEF Lidar
<1>2. <<>> \in Numbers
  BY DEF Numbers
<1>3. RingShape
  BY NoStorageQueue DEF Init, RingShape
<1>4. FrameShape
  BY <1>2 DEF Init, FrameShape, Parked
<1>5. PollShape
  BY <1>1 DEF Init, PollShape
<1>6. SlotShape
  BY DEF Init, SlotShape
<1>7. QED
  BY <1>3, <1>4, <1>5, <1>6 DEF Shape

LEMMA EntryShape ==
  ASSUME FrameShape, frame_ # <<>>
  PROVE  /\ Entry \in [lidar : Lidar, points : Numbers]
         /\ Entry.lidar \in Lidar /\ Entry.points \in Numbers
         /\ Entry = frame_[1] /\ 1 \in DOMAIN frame_
         /\ Tail(frame_) \in Seq([lidar : Lidar, points : Numbers])
<1> DEFINE E == [lidar : Lidar, points : Numbers]
<1>1. frame_ \in Seq(E)
  BY DEF FrameShape
<1> HIDE DEF E
<1>2. Head(frame_) \in E /\ Head(frame_) = frame_[1] /\ 1 \in DOMAIN frame_ /\ Tail(frame_) \in Seq(E)
  BY <1>1
<1>3. QED
  BY <1>2 DEF E, Entry

\* The numbers of a ring.
LEMMA QueueNumbers ==
  ASSUME NEW q \in Queue
  PROVE  /\ q.wr \in Index /\ q.rd_idx \in Index /\ q.wr_idx \in Index
         /\ q.wr \in Nat /\ q.rd_idx \in Nat
         /\ Used(q.wr, q.rd_idx) \in Nat /\ Used(q.wr_idx, q.rd_idx) \in Nat
         /\ Size \in Nat /\ IndexRange \in Nat /\ Size < IndexRange
<1>1. q.wr \in Index /\ q.rd_idx \in Index /\ q.wr_idx \in Index
  BY DEF Queue
<1>2. Used(q.wr, q.rd_idx) \in Index /\ Used(q.wr_idx, q.rd_idx) \in Index
  BY <1>1, UsedValue
<1>3. QED
  BY <1>1, <1>2, Sizes DEF Index

\* What a step does to the rings: at most one of them changes.
LEMMA RingChange ==
  ASSUME RingShape, NEW l \in Lidar, NEW q \in Queue,
         ~Stored(q) => q = NoStorage,
         ring' = [ring EXCEPT ![l] = q]
  PROVE  /\ RingShape' /\ ring'[l] = q
         /\ \A m \in Lidar : m # l => ring'[m] = ring[m]
BY DEF RingShape

LEMMA StoreVisibleRing ==
  ASSUME RingShape, NEW l \in Lidar, StoreVisible(l)
  PROVE  /\ RingShape'
         /\ \A m \in Lidar : m # l => ring'[m] = ring[m]
         /\ ring'[l].storage_packet = ring[l].storage_packet
         /\ ring'[l].wr_idx = ring[l].wr /\ ring'[l].wr = ring[l].wr
         /\ ring'[l].rd_idx = ring[l].rd_idx
<1> DEFINE q == [ring[l] EXCEPT !.wr_idx = ring[l].wr]
<1>1. ring' = [ring EXCEPT ![l] = q]
  BY DEF StoreVisible, RingShape
<1>2. ring[l] \in Queue /\ ring[l].wr_idx # ring[l].wr
  BY DEF RingShape, StoreVisible
<1>3. Stored(ring[l])
  BY <1>2 DEF RingShape, NoStorage
<1>4. /\ q \in Queue /\ q.storage_packet = ring[l].storage_packet
      /\ q.wr_idx = ring[l].wr /\ q.wr = ring[l].wr /\ q.rd_idx = ring[l].rd_idx
  BY <1>2 DEF Queue
<1>5. Stored(q)
  BY <1>3, <1>4 DEF Stored
<1> HIDE DEF q
<1>6. QED
  BY <1>1, <1>4, <1>5, RingChange

LEMMA PushCheckRing ==
  ASSUME Shape, PushCheck
  PROVE  /\ Entry.lidar \in Lidar
         /\ RingShape'
         /\ \A m \in Lidar : m # Entry.lidar => ring'[m] = ring[m]
         /\ ring'[Entry.lidar] = IF Stored(ring[Entry.lidar]) THEN ring[Entry.lidar]
                                                            ELSE InitQueue(ring[Entry.lidar])
         /\ ring'[Entry.lidar].wr_idx = ring[Entry.lidar].wr_idx
         /\ ring'[Entry.lidar].wr = ring[Entry.lidar].wr
         /\ ring'[Entry.lidar].rd_idx = ring[Entry.lidar].rd_idx
         /\ Stored(ring'[Entry.lidar])
         /\ IF QueueIsFull(ring'[Entry.lidar]) THEN ppc' = "getcount" /\ Drop
                                              ELSE ppc' = "write" /\ dropped' = dropped
<1> DEFINE l == Entry.lidar
           q == IF ring[l].storage_packet = <<>> THEN InitQueue(ring[l]) ELSE ring[l]
<1>1. l \in Lidar
  BY EntryShape DEF PushCheck, Shape
<1>2. ring' = [ring EXCEPT ![l] = q]
  BY DEF PushCheck
<1>3. IF QueueIsFull(q) THEN ppc' = "getcount" /\ Drop
                        ELSE ppc' = "write" /\ dropped' = dropped
  BY DEF PushCheck
<1>4. ring[l] \in Queue
  BY <1>1 DEF Shape, RingShape
<1>5. /\ q \in Queue /\ Stored(q)
      /\ q.wr_idx = ring[l].wr_idx /\ q.wr = ring[l].wr /\ q.rd_idx = ring[l].rd_idx
  BY <1>4, InitQueueShape DEF Stored
<1>6. q = IF Stored(ring[l]) THEN ring[l] ELSE InitQueue(ring[l])
  BY DEF Stored
<1> HIDE DEF q, l
<1>7. /\ RingShape' /\ ring'[l] = q
      /\ \A m \in Lidar : m # l => ring'[m] = ring[m]
  BY <1>1, <1>2, <1>5, RingChange DEF Shape
<1>8. QED
  BY <1>1, <1>3, <1>5, <1>6, <1>7 DEF l

LEMMA PushRing ==
  ASSUME Shape, QueuePushAny
  PROVE  LET l == Entry.lidar
         IN  /\ l \in Lidar /\ Entry.points \in Numbers
             /\ RingShape' /\ Stored(ring'[l])
             /\ ring[l].storage_packet \in [Slot -> Numbers]
             /\ Masked(ring[l].wr) \in Slot
             /\ \A m \in Lidar : m # l => ring'[m] = ring[m]
             /\ ring'[l].storage_packet
                  = [ring[l].storage_packet EXCEPT ![Masked(ring[l].wr)] = Entry.points]
             /\ ring'[l].wr_idx = ring[l].wr_idx /\ ring'[l].wr = Next1(ring[l].wr)
             /\ ring'[l].rd_idx = ring[l].rd_idx
<1> DEFINE l == Entry.lidar
           c == [ring[l].storage_packet EXCEPT ![Masked(ring[l].wr)] = Entry.points]
           q == [ring[l] EXCEPT !.storage_packet = c, !.wr = Next1(ring[l].wr)]
<1>1. l \in Lidar /\ Entry.points \in Numbers
  <2>1. frame_ # <<>>
    BY DEF QueuePushAny, Shape, FrameShape
  <2>2. QED
    BY <2>1, EntryShape DEF Shape
<1>2. ring' = [ring EXCEPT ![l] = q]
  BY <1>1 DEF QueuePushAny, Shape, RingShape, Queue
<1>3. ring[l] \in Queue /\ Stored(ring[l])
  BY <1>1 DEF Shape, RingShape, SlotShape, QueuePushAny
<1>4. ring[l].wr \in Index /\ ring[l].wr \in Nat
  BY <1>3, Sizes DEF Queue, Index
<1>5. Masked(ring[l].wr) \in Slot /\ Next1(ring[l].wr) \in Index
  BY <1>4, MaskedSlot, Next1Value
<1>6. ring[l].storage_packet \in [Slot -> Numbers]
  BY <1>3 DEF Queue, Stored
<1>7. c \in [Slot -> Numbers] /\ c # <<>>
  BY <1>1, <1>5, <1>6, FillShape
<1> HIDE DEF c
<1>8. /\ q \in Queue /\ Stored(q) /\ q.storage_packet = c
      /\ q.wr_idx = ring[l].wr_idx /\ q.wr = Next1(ring[l].wr) /\ q.rd_idx = ring[l].rd_idx
  BY <1>3, <1>5, <1>7 DEF Queue, Stored
<1> HIDE DEF q, l
<1>9. /\ RingShape' /\ ring'[l] = q
      /\ \A m \in Lidar : m # l => ring'[m] = ring[m]
  BY <1>1, <1>2, <1>8, RingChange DEF Shape
<1>10. QED
  BY <1>1, <1>5, <1>6, <1>8, <1>9 DEF c, l

LEMMA PopRing ==
  ASSUME Shape, QueuePopUpdate
  PROVE  /\ at \in Lidar /\ RingShape' /\ Stored(ring[at]) /\ Stored(ring'[at])
         /\ \A m \in Lidar : m # at => ring'[m] = ring[m]
         /\ ring'[at].storage_packet = ring[at].storage_packet
         /\ ring'[at].wr_idx = ring[at].wr_idx /\ ring'[at].wr = ring[at].wr
         /\ ring'[at].rd_idx = Next1(ring[at].rd_idx)
<1> DEFINE q == [ring[at] EXCEPT !.rd_idx = Next1(ring[at].rd_idx)]
<1>1. at \in Lidar
  BY DEF Shape, PollShape
<1>2. ring' = [ring EXCEPT ![at] = q]
  BY <1>1 DEF QueuePopUpdate, Shape, RingShape
<1>3. ring[at] \in Queue /\ Stored(ring[at])
  BY <1>1 DEF Shape, RingShape, SlotShape, QueuePopUpdate
<1>4. Next1(ring[at].rd_idx) \in Index
  BY <1>3, Next1Value DEF Queue
<1>5. /\ q \in Queue /\ q.storage_packet = ring[at].storage_packet
      /\ q.wr_idx = ring[at].wr_idx /\ q.wr = ring[at].wr
      /\ q.rd_idx = Next1(ring[at].rd_idx)
  BY <1>3, <1>4 DEF Queue
<1>6. Stored(q)
  BY <1>3, <1>5 DEF Stored
<1> HIDE DEF q
<1>7. QED
  BY <1>1, <1>2, <1>3, <1>5, <1>6, RingChange DEF Shape

\* The IMU samples' steps leave the points' variables alone.
LEMMA ImuAside == Imu \/ UNCHANGED vars => UNCHANGED pcdVars
BY DEF Imu, ImuStore, ImuPoll, vars

LEMMA NextShape == Shape /\ [Next]_vars => Shape'
<1> SUFFICES ASSUME Shape, [Next]_vars PROVE Shape'
  OBVIOUS
<1> USE DEF Shape
<1> DEFINE E == [lidar : Lidar, points : Numbers]
<1>e. frame_ # <<>> => /\ Entry.lidar \in Lidar /\ Tail(frame_) \in Seq(E)
  BY EntryShape
<1>1. ASSUME NEW l \in Lidar, OnPointCloud(l) PROVE Shape'
  <2>1. /\ sent \in Nat /\ sent' = sent + 1
        /\ raw_packet_queue_' = Append(raw_packet_queue_, [lidar |-> l, n |-> sent + 1])
        /\ UNCHANGED <<procVars, ring, cfgVars, count_, pollVars, mainVars>>
    BY <1>1 DEF OnPointCloud, FrameShape
  <2>2. [lidar |-> l, n |-> sent + 1] \in [lidar : Lidar, n : Nat]
    BY <2>1
  <2>3. raw_packet_queue_' \in Seq([lidar : Lidar, n : Nat])
    BY <2>1, <2>2 DEF FrameShape
  <2>4. FrameShape'
    BY <2>1, <2>3 DEF FrameShape, procVars
  <2>5. RingShape' /\ PollShape' /\ SlotShape'
    BY <2>1 DEF RingShape, PollShape, SlotShape, procVars, cfgVars, pollVars, Entry
  <2>6. QED
    BY <2>4, <2>5
<1>2. ASSUME NEW l \in Lidar, AddIndex(l) PROVE Shape'
  BY <1>2 DEF AddIndex, RingShape, FrameShape, PollShape, SlotShape, inVars, procVars, pollVars, mainVars, Entry
<1>3. ASSUME NEW l \in Lidar, StartSampling(l) PROVE Shape'
  BY <1>3 DEF StartSampling, RingShape, FrameShape, PollShape, SlotShape, inVars, procVars, pollVars, mainVars, Entry
<1>4. CASE RawDataProcess
  <2> DEFINE raw    == Head(raw_packet_queue_)
             clouds == [points_clouds_ EXCEPT ![raw.lidar] = Append(@, raw.n)]
  <2>1. raw \in [lidar : Lidar, n : Nat] /\ Tail(raw_packet_queue_) \in Seq([lidar : Lidar, n : Nat])
    <3> DEFINE R == [lidar : Lidar, n : Nat]
    <3>1. raw_packet_queue_ \in Seq(R) /\ raw_packet_queue_ # <<>>
      BY <1>4 DEF RawDataProcess, FrameShape
    <3> HIDE DEF R
    <3>2. Head(raw_packet_queue_) \in R /\ Tail(raw_packet_queue_) \in Seq(R)
      BY <3>1
    <3>3. QED
      BY <3>2 DEF R
  <2>2. clouds \in [Lidar -> Numbers]
    BY SMTT(30), <2>1 DEF FrameShape, Numbers
  <2>3. /\ ppc = "idle" /\ raw_packet_queue_' = Tail(raw_packet_queue_) /\ sent' = sent
        /\ UNCHANGED <<ring, cfgVars, count_, pollVars, mainVars>>
        /\ \/ points_clouds_' = clouds /\ UNCHANGED <<frame_, ppc>>
           \/ \E taken \in {{raw.lidar}, Lidar} :
                /\ frame_' = Cut(taken, clouds)
                /\ points_clouds_' = [l \in Lidar |-> IF l \in taken THEN <<>> ELSE clouds[l]]
                /\ ppc' = "store"
    BY <1>4 DEF RawDataProcess
  <2> HIDE DEF raw, clouds
  <2>4. FrameShape' /\ ppc' \in {"idle", "store"}
    <3>1. CASE points_clouds_' = clouds /\ UNCHANGED <<frame_, ppc>>
      BY <2>1, <2>2, <2>3, <3>1 DEF FrameShape, Parked
    <3>2. ASSUME NEW taken \in {{raw.lidar}, Lidar},
                 frame_' = Cut(taken, clouds),
                 points_clouds_' = [l \in Lidar |-> IF l \in taken THEN <<>> ELSE clouds[l]],
                 ppc' = "store"
          PROVE  FrameShape' /\ ppc' \in {"idle", "store"}
      <4>1. taken \in SUBSET Lidar
        BY <2>1
      <4>2. frame_' \in Seq(E)
        BY <2>2, <3>2, <4>1, CutShape
      <4>3. points_clouds_' \in [Lidar -> Numbers]
        BY <2>2, <3>2 DEF Numbers
      <4>4. QED
        BY <2>1, <2>3, <3>2, <4>2, <4>3 DEF FrameShape, Parked
    <3>3. QED
      BY <2>3, <3>1, <3>2
  <2>5. QED
    BY <2>3, <2>4 DEF RingShape, PollShape, SlotShape, cfgVars, pollVars
<1>5. CASE StoreDone
  BY <1>5 DEF StoreDone, RingShape, FrameShape, PollShape, SlotShape, inVars, cfgVars, pollVars, mainVars, Parked
<1>6. CASE StoreUnknown
  BY <1>6, <1>e DEF StoreUnknown, NextEntry, RingShape, FrameShape, PollShape, SlotShape, inVars, cfgVars, pollVars, mainVars, Parked
<1>7. CASE PushCheck
  <2>1. /\ ppc = "store" /\ frame_ # <<>> /\ frame_' = frame_ /\ ppc' \in {"getcount", "write"}
        /\ UNCHANGED <<inVars, points_clouds_, cfgVars, count_, pollVars>>
    BY <1>7 DEF PushCheck
  <2>2. FrameShape'
    BY <2>1 DEF FrameShape, inVars, Parked
  <2>3. PollShape'
    BY <2>1 DEF PollShape, cfgVars, pollVars
  <2>4. /\ Entry.lidar \in Lidar /\ RingShape' /\ Stored(ring'[Entry.lidar])
        /\ \A m \in Lidar : m # Entry.lidar => ring'[m] = ring[m]
    BY <1>7, PushCheckRing
  <2>5. SlotShape'
    BY <2>1, <2>4 DEF SlotShape, pollVars, Entry, PollShape
  <2>6. QED
    BY <2>2, <2>3, <2>4, <2>5
<1>8. CASE QueuePushAny
  <2>1. /\ ppc = "write" /\ frame_' = frame_ /\ ppc' = "pushed"
        /\ UNCHANGED <<inVars, points_clouds_, cfgVars, count_, pollVars>>
    BY <1>8 DEF QueuePushAny
  <2>2. FrameShape' /\ PollShape'
    BY <2>1 DEF FrameShape, PollShape, inVars, cfgVars, pollVars, Parked
  <2>3. /\ Entry.lidar \in Lidar /\ RingShape' /\ Stored(ring'[Entry.lidar])
        /\ \A m \in Lidar : m # Entry.lidar => ring'[m] = ring[m]
    BY <1>8, PushRing
  <2>4. SlotShape'
    BY <2>1, <2>3 DEF SlotShape, pollVars, PollShape
  <2>5. QED
    BY <2>2, <2>3, <2>4
<1>9. CASE PushedCheck
  BY <1>9, <1>e DEF PushedCheck, NextEntry, RingShape, FrameShape, PollShape, SlotShape, inVars, cfgVars, pollVars, mainVars, Parked
<1>10. CASE GetCount
  <2>1. /\ UNCHANGED <<inVars, points_clouds_, ring, cfgVars, count_, pollVars>>
        /\ ppc = "getcount"
        /\ \/ count_ <= 0 /\ ppc' = "signal" /\ frame_' = frame_
           \/ ppc' = "store" /\ frame_' = Tail(frame_)
    BY <1>10 DEF GetCount, NextEntry
  <2>2. FrameShape'
    BY <2>1, <1>e DEF FrameShape, inVars, Parked
  <2>3. count_ <= 0 => count_ = 0
    BY DEF PollShape
  <2>4. count_' = count_ /\ (ppc' = "signal" => count_ = 0)
    BY <2>1, <2>3
  <2>5. PollShape'
    BY <2>1, <2>4 DEF PollShape, cfgVars, pollVars
  <2>6. RingShape' /\ SlotShape'
    BY <2>1 DEF RingShape, SlotShape, pollVars
  <2>7. QED
    BY <2>2, <2>5, <2>6
<1>11. CASE Signal
  BY <1>11, <1>e DEF Signal, NextEntry, RingShape, FrameShape, PollShape, SlotShape, inVars, cfgVars, pollVars, mainVars, Parked
<1>12. CASE ProcessExit
  BY <1>12 DEF ProcessExit, RingShape, FrameShape, PollShape, SlotShape, inVars, cfgVars, pollVars, mainVars, Parked
<1>13. ASSUME NEW l \in Lidar, StoreVisible(l) PROVE Shape'
  <2>1. UNCHANGED <<inVars, procVars, cfgVars, count_, pollVars>>
    BY <1>13 DEF StoreVisible
  <2>2. /\ RingShape' /\ ring'[l].storage_packet = ring[l].storage_packet
        /\ \A m \in Lidar : m # l => ring'[m] = ring[m]
    BY <1>13, StoreVisibleRing
  <2>3. FrameShape' /\ PollShape'
    BY <2>1 DEF FrameShape, PollShape, inVars, procVars, cfgVars, pollVars
  <2>4. SlotShape'
    <3>1. \A m \in Lidar : Stored(ring[m]) => Stored(ring'[m])
      BY <2>2 DEF Stored
    <3>2. ppc = "write" => Entry.lidar \in Lidar
      BY <1>e DEF FrameShape
    <3>3. Entry' = Entry /\ at' = at /\ at \in Lidar /\ ppc' = ppc /\ cpc' = cpc
      BY <2>1 DEF Entry, procVars, pollVars, PollShape
    <3>4. QED
      BY <3>1, <3>2, <3>3 DEF SlotShape
  <2>5. QED
    BY <2>2, <2>3, <2>4
<1>14. CASE DistributeEnter
  BY <1>14 DEF DistributeEnter, RingShape, FrameShape, PollShape, SlotShape, inVars, procVars, cfgVars, mainVars, Entry
<1>15. CASE Wait
  <2>1. 0 \in Lidar
    BY LidarAssumption DEF Lidar
  <2>2. QED
    BY <1>15, <2>1 DEF Wait, RingShape, FrameShape, PollShape, SlotShape, inVars, procVars, cfgVars, mainVars, Entry
<1>16. CASE PollNext
  BY <1>16 DEF PollNext, RingShape, FrameShape, PollShape, SlotShape, inVars, procVars, cfgVars, mainVars, Entry
<1>17. CASE PublishEnter
  BY <1>17 DEF PublishEnter, MorePolling, Pollable, Stored, RingShape, FrameShape, PollShape, SlotShape, inVars, procVars, cfgVars, mainVars, Entry
<1>18. CASE PublishLeave
  BY <1>18 DEF PublishLeave, RingShape, FrameShape, PollShape, SlotShape, inVars, procVars, cfgVars, mainVars, Entry
<1>19. CASE QueuePrePop
  <2>1. Stored(ring[at])
    BY <1>19 DEF QueuePrePop, QueueIsEmpty, RingShape, PollShape, NoStorage
  <2>2. QED
    BY <1>19, <2>1 DEF QueuePrePop, RingShape, FrameShape, PollShape, SlotShape, inVars, procVars, cfgVars, mainVars, Entry
<1>20. CASE QueuePopUpdate
  <2>1. /\ cpc' = "publish" /\ at' = at /\ UNCHANGED <<inVars, procVars, cfgVars, count_>>
    BY <1>20 DEF QueuePopUpdate
  <2>2. FrameShape' /\ PollShape'
    BY <2>1 DEF FrameShape, PollShape, inVars, procVars, cfgVars
  <2>3. /\ RingShape' /\ Stored(ring'[at])
        /\ \A m \in Lidar : m # at => ring'[m] = ring[m]
    BY <1>20, PopRing
  <2>4. ppc = "write" => Entry.lidar \in Lidar
    BY <1>e DEF FrameShape
  <2>5. SlotShape'
    BY <2>1, <2>3, <2>4 DEF SlotShape, procVars, Entry
  <2>6. QED
    BY <2>2, <2>3, <2>5
<1>21. CASE PollStatus
  BY <1>21 DEF PollStatus, RingShape, FrameShape, PollShape, SlotShape, inVars, procVars, cfgVars, mainVars, Entry
<1>22. ASSUME NEW f, NEW t, MainStep(f, t) PROVE Shape'
  BY <1>22 DEF MainStep, RingShape, FrameShape, PollShape, SlotShape, cfgVars, pollVars, Entry
<1>23. CASE UNCHANGED pcdVars
  BY <1>23 DEF pcdVars, RingShape, FrameShape, PollShape, SlotShape, inVars, procVars, cfgVars, pollVars, Entry
<1>24. QED
  BY <1>1, <1>2, <1>3, <1>4, <1>5, <1>6, <1>7, <1>8, <1>9, <1>10, <1>11, <1>12, <1>13, <1>14,
     <1>15, <1>16, <1>17, <1>18, <1>19, <1>20, <1>21, <1>22, <1>23, ImuAside
     DEF Next, Sdk, Process, Visible, Poll, Main, Exit, RequestExit, ExitSignal, Joined, ProcessJoined

-----------------------------------------------------------------------------
(* The IMU samples *)

\* A queue holds no more than was delivered; a callback about to signal has seen a
\* count of zero, which only it can raise.
ImuShape ==
  /\ imu_sent \in 0 .. MaxImu
  /\ imu_data \in [Lidar -> Nat] /\ \A l \in Lidar : imu_data[l] <= imu_sent
  /\ storing \in [at : {"idle", "look", "signal"}, lidar : Lidar]
  /\ imu_count_ \in 0 .. 1
  /\ storing.at = "signal" => imu_count_ = 0
  /\ ipc \in {"off", "loop", "wait", "poll", "status"} /\ imu_at \in Lidar

LEMMA NoCallbackShape ==
  /\ NoCallback \in [at : {"idle", "look", "signal"}, lidar : Lidar]
  /\ NoCallback.at = "idle" /\ 0 \in Lidar
<1>1. 0 \in Lidar
  BY LidarAssumption DEF Lidar
<1>2. QED
  BY <1>1 DEF NoCallback

LEMMA InitImu == Init => ImuShape
<1> SUFFICES ASSUME Init PROVE ImuShape
  OBVIOUS
<1>1. /\ imu_sent = 0 /\ imu_data = [l \in Lidar |-> 0] /\ storing = NoCallback
      /\ imu_count_ = 0 /\ ipc = "loop" /\ imu_at = 0 /\ MaxImu \in Nat
  BY LidarAssumption DEF Init
<1>2. QED
  BY <1>1, NoCallbackShape DEF ImuShape

LEMMA NextImu == ImuShape /\ [Next]_vars => ImuShape'
<1> SUFFICES ASSUME ImuShape, [Next]_vars PROVE ImuShape'
  OBVIOUS
<1> USE NoCallbackShape DEF ImuShape
<1>1. ASSUME NEW l \in Lidar, OnImuData(l) PROVE ImuShape'
  <2>1. imu_sent' \in 0 .. MaxImu /\ imu_sent' = imu_sent + 1 /\ storing.at = "idle"
    BY <1>1, LidarAssumption DEF OnImuData
  <2>2. CASE l \in indexed
    <3>1. imu_data' = [imu_data EXCEPT ![l] = @ + 1] /\ storing' = [at |-> "look", lidar |-> l]
      BY <1>1, <2>2 DEF OnImuData
    <3>2. imu_data' \in [Lidar -> Nat] /\ \A m \in Lidar : imu_data'[m] <= imu_sent'
      BY <2>1, <3>1
    <3>3. QED
      BY <1>1, <2>1, <3>1, <3>2 DEF OnImuData
  <2>3. CASE l \notin indexed
    BY <1>1, <2>1, <2>3 DEF OnImuData
  <2>4. QED
    BY <2>2, <2>3
<1>2. CASE ImuLook
  BY <1>2 DEF ImuLook
<1>3. CASE ImuSignal
  BY <1>3 DEF ImuSignal
<1>4. CASE ImuEnter \/ ImuWait \/ ImuNext \/ ImuStatus
  BY <1>4 DEF ImuEnter, ImuWait, ImuNext, ImuStatus
<1>5. CASE PublishImu
  <2>1. imu_at \in Lidar /\ imu_data[imu_at] > 0 /\ imu_data' = [imu_data EXCEPT ![imu_at] = @ - 1]
    BY <1>5 DEF PublishImu, MoreImu
  <2>2. imu_data' \in [Lidar -> Nat] /\ \A m \in Lidar : imu_data'[m] <= imu_sent
    BY <2>1
  <2>3. QED
    BY <1>5, <2>2 DEF PublishImu
<1>6. CASE UNCHANGED imuVars
  BY <1>6 DEF imuVars
<1>7. QED
  BY <1>1, <1>2, <1>3, <1>4, <1>5, <1>6
     DEF Next, Sdk, Process, Visible, Poll, Main, Exit, Imu, ImuStore, ImuPoll, vars

-----------------------------------------------------------------------------
(* Room *)

\* The poll thread sees no more frames than there are, and there are no more than
\* slots.
Fits(q) ==
  /\ Used(q.wr_idx, q.rd_idx) <= Used(q.wr, q.rd_idx)
  /\ Used(q.wr, q.rd_idx) <= Size

Room ==
  /\ \A l \in Lidar : Fits(ring[l])
  /\ ppc = "write" => Used(ring[Entry.lidar].wr, ring[Entry.lidar].rd_idx) < Size
  /\ cpc = "copy" => ring[at].rd_idx # ring[at].wr_idx

LEMMA FitsInit == Fits(NoStorage)
<1>1. 0 \in Index
  BY Sizes DEF Index
<1>2. Used(0, 0) = 0
  BY <1>1, UsedNext
<1>3. QED
  BY <1>2, Sizes DEF Fits, NoStorage

LEMMA FitsVisible ==
  ASSUME NEW q \in Queue, NEW p, Fits(q),
         p.wr_idx = q.wr, p.wr = q.wr, p.rd_idx = q.rd_idx
  PROVE  Fits(p)
<1>1. Used(q.wr, q.rd_idx) \in Nat /\ Size \in Nat
  BY QueueNumbers
<1>2. QED
  BY <1>1 DEF Fits

LEMMA FitsPush ==
  ASSUME NEW q \in Queue, NEW p, Fits(q), Used(q.wr, q.rd_idx) < Size,
         p.wr_idx = q.wr_idx, p.wr = Next1(q.wr), p.rd_idx = q.rd_idx
  PROVE  Fits(p) /\ Used(p.wr, p.rd_idx) = Used(q.wr, q.rd_idx) + 1
<1>1. /\ q.wr \in Index /\ q.rd_idx \in Index /\ q.wr_idx \in Index
      /\ Used(q.wr, q.rd_idx) \in Nat /\ Used(q.wr_idx, q.rd_idx) \in Nat
      /\ Size \in Nat /\ IndexRange \in Nat /\ Size < IndexRange
  BY QueueNumbers
<1>2. Used(q.wr, q.rd_idx) + 1 < IndexRange
  BY <1>1
<1>3. Used(Next1(q.wr), q.rd_idx) = Used(q.wr, q.rd_idx) + 1
  BY <1>1, <1>2, UsedNext
<1>4. QED
  BY <1>1, <1>3 DEF Fits

LEMMA FitsPop ==
  ASSUME NEW q \in Queue, NEW p, Fits(q), q.rd_idx # q.wr_idx,
         p.wr_idx = q.wr_idx, p.wr = q.wr, p.rd_idx = Next1(q.rd_idx)
  PROVE  /\ Fits(p) /\ q.rd_idx # q.wr
         /\ Used(p.wr_idx, p.rd_idx) = Used(q.wr_idx, q.rd_idx) - 1
         /\ Used(p.wr, p.rd_idx) = Used(q.wr, q.rd_idx) - 1
         /\ Used(q.wr_idx, q.rd_idx) > 0
<1>1. /\ q.wr \in Index /\ q.rd_idx \in Index /\ q.wr_idx \in Index
      /\ Used(q.wr, q.rd_idx) \in Nat /\ Used(q.wr_idx, q.rd_idx) \in Nat
      /\ Size \in Nat
  BY QueueNumbers
<1>2. Used(q.wr_idx, q.rd_idx) # 0
  BY <1>1, UsedNext
<1>3. Used(q.wr, q.rd_idx) # 0
  BY <1>1, <1>2 DEF Fits
<1>4. q.wr # q.rd_idx
  BY <1>1, <1>3, UsedNext
<1>5. /\ Used(q.wr, Next1(q.rd_idx)) = Used(q.wr, q.rd_idx) - 1
      /\ Used(q.wr_idx, Next1(q.rd_idx)) = Used(q.wr_idx, q.rd_idx) - 1
  BY <1>1, <1>4, UsedNext
<1>6. QED
  BY <1>1, <1>2, <1>4, <1>5 DEF Fits

\* A ring with nothing the process thread knows of has nothing to see either.
LEMMA FitsEmpty ==
  ASSUME NEW q \in Queue, Fits(q), q.wr = q.rd_idx
  PROVE  q.wr_idx = q.rd_idx
<1>1. q.wr \in Index /\ q.rd_idx \in Index /\ q.wr_idx \in Index
  BY DEF Queue
<1>2. Used(q.wr, q.rd_idx) = 0 /\ Used(q.wr_idx, q.rd_idx) \in Nat
  BY <1>1, UsedNext, QueueNumbers
<1>3. Used(q.wr_idx, q.rd_idx) = 0
  BY <1>2 DEF Fits
<1>4. QED
  BY <1>1, <1>3, UsedNext

\* The slot being filled is none of the filled ones.
LEMMA FreeSlot ==
  ASSUME NEW q \in Queue, Used(q.wr, q.rd_idx) < Size,
         NEW k \in Nat, k < Used(q.wr, q.rd_idx)
  PROVE  Masked(q.rd_idx + k) # Masked(q.wr)
<1> DEFINE u == Used(q.wr, q.rd_idx)
           r == q.rd_idx
<1>1. r \in Index /\ q.wr \in Index /\ u \in Nat /\ r \in Nat /\ Size \in Nat
  BY QueueNumbers
<1>2. Masked(r + u) = Masked(q.wr)
  BY <1>1, SlotAtEnd
<1> HIDE DEF u, r
<1>3. r + k \in Nat /\ r + u \in Nat /\ r + k < r + u /\ r + u < (r + k) + Size
  BY <1>1 DEF u
<1>4. Masked(r + k) # Masked(r + u)
  BY <1>3, SlotsDiffer
<1>5. QED
  BY <1>2, <1>4 DEF r

LEMMA InitRoom == Init => Room
BY FitsInit DEF Init, Room

\* The rings as they were, and nobody at a slot who was not.
LEMMA RoomKept ==
  ASSUME Shape, Room, ring' = ring,
         ppc' = "write" => ppc = "write" /\ frame_' = frame_,
         cpc' = "copy" => cpc = "copy" /\ at' = at
  PROVE  Room'
BY DEF Room, Entry

LEMMA NextRoom == Shape /\ Room /\ [Next]_vars => Room'
<1> SUFFICES ASSUME Shape, Room, [Next]_vars PROVE Room'
  OBVIOUS
<1>0. /\ at \in Lidar /\ ring \in [Lidar -> Queue]
      /\ ppc = "write" => Entry.lidar \in Lidar
  BY EntryShape DEF Shape, PollShape, RingShape, FrameShape
<1>1. ASSUME NEW l \in Lidar, OnPointCloud(l) \/ AddIndex(l) \/ StartSampling(l) PROVE Room'
  BY <1>1, RoomKept DEF OnPointCloud, AddIndex, StartSampling, procVars, pollVars
<1>2. CASE RawDataProcess \/ StoreDone \/ StoreUnknown \/ PushedCheck \/ GetCount \/ Signal \/ ProcessExit
  <2>1. ring' = ring /\ ppc' # "write" /\ cpc' = cpc /\ at' = at
    BY <1>2 DEF RawDataProcess, StoreDone, StoreUnknown, PushedCheck, GetCount, Signal, ProcessExit, pollVars
  <2>2. QED
    BY <2>1, RoomKept
<1>3. CASE PushCheck
  <2> DEFINE l == Entry.lidar
  <2>1. /\ ppc' \in {"getcount", "write"} /\ UNCHANGED <<frame_, pollVars>> /\ l \in Lidar
        /\ \A m \in Lidar : m # l => ring'[m] = ring[m]
        /\ ring'[l].wr_idx = ring[l].wr_idx /\ ring'[l].wr = ring[l].wr
        /\ ring'[l].rd_idx = ring[l].rd_idx
        /\ ppc' = "write" => ~QueueIsFull(ring'[l])
    BY <1>3, PushCheckRing DEF PushCheck
  <2>2. \A m \in Lidar : /\ ring'[m].wr_idx = ring[m].wr_idx /\ ring'[m].wr = ring[m].wr
                         /\ ring'[m].rd_idx = ring[m].rd_idx
    BY <2>1
  <2>3. \A m \in Lidar : Fits(ring'[m])
    BY <2>2 DEF Room, Fits
  <2>4. cpc' = "copy" => ring'[at'].rd_idx # ring'[at'].wr_idx
    BY <2>1, <2>2, <1>0 DEF Room, pollVars
  <2>5. ASSUME ppc' = "write" PROVE Used(ring'[l].wr, ring'[l].rd_idx) < Size
    <3>1. ~(Used(ring[l].wr, ring[l].rd_idx) > Size - 1)
      BY <2>1, <2>5 DEF QueueIsFull
    <3>2. Used(ring[l].wr, ring[l].rd_idx) \in Nat /\ Size \in Nat
      BY <1>0, <2>1, QueueNumbers
    <3>3. Used(ring[l].wr, ring[l].rd_idx) < Size
      BY <3>1, <3>2
    <3>4. QED
      BY <2>2, <2>1, <3>3
  <2>6. l = Entry'.lidar
    BY <2>1 DEF Entry
  <2>7. QED
    BY <2>3, <2>4, <2>5, <2>6 DEF Room
<1>4. CASE QueuePushAny
  <2> DEFINE l == Entry.lidar
  <2>1. /\ ppc = "write" /\ ppc' = "pushed" /\ UNCHANGED pollVars /\ l \in Lidar
        /\ \A m \in Lidar : m # l => ring'[m] = ring[m]
        /\ ring'[l].wr_idx = ring[l].wr_idx /\ ring'[l].wr = Next1(ring[l].wr)
        /\ ring'[l].rd_idx = ring[l].rd_idx
    BY <1>4, PushRing DEF QueuePushAny
  <2>2. Fits(ring'[l])
    BY <1>0, <2>1, FitsPush DEF Room
  <2>3. \A m \in Lidar : Fits(ring'[m])
    BY <2>1, <2>2 DEF Room
  <2>4. cpc' = "copy" => ring'[at'].rd_idx # ring'[at'].wr_idx
    <3>1. \A m \in Lidar : ring'[m].wr_idx = ring[m].wr_idx /\ ring'[m].rd_idx = ring[m].rd_idx
      BY <2>1
    <3>2. QED
      BY <2>1, <3>1, <1>0 DEF Room, pollVars
  <2>5. QED
    BY <2>1, <2>3, <2>4 DEF Room
<1>5. ASSUME NEW l \in Lidar, StoreVisible(l) PROVE Room'
  <2>1. /\ UNCHANGED <<procVars, pollVars>>
        /\ \A m \in Lidar : m # l => ring'[m] = ring[m]
        /\ ring'[l].wr_idx = ring[l].wr /\ ring'[l].wr = ring[l].wr
        /\ ring'[l].rd_idx = ring[l].rd_idx
    BY <1>5, StoreVisibleRing DEF StoreVisible, Shape
  <2>2. Fits(ring'[l])
    BY <1>0, <2>1, FitsVisible DEF Room
  <2>3. \A m \in Lidar : Fits(ring'[m])
    BY <2>1, <2>2 DEF Room
  <2>4. \A m \in Lidar : ring'[m].wr = ring[m].wr /\ ring'[m].rd_idx = ring[m].rd_idx
    BY <2>1
  <2>5. ppc' = "write" => Used(ring'[Entry'.lidar].wr, ring'[Entry'.lidar].rd_idx) < Size
    <3>1. ppc' = ppc /\ Entry' = Entry
      BY <2>1 DEF procVars, Entry
    <3>2. QED
      BY <3>1, <2>4, <1>0 DEF Room
  <2>6. cpc' = "copy" => ring'[at'].rd_idx # ring'[at'].wr_idx
    <3>1. cpc' = cpc /\ at' = at
      BY <2>1 DEF pollVars
    <3>2. CASE l = at /\ cpc = "copy"
      <4>1. ring[at] \in Queue /\ Fits(ring[at]) /\ ring[at].rd_idx # ring[at].wr_idx
        BY <3>2, <1>0 DEF Room
      <4>2. ring[at].wr # ring[at].rd_idx
        BY <4>1, FitsEmpty
      <4>3. QED
        BY <2>1, <3>1, <3>2, <4>2
    <3>3. CASE l # at
      BY <2>1, <3>1, <3>3, <1>0 DEF Room
    <3>4. QED
      BY <3>1, <3>2, <3>3
  <2>7. QED
    BY <2>3, <2>5, <2>6 DEF Room
<1>6. CASE DistributeEnter \/ Wait \/ PollNext \/ PublishLeave \/ PollStatus
  <2>1. ring' = ring /\ ppc' = ppc /\ frame_' = frame_ /\ (cpc' = "copy" => cpc = "copy" /\ at' = at)
    BY <1>6 DEF DistributeEnter, Wait, PollNext, PublishLeave, PollStatus, procVars
  <2>2. QED
    BY <2>1, RoomKept
<1>7. CASE PublishEnter \/ QueuePrePop
  BY <1>7 DEF PublishEnter, QueuePrePop, MorePolling, QueueIsEmpty, Room, procVars, Entry
<1>8. CASE QueuePopUpdate
  <2>1. /\ cpc = "copy" /\ cpc' = "publish" /\ UNCHANGED procVars
        /\ \A m \in Lidar : m # at => ring'[m] = ring[m]
        /\ ring'[at].wr_idx = ring[at].wr_idx /\ ring'[at].wr = ring[at].wr
        /\ ring'[at].rd_idx = Next1(ring[at].rd_idx)
    BY <1>8, PopRing DEF QueuePopUpdate
  <2>2. ring[at] \in Queue /\ Fits(ring[at]) /\ ring[at].rd_idx # ring[at].wr_idx
    BY <2>1, <1>0 DEF Room
  <2>3. Fits(ring'[at]) /\ Used(ring'[at].wr, ring'[at].rd_idx) = Used(ring[at].wr, ring[at].rd_idx) - 1
    BY <2>1, <2>2, FitsPop
  <2>4. \A m \in Lidar : Fits(ring'[m])
    BY <2>1, <2>3 DEF Room
  <2>5. ppc' = ppc /\ Entry' = Entry
    BY <2>1 DEF procVars, Entry
  <2>6. ASSUME ppc = "write" PROVE Used(ring'[Entry.lidar].wr, ring'[Entry.lidar].rd_idx) < Size
    <3>1. CASE Entry.lidar = at
      <4>1. PICK u \in Nat : u = Used(ring[at].wr, ring[at].rd_idx)
        BY <2>2, QueueNumbers
      <4>2. u < Size /\ Size \in Int
        BY <2>6, <3>1, <4>1, Sizes DEF Room
      <4>3. u - 1 < Size
        BY <4>1, <4>2
      <4>4. QED
        BY <2>3, <3>1, <4>1, <4>3
    <3>2. CASE Entry.lidar # at
      BY <2>1, <2>6, <3>2, <1>0 DEF Room
    <3>3. QED
      BY <3>1, <3>2
  <2>7. QED
    BY <2>1, <2>4, <2>5, <2>6 DEF Room
<1>9. ASSUME NEW f, NEW t, MainStep(f, t) PROVE Room'
  BY <1>9, RoomKept DEF MainStep, pollVars
<1>10. CASE UNCHANGED pcdVars
  BY <1>10, RoomKept DEF pcdVars, procVars, pollVars
<1>11. QED
  BY <1>1, <1>2, <1>3, <1>4, <1>5, <1>6, <1>7, <1>8, <1>9, <1>10, ImuAside
     DEF Next, Sdk, Process, Visible, Poll, Main, Exit, RequestExit, ExitSignal, Joined, ProcessJoined

\* While one thread fills a slot, the slot the other copies is another one.
LEMMA RoomExcludes == Shape /\ Room => SlotExclusion
<1> SUFFICES ASSUME Shape, Room, ppc = "write", cpc = "copy", Entry.lidar = at
             PROVE  Masked(ring[at].wr) # Masked(ring[at].rd_idx)
  BY DEF SlotExclusion
<1> DEFINE q == ring[at]
<1>1. q \in Queue /\ Fits(q) /\ q.rd_idx # q.wr_idx /\ Used(q.wr, q.rd_idx) < Size
  BY DEF Shape, RingShape, PollShape, Room
<1> HIDE DEF q
<1>2. q.wr # q.rd_idx
  BY <1>1, FitsEmpty
<1>3. q.wr \in Index /\ q.rd_idx \in Index /\ q.rd_idx \in Nat
  BY <1>1, Sizes DEF Queue, Index
<1>4. Used(q.wr, q.rd_idx) # 0 /\ Used(q.wr, q.rd_idx) \in Nat
  BY <1>1, <1>2, <1>3, UsedNext, QueueNumbers
<1>5. 0 \in Nat /\ 0 < Used(q.wr, q.rd_idx)
  BY <1>4
<1>6. Masked(q.rd_idx + 0) # Masked(q.wr)
  BY <1>1, <1>5, FreeSlot
<1>7. q.rd_idx + 0 = q.rd_idx
  BY <1>3
<1>8. QED
  BY <1>6, <1>7 DEF q

\* QueuePushAny never fills the slot that QueuePrePop is copying, whatever the rings'
\* size and however often the indices have wrapped.
THEOREM SlotsExclusive == Spec => []SlotExclusion
<1>1. Init => Shape /\ Room
  BY InitShape, InitRoom
<1>2. Shape /\ Room /\ [Next]_vars => (Shape /\ Room)'
  BY NextShape, NextRoom
<1>3. Shape /\ Room => SlotExclusion
  BY RoomExcludes
<1>4. QED
  BY <1>1, <1>2, <1>3, PTL DEF Spec

-----------------------------------------------------------------------------
(* Wake *)

\* The process thread has not decided yet whether the frame of l needs a Signal.
InHand(l) == ppc \in Parked /\ Entry.lidar = l

\* Somebody will still look at the ring of l: a Wait will return, the poll thread is
\* on its way to l, an exit is under way, or the process thread may signal.
Awaited(l) ==
  \/ count_ > 0
  \/ cpc \in {"poll", "publish", "copy"} /\ at <= l
  \/ request_exit_ /\ cpc # "wait"
  \/ InHand(l)

Lagging(l) == ring[l].wr_idx # ring[l].wr

Wake ==
  \A l \in Lidar :
    /\ Lagging(l) => l \in missed \/ InHand(l)
    /\ (l \in sampling \ missed /\ ring[l].wr # ring[l].rd_idx) => Awaited(l)

LEMMA InitWake == Init => Wake
BY DEF Init, Wake, NoStorage, Lagging

LEMMA NextWake == Shape /\ Room /\ Wake /\ [Next]_vars => Wake'
<1> SUFFICES ASSUME Shape, Room, Wake, [Next]_vars PROVE Wake'
  OBVIOUS
<1>0. /\ at \in Lidar /\ ring \in [Lidar -> Queue] /\ count_ \in {0, 1}
      /\ frame_ # <<>> => Entry.lidar \in Lidar
      /\ ppc \in {"write"} \cup Parked => Entry.lidar \in Lidar
      /\ \A l \in Lidar : Fits(ring[l])
      /\ Lidar \subseteq Int
  BY EntryShape DEF Shape, PollShape, RingShape, FrameShape, Room, Lidar
<1>1. ASSUME NEW l \in Lidar, OnPointCloud(l) \/ AddIndex(l) PROVE Wake'
  <2>1. UNCHANGED <<procVars, ring, sampling, count_, pollVars, mainVars, missed>>
    BY <1>1 DEF OnPointCloud, AddIndex, cfgVars
  <2>2. \A m : (InHand(m)' <=> InHand(m)) /\ (Awaited(m)' <=> Awaited(m))
    BY <2>1 DEF InHand, Awaited, Entry, procVars, pollVars, mainVars
  <2>3. QED
    BY <2>1, <2>2 DEF Wake, Lagging
<1>2. ASSUME NEW l \in Lidar, StartSampling(l) PROVE Wake'
  <2>1. /\ UNCHANGED <<procVars, ring, count_, pollVars, mainVars>>
        /\ sampling' = sampling \cup {l}
        /\ missed' = IF ring[l].wr # ring[l].rd_idx THEN missed \cup {l} ELSE missed
    BY <1>2 DEF StartSampling
  <2>2. \A m : (InHand(m)' <=> InHand(m)) /\ (Awaited(m)' <=> Awaited(m))
    BY <2>1 DEF InHand, Awaited, Entry, procVars, pollVars, mainVars
  <2>3. missed \subseteq missed'
    BY <2>1
  <2>4. ASSUME NEW m \in Lidar, m \in sampling' \ missed', ring[m].wr # ring[m].rd_idx
        PROVE  m \in sampling \ missed
    BY <2>1, <2>4
  <2>5. QED
    BY <2>1, <2>2, <2>3, <2>4 DEF Wake, Lagging
<1>3. CASE RawDataProcess
  BY <1>3 DEF RawDataProcess, Wake, Lagging, Awaited, InHand, cfgVars, pollVars, mainVars, Parked
<1>4. CASE StoreDone \/ StoreUnknown \/ ProcessExit
  <2>1. /\ ppc \in {"idle", "store"} /\ UNCHANGED <<ring, cfgVars, count_, pollVars, mainVars, missed>>
    BY <1>4 DEF StoreDone, StoreUnknown, ProcessExit
  <2>2. \A m : ~InHand(m)
    BY <2>1 DEF InHand, Parked
  <2>3. \A m : Awaited(m) => Awaited(m)'
    BY <2>1, <2>2 DEF Awaited, pollVars, mainVars
  <2>4. QED
    BY <2>1, <2>2, <2>3 DEF Wake, Lagging, cfgVars
<1>5. CASE PushCheck
  <2>1. /\ ppc = "store" /\ UNCHANGED <<cfgVars, count_, pollVars, mainVars, missed>>
    BY <1>5 DEF PushCheck
  <2>2. \A m \in Lidar : /\ ring'[m].wr_idx = ring[m].wr_idx /\ ring'[m].wr = ring[m].wr
                         /\ ring'[m].rd_idx = ring[m].rd_idx
    BY <1>5, PushCheckRing
  <2>3. \A l \in Lidar : ~InHand(l) /\ (Awaited(l) => Awaited(l)')
    BY <2>1 DEF InHand, Awaited, Parked, pollVars, mainVars
  <2>4. QED
    BY <2>1, <2>2, <2>3 DEF Wake, Lagging, cfgVars
<1>6. CASE QueuePushAny
  <2>1. /\ ppc = "write" /\ ppc' = "pushed" /\ frame_' = frame_
        /\ UNCHANGED <<cfgVars, count_, pollVars, mainVars, missed>>
    BY <1>6 DEF QueuePushAny
  <2>2. \A m \in Lidar : m # Entry.lidar => ring'[m] = ring[m]
    BY <1>6, PushRing
  <2>4. \A l \in Lidar : ~InHand(l) /\ (Awaited(l) => Awaited(l)')
    BY <2>1 DEF InHand, Awaited, Parked, pollVars, mainVars
  <2>6. ASSUME NEW m \in Lidar, m # Entry.lidar
        PROVE  /\ Lagging(m)' => m \in missed'
               /\ (m \in sampling' \ missed' /\ ring'[m].wr # ring'[m].rd_idx) => Awaited(m)'
    BY <2>1, <2>2, <2>4, <2>6 DEF Wake, Lagging, cfgVars
  <2>7. ASSUME NEW m \in Lidar, m = Entry.lidar PROVE InHand(m)' /\ Awaited(m)'
    <3>1. InHand(m)'
      BY <2>1, <2>7 DEF InHand, Parked, Entry
    <3>2. QED
      BY <3>1 DEF Awaited
  <2>8. QED
    BY <2>6, <2>7 DEF Wake
<1>7. CASE PushedCheck
  <2> DEFINE l == Entry.lidar
  <2>1. /\ ppc = "pushed" /\ l \in Lidar
        /\ UNCHANGED <<ring, cfgVars, count_, pollVars, mainVars, missed>>
        /\ IF ring[l].wr = ring[l].rd_idx THEN ppc' = "store"
                                          ELSE ppc' = "getcount" /\ frame_' = frame_
    BY <1>0, <1>7 DEF PushedCheck, Parked
  <2>2. CASE ring[l].wr = ring[l].rd_idx
    <3>1. ~Lagging(l)
      BY <1>0, <2>1, <2>2, FitsEmpty DEF Lagging
    <3>2. \A m \in Lidar : InHand(m) => m = l
      BY DEF InHand
    <3>3. QED
      BY <2>1, <2>2, <3>1, <3>2 DEF Wake, Lagging, Awaited, cfgVars, pollVars, mainVars
  <2>3. CASE ring[l].wr # ring[l].rd_idx
    <3>1. \A m : InHand(m) => InHand(m)'
      BY <2>1, <2>3 DEF InHand, Parked, Entry
    <3>2. QED
      BY <2>1, <3>1 DEF Wake, Lagging, Awaited, cfgVars, pollVars, mainVars
  <2>4. QED
    BY <2>2, <2>3
<1>8. CASE GetCount
  <2> DEFINE l == Entry.lidar
  <2>1. /\ ppc = "getcount" /\ UNCHANGED <<ring, cfgVars, count_, pollVars, mainVars>>
        /\ IF count_ <= 0 THEN ppc' = "signal" /\ frame_' = frame_ /\ missed' = missed
             ELSE ppc' = "store" /\ missed' = IF Drained THEN missed ELSE missed \cup {l}
    BY <1>8 DEF GetCount
  <2>2. CASE count_ <= 0
    <3>1. \A m : InHand(m) => InHand(m)'
      BY <2>1, <2>2 DEF InHand, Parked, Entry
    <3>2. QED
      BY <2>1, <2>2, <3>1 DEF Wake, Lagging, Awaited, cfgVars, pollVars, mainVars
  <2>3. CASE ~(count_ <= 0)
    <3>1. count_ > 0 /\ count_' = count_
      BY <1>0, <2>1, <2>3
    <3>2. \A m : Awaited(m)'
      BY <3>1 DEF Awaited
    <3>3. \A m \in Lidar : Lagging(m)' => m \in missed'
      <4>1. CASE Drained
        BY <2>1, <4>1 DEF Drained, Lagging
      <4>2. CASE ~Drained
        <5>1. missed' = missed \cup {l}
          BY <2>1, <2>3, <4>2
        <5>2. \A m : InHand(m) => m = l
          BY DEF InHand
        <5>3. QED
          BY <2>1, <5>1, <5>2 DEF Wake, Lagging
      <4>3. QED
        BY <4>1, <4>2
    <3>4. QED
      BY <3>2, <3>3 DEF Wake
  <2>4. QED
    BY <2>2, <2>3
<1>9. CASE Signal
  <2>1. count_' = count_ + 1 /\ ring' = ring /\ \A l \in Lidar : ~Lagging(l)
    BY <1>9 DEF Signal, Drained, Lagging
  <2>2. count_' > 0
    BY <1>0, <2>1
  <2>3. \A l : Awaited(l)'
    BY <2>2 DEF Awaited
  <2>4. QED
    BY <2>1, <2>3 DEF Wake, Lagging
<1>10. ASSUME NEW l \in Lidar, StoreVisible(l) PROVE Wake'
  <2>1. /\ UNCHANGED <<procVars, cfgVars, count_, pollVars, mainVars, missed>>
        /\ \A m \in Lidar : m # l => ring'[m] = ring[m]
        /\ ring'[l].wr_idx = ring[l].wr /\ ring'[l].wr = ring[l].wr
        /\ ring'[l].rd_idx = ring[l].rd_idx
    BY <1>10, StoreVisibleRing DEF StoreVisible, Shape
  <2>2. \A m : (InHand(m)' <=> InHand(m)) /\ (Awaited(m)' <=> Awaited(m))
    BY <2>1 DEF InHand, Awaited, Entry, procVars, pollVars, mainVars
  <2>3. QED
    BY <2>1, <2>2 DEF Wake, Lagging, cfgVars
<1>11. CASE DistributeEnter
  <2>1. /\ cpc = "loop" /\ UNCHANGED <<procVars, ring, cfgVars, count_, mainVars, missed>>
        /\ cpc' = IF request_exit_ THEN "status" ELSE "wait"
    BY <1>11 DEF DistributeEnter
  <2>2. \A m : (InHand(m)' <=> InHand(m)) /\ (Awaited(m) => Awaited(m)')
    BY <2>1 DEF InHand, Awaited, Entry, procVars, mainVars
  <2>3. QED
    BY <2>1, <2>2 DEF Wake, Lagging, cfgVars
<1>12. CASE Wait
  <2>1. /\ cpc' = "poll" /\ at' = 0 /\ UNCHANGED <<procVars, ring, missed>>
    BY <1>12 DEF Wait
  <2>2. \A m : InHand(m)' <=> InHand(m)
    BY <2>1 DEF InHand, Entry, procVars
  <2>3. \A m \in Lidar : 0 <= m
    BY DEF Lidar
  <2>4. \A m \in Lidar : Awaited(m)'
    BY <2>1, <2>3 DEF Awaited
  <2>5. QED
    BY <2>1, <2>2, <2>4 DEF Wake, Lagging
<1>13. CASE PollNext
  <2>1. /\ cpc = "poll" /\ UNCHANGED <<procVars, ring, cfgVars, count_, mainVars>>
        /\ ~MorePolling
        /\ \/ at + 1 \in Lidar /\ at' = at + 1 /\ cpc' = cpc
           \/ at + 1 \notin Lidar /\ cpc' = "status" /\ at' = at
        /\ missed' = IF Pollable /\ ring[at].wr = ring[at].rd_idx THEN missed \ {at} ELSE missed
    BY <1>13 DEF PollNext
  <2>2. \A m : InHand(m)' <=> InHand(m)
    BY <2>1 DEF InHand, Entry, procVars
  <2>3. ring[at].wr = ring[at].rd_idx => ~Lagging(at)
    BY <1>0, FitsEmpty DEF Lagging
  <2>4. \A m \in Lidar : Lagging(m) => m \in missed' \/ InHand(m)
    BY <2>1, <2>3 DEF Wake
  <2>5. ASSUME NEW m \in Lidar, m \in sampling \ missed', ring[m].wr # ring[m].rd_idx
        PROVE  Awaited(m)'
    <3>1. m \notin missed
      BY <2>1, <2>5
    <3>2. Awaited(m)
      BY <2>5, <3>1 DEF Wake
    <3>3. CASE count_ > 0 \/ InHand(m) \/ request_exit_
      BY <2>1, <2>2, <3>3 DEF Awaited, mainVars
    <3>4. CASE at <= m /\ ~request_exit_ /\ ~InHand(m)
      <4>1. m # at
        <5>1. SUFFICES ASSUME m = at PROVE FALSE
          OBVIOUS
        <5>2. at \in sampling /\ at \notin missed /\ ring[at].wr # ring[at].rd_idx
          BY <2>5, <3>1, <5>1
        <5>3. ring[at].storage_packet # <<>>
          BY <5>2, <1>0 DEF Shape, RingShape, Stored, NoStorage
        <5>4. ring[at].rd_idx = ring[at].wr_idx
          BY <2>1, <3>4, <5>2, <5>3 DEF MorePolling, Pollable, QueueIsEmpty
        <5>5. Lagging(at)
          BY <5>2, <5>4 DEF Lagging
        <5>6. QED
          BY <5>1, <5>2, <5>5, <3>4, <1>0 DEF Wake
      <4>2. at + 1 <= m /\ at + 1 \in Lidar
        <5>1. at \in Int /\ m \in Int /\ NLidars \in Int /\ 0 <= at /\ m <= NLidars - 1
          BY <1>0, <2>5, LidarAssumption DEF Lidar
        <5>2. at + 1 <= m
          BY <3>4, <4>1, <5>1
        <5>3. at + 1 \in 0 .. (NLidars - 1)
          BY <5>1, <5>2
        <5>4. QED
          BY <5>2, <5>3 DEF Lidar
      <4>3. at' = at + 1 /\ cpc' = "poll"
        BY <2>1, <4>2
      <4>4. at' <= m
        BY <4>2, <4>3
      <4>5. QED
        BY <4>3, <4>4 DEF Awaited
    <3>5. QED
      BY <3>2, <3>3, <3>4 DEF Awaited
  <2>6. QED
    BY <2>1, <2>2, <2>4, <2>5 DEF Wake, Lagging, cfgVars
<1>14. CASE PublishEnter \/ PublishLeave \/ QueuePrePop
  <2>1. /\ cpc \in {"poll", "publish", "copy"} /\ cpc' \in {"poll", "publish", "copy"} /\ at' = at
        /\ UNCHANGED <<procVars, ring, cfgVars, count_, mainVars, missed>>
    BY <1>14 DEF PublishEnter, PublishLeave, QueuePrePop
  <2>2. \A m : (InHand(m)' <=> InHand(m)) /\ (Awaited(m) => Awaited(m)')
    BY <2>1 DEF InHand, Awaited, Entry, procVars, mainVars
  <2>3. QED
    BY <2>1, <2>2 DEF Wake, Lagging, cfgVars
<1>15. CASE QueuePopUpdate
  <2>1. /\ cpc = "copy" /\ cpc' = "publish" /\ at' = at
        /\ UNCHANGED <<procVars, cfgVars, count_, mainVars, missed>>
        /\ \A m \in Lidar : m # at => ring'[m] = ring[m]
        /\ ring'[at].wr_idx = ring[at].wr_idx /\ ring'[at].wr = ring[at].wr
    BY <1>15, PopRing DEF QueuePopUpdate
  <2>2. \A m : (InHand(m)' <=> InHand(m)) /\ (Awaited(m) => Awaited(m)')
    BY <2>1 DEF InHand, Awaited, Entry, procVars, mainVars
  <2>3. at <= at
    BY <1>0
  <2>4. Awaited(at)'
    BY <2>1, <2>3 DEF Awaited
  <2>5. QED
    BY <2>1, <2>2, <2>4 DEF Wake, Lagging, cfgVars
<1>16. CASE PollStatus
  <2>1. /\ cpc = "status" /\ cpc' \in {"loop", "off"}
        /\ UNCHANGED <<procVars, ring, cfgVars, count_, mainVars, missed>>
    BY <1>16 DEF PollStatus
  <2>2. \A m : (InHand(m)' <=> InHand(m)) /\ (Awaited(m) => Awaited(m)')
    BY <2>1 DEF InHand, Awaited, Entry, procVars, mainVars
  <2>3. QED
    BY <2>1, <2>2 DEF Wake, Lagging, cfgVars
<1>17. CASE Main
  <2>1. /\ UNCHANGED <<ppc, frame_, ring, cfgVars, count_, pollVars, missed>>
        /\ request_exit_ => request_exit_'
    BY <1>17 DEF Main, Exit, RequestExit, ExitSignal, Joined, ProcessJoined, MainStep
  <2>2. \A m : (InHand(m)' <=> InHand(m)) /\ (Awaited(m) => Awaited(m)')
    BY <2>1 DEF InHand, Awaited, Entry, pollVars
  <2>3. QED
    BY <2>1, <2>2 DEF Wake, Lagging, cfgVars
<1>18. CASE UNCHANGED pcdVars
  BY <1>18 DEF pcdVars, Wake, Lagging, Awaited, InHand, procVars, cfgVars, pollVars, mainVars, Entry
<1>19. QED
  BY <1>1, <1>2, <1>3, <1>4, <1>5, <1>6, <1>7, <1>8, <1>9, <1>10, <1>11, <1>12, <1>13, <1>14,
     <1>15, <1>16, <1>17, <1>18, ImuAside
     DEF Next, Sdk, Process, Visible, Poll

\* The poll thread never sleeps on a frame that a Signal stands for.
THEOREM WakeupsKept == Spec => []NoLostWakeup
<1>1. Init => Shape /\ Room /\ Wake
  BY InitShape, InitRoom, InitWake
<1>2. Shape /\ Room /\ Wake /\ [Next]_vars => (Shape /\ Room /\ Wake)'
  BY NextShape, NextRoom, NextWake
<1>3. Shape /\ Room /\ Wake => NoLostWakeup
  <2> SUFFICES ASSUME Shape, Wake, cpc = "wait", count_ = 0, ppc \in {"idle", "store", "off"},
                      NEW l \in sampling \ missed
               PROVE  ring[l].wr = ring[l].rd_idx
    BY DEF NoLostWakeup
  <2>1. ~Awaited(l)
    BY DEF Awaited, InHand, Parked
  <2>2. l \in Lidar
    BY DEF Shape, PollShape
  <2>3. QED
    BY <2>1, <2>2 DEF Wake
<1>4. QED
  BY <1>1, <1>2, <1>3, PTL DEF Spec

-----------------------------------------------------------------------------
(* Frames: increasing sequences of packet numbers *)

Points == Frames \cup {<<>>}
Packets == 1 .. MaxPackets


\* The i-th of increasing numbers from 1 on is not below i.
LEMMA SortedGrows ==
  ASSUME NEW s \in Seq(Nat \ {0}), Increasing(s), NEW i \in DOMAIN s
  PROVE  i <= s[i]
<1> DEFINE T == {k \in DOMAIN s : s[k] < k}
<1> SUFFICES ASSUME T # {} PROVE FALSE
  <2>1. ASSUME T = {} PROVE i <= s[i]
    <3>1. ~(s[i] < i) /\ s[i] \in Nat /\ i \in Nat
      BY <2>1
    <3>2. QED
      BY <3>1
  <2>2. QED
    BY <2>1
<1>1. DOMAIN s = 1 .. Len(s) /\ Len(s) \in Nat /\ \A k \in 1 .. Len(s) : s[k] \in Nat \ {0}
  OBVIOUS
<1>2. T \in SUBSET Nat
  BY <1>1
<1>3. PICK k \in T : \A j \in T : k <= j
  BY <1>2, LeastNumber
<1>4. k \in 1 .. Len(s) /\ s[k] < k /\ s[k] \in Nat \ {0}
  BY <1>1, <1>3
<1>5. k - 1 \in 1 .. Len(s) /\ k - 1 < k
  BY <1>1, <1>4
<1>6. s[k - 1] < s[k] /\ s[k - 1] \in Nat \ {0}
  BY <1>1, <1>4, <1>5 DEF Increasing
<1>7. ~(s[k - 1] < k - 1)
  BY <1>1, <1>3, <1>4, <1>5
<1>8. QED
  BY <1>4, <1>5, <1>6, <1>7

LEMMA PointsAre ==
  ASSUME NEW s
  PROVE  s \in Points <=> s \in Seq(Packets) /\ Increasing(s)
<1>0. MaxPackets \in Nat
  BY LidarAssumption
<1>1. ASSUME s \in Points PROVE s \in Seq(Packets) /\ Increasing(s)
  <2>1. CASE s = <<>>
    BY <2>1 DEF Increasing
  <2>2. CASE s \in Frames
    <3>1. PICK n \in 1 .. MaxPackets : s \in [1 .. n -> 1 .. MaxPackets]
      BY <2>2 DEF Frames
    <3>2. Increasing(s)
      BY <2>2 DEF Frames, Increasing
    <3>3. n \in Nat /\ s \in [1 .. n -> Packets]
      BY <1>0, <3>1 DEF Packets
    <3>4. s \in Seq(Packets)
      BY <3>3
    <3>5. QED
      BY <3>2, <3>4
  <2>3. QED
    BY <1>1, <2>1, <2>2 DEF Points
<1>2. ASSUME s \in Seq(Packets), Increasing(s) PROVE s \in Points
  <2>1. CASE s = <<>>
    BY <2>1 DEF Points
  <2>2. CASE s # <<>>
    <3>1. Len(s) \in Nat \ {0} /\ DOMAIN s = 1 .. Len(s) /\ s \in [1 .. Len(s) -> Packets]
      BY <1>2, <2>2
    <3>2. Packets \subseteq Nat \ {0}
      BY DEF Packets
    <3>3. s \in Seq(Nat \ {0})
      <4>1. s \in [1 .. Len(s) -> Nat \ {0}]
        BY <3>1, <3>2
      <4>2. QED
        BY <3>1, <4>1
    <3>4. Len(s) \in DOMAIN s
      BY <3>1
    <3>5. Len(s) <= s[Len(s)]
      BY <1>2, <3>3, <3>4, SortedGrows
    <3>6. s[Len(s)] \in 1 .. MaxPackets
      BY <3>1, <3>4 DEF Packets
    <3>7. Len(s) \in 1 .. MaxPackets
      BY <1>0, <3>1, <3>5, <3>6
    <3>8. s \in UNION {[1 .. n -> 1 .. MaxPackets] : n \in 1 .. MaxPackets}
      BY <3>1, <3>7 DEF Packets
    <3>9. QED
      BY <1>2, <3>8 DEF Frames, Increasing, Points
  <2>3. QED
    BY <2>1, <2>2
<1>3. QED
  BY <1>1, <1>2

LEMMA FrameNotEmpty == <<>> \notin Frames
<1>1. SUFFICES ASSUME <<>> \in Frames PROVE FALSE
  OBVIOUS
<1>2. PICK n \in 1 .. MaxPackets : <<>> \in [1 .. n -> 1 .. MaxPackets]
  BY <1>1 DEF Frames
<1>3. 1 \in 1 .. n
  BY <1>2, LidarAssumption
<1>4. QED
  BY <1>2, <1>3

\* Two frames in a row, all of one before all of the other, make a frame.
LEMMA PointsJoin ==
  ASSUME NEW s \in Points, NEW t \in Points, Before(Range(s), Range(t))
  PROVE  s \o t \in Points /\ Range(s \o t) = Range(s) \cup Range(t)
<1>1. s \in Seq(Packets) /\ t \in Seq(Packets) /\ Increasing(s) /\ Increasing(t)
  BY PointsAre
<1> DEFINE m == Len(s)
           n == Len(t)
<1>2. /\ m \in Nat /\ n \in Nat /\ DOMAIN s = 1 .. m /\ DOMAIN t = 1 .. n
      /\ \A i \in 1 .. m : s[i] \in Packets
      /\ \A i \in 1 .. n : t[i] \in Packets
  BY <1>1
<1>3. /\ s \o t \in Seq(Packets) /\ DOMAIN (s \o t) = 1 .. (m + n)
      /\ \A i \in 1 .. (m + n) : (s \o t)[i] = IF i <= m THEN s[i] ELSE t[i - m]
  BY <1>1, <1>2
<1> DEFINE u == s \o t
<1> HIDE DEF u, m, n
<1>4. \A i \in 1 .. m : \A j \in 1 .. n : s[i] < t[j]
  BY <1>2 DEF Before, Range
<1>5. ASSUME NEW i \in 1 .. (m + n), NEW j \in 1 .. (m + n), i < j PROVE u[i] < u[j]
  <2>1. CASE j <= m
    <3>1. i \in 1 .. m /\ j \in 1 .. m
      BY <1>2, <1>5, <2>1
    <3>2. u[i] = s[i] /\ u[j] = s[j]
      BY <1>2, <1>3, <2>1, <3>1 DEF u
    <3>3. QED
      BY <1>1, <1>2, <1>5, <3>1, <3>2 DEF Increasing
  <2>2. CASE i <= m /\ j > m
    <3>1. i \in 1 .. m /\ j - m \in 1 .. n
      BY <1>2, <2>2
    <3>2. u[i] = s[i] /\ u[j] = t[j - m]
      BY <1>2, <1>3, <2>2, <3>1 DEF u
    <3>3. QED
      BY <1>4, <3>1, <3>2
  <2>3. CASE i > m
    <3>1. i - m \in 1 .. n /\ j - m \in 1 .. n /\ i - m < j - m
      BY <1>2, <1>5, <2>3
    <3>2. u[i] = t[i - m] /\ u[j] = t[j - m]
      BY <1>2, <1>3, <1>5, <2>3, <3>1 DEF u
    <3>3. QED
      BY <1>1, <1>2, <3>1, <3>2 DEF Increasing
  <2>4. QED
    BY <1>2, <2>1, <2>2, <2>3
<1>6. Increasing(u)
  BY <1>3, <1>5 DEF Increasing, u
<1>7. u \in Points
  BY <1>3, <1>6, PointsAre DEF u
<1>8. Range(u) = Range(s) \cup Range(t)
  <2>1. ASSUME NEW x \in Range(u) PROVE x \in Range(s) \cup Range(t)
    <3>1. PICK i \in 1 .. (m + n) : u[i] = x
      BY <1>3 DEF Range, u
    <3>2. CASE i <= m
      <4>1. i \in 1 .. m /\ x = s[i]
        BY <1>2, <1>3, <3>1, <3>2 DEF u
      <4>2. QED
        BY <4>1, <1>2 DEF Range
    <3>3. CASE i > m
      <4>1. i - m \in 1 .. n /\ x = t[i - m]
        BY <1>2, <1>3, <3>1, <3>3 DEF u
      <4>2. QED
        BY <4>1, <1>2 DEF Range
    <3>4. QED
      BY <1>2, <3>2, <3>3
  <2>2. ASSUME NEW x \in Range(s) PROVE x \in Range(u)
    <3>1. PICK i \in 1 .. m : s[i] = x
      BY <1>2 DEF Range
    <3>2. i \in 1 .. (m + n) /\ u[i] = x
      BY <1>2, <1>3, <3>1 DEF u
    <3>3. QED
      BY <1>3, <3>2 DEF Range, u
  <2>3. ASSUME NEW x \in Range(t) PROVE x \in Range(u)
    <3>1. PICK i \in 1 .. n : t[i] = x
      BY <1>2 DEF Range
    <3>2. i + m \in 1 .. (m + n) /\ ~(i + m <= m) /\ (i + m) - m = i
      BY <1>2, <3>1
    <3>3. u[i + m] = x
      BY <1>3, <3>1, <3>2 DEF u
    <3>4. QED
      BY <1>3, <3>2, <3>3 DEF Range, u
  <2>4. QED
    BY <2>1, <2>2, <2>3
<1>9. QED
  BY <1>7, <1>8 DEF u

LEMMA PointsAppend ==
  ASSUME NEW s \in Points, NEW n \in Packets, Before(Range(s), {n})
  PROVE  Append(s, n) \in Points /\ Range(Append(s, n)) = Range(s) \cup {n}
<1>1. s \in Seq(Packets)
  BY PointsAre
<1>2. <<n>> \in Seq(Packets) /\ Increasing(<<n>>)
  BY DEF Increasing
<1>3. <<n>> \in Points
  BY <1>2, PointsAre
<1>4. Range(<<n>>) = {n}
  BY DEF Range
<1> DEFINE t == <<n>>
<1>5. Append(s, n) = s \o t
  BY <1>1
<1>6. t \in Points /\ Range(t) = {n}
  BY <1>3, <1>4
<1> HIDE DEF t
<1>7. Before(Range(s), Range(t))
  BY <1>6
<1>8. s \o t \in Points /\ Range(s \o t) = Range(s) \cup Range(t)
  BY <1>6, <1>7, PointsJoin
<1>9. QED
  BY <1>5, <1>6, <1>8

-----------------------------------------------------------------------------
(* The frames a ring holds *)

Places(q) == {k \in Nat : k < Used(q.wr, q.rd_idx)}
FrameAt(q, k) == q.storage_packet[Masked(q.rd_idx + k)]
Held(q) == UNION {Range(FrameAt(q, k)) : k \in Places(q)}

Arranged(q) ==
  /\ \A k \in Places(q) : FrameAt(q, k) \in Frames
  /\ \A k \in Places(q) : \A j \in Places(q) :
       j < k => Before(Range(FrameAt(q, j)), Range(FrameAt(q, k)))

LEMMA HeldNone ==
  ASSUME NEW q \in Queue, q.wr = q.rd_idx
  PROVE  Arranged(q) /\ Held(q) = {}
<1>1. Used(q.wr, q.rd_idx) = 0
  BY UsedNext, QueueNumbers
<1>2. Places(q) = {}
  BY <1>1 DEF Places
<1>3. QED
  BY <1>2 DEF Arranged, Held

\* Only wr_idx, as the poll thread sees it, differs.
LEMMA HeldSame ==
  ASSUME NEW q, NEW p, p.storage_packet = q.storage_packet, p.wr = q.wr, p.rd_idx = q.rd_idx
  PROVE  Held(p) = Held(q) /\ (Arranged(q) => Arranged(p))
BY DEF Held, Arranged, Places, FrameAt

LEMMA HeldPush ==
  ASSUME NEW q \in Queue, NEW p, NEW f \in Frames,
         Fits(q), Used(q.wr, q.rd_idx) < Size, Arranged(q), Before(Held(q), Range(f)),
         q.storage_packet \in [Slot -> Numbers],
         p.storage_packet = [q.storage_packet EXCEPT ![Masked(q.wr)] = f],
         p.wr_idx = q.wr_idx, p.wr = Next1(q.wr), p.rd_idx = q.rd_idx
  PROVE  /\ Arranged(p) /\ Held(p) = Held(q) \cup Range(f)
         /\ \A k \in Places(q) : FrameAt(p, k) = FrameAt(q, k)
         /\ FrameAt(p, Used(q.wr, q.rd_idx)) = f
<1> DEFINE u == Used(q.wr, q.rd_idx)
<1>1. /\ q.wr \in Index /\ q.rd_idx \in Index /\ q.wr \in Nat /\ q.rd_idx \in Nat /\ u \in Nat
      /\ Size \in Nat
  BY QueueNumbers
<1>2. Used(p.wr, p.rd_idx) = u + 1
  BY FitsPush
<1>3. Masked(q.rd_idx + u) = Masked(q.wr) /\ Masked(q.wr) \in Slot
  BY <1>1, SlotAtEnd, MaskedSlot
<1>4. FrameAt(p, u) = f
  BY <1>3 DEF FrameAt
<1>5. ASSUME NEW k \in Places(q) PROVE FrameAt(p, k) = FrameAt(q, k)
  <2>1. k \in Nat /\ k < Used(q.wr, q.rd_idx)
    BY DEF Places
  <2>2. Masked(q.rd_idx + k) # Masked(q.wr)
    BY <2>1, FreeSlot
  <2>3. q.rd_idx + k \in Nat
    BY <1>1, <2>1
  <2>4. Masked(q.rd_idx + k) \in Slot
    BY <2>3, MaskedSlot
  <2>5. QED
    BY <2>2, <2>4 DEF FrameAt
<1> HIDE DEF u
<1>6. Places(p) = Places(q) \cup {u} /\ u \notin Places(q) /\ \A k \in Places(q) : k < u
  BY <1>1, <1>2 DEF Places, u
<1>7. Held(p) = Held(q) \cup Range(f)
  BY <1>4, <1>5, <1>6 DEF Held
<1>8. ASSUME NEW k \in Places(q) PROVE Before(Range(FrameAt(q, k)), Range(f))
  BY DEF Held, Before
<1>9. \A k \in Places(p) : FrameAt(p, k) \in Frames
  BY <1>4, <1>5, <1>6 DEF Arranged
<1>10. ASSUME NEW k \in Places(p), NEW j \in Places(p), j < k
       PROVE  Before(Range(FrameAt(p, j)), Range(FrameAt(p, k)))
  <2>1. j \in Places(q)
    <3>1. SUFFICES ASSUME j = u PROVE FALSE
      BY <1>6
    <3>2. u < k /\ k \in Nat
      BY <1>10, <3>1 DEF Places
    <3>3. QED
      BY <1>1, <1>6, <3>2 DEF Places
  <2>2. CASE k = u
    BY <1>4, <1>5, <1>8, <2>1, <2>2
  <2>3. CASE k \in Places(q)
    BY <1>5, <1>10, <2>1, <2>3 DEF Arranged
  <2>4. QED
    BY <1>6, <2>2, <2>3
<1>11. Arranged(p)
  BY <1>9, <1>10 DEF Arranged
<1>12. QED
  BY <1>4, <1>5, <1>7, <1>11 DEF u

LEMMA HeldPop ==
  ASSUME NEW q \in Queue, NEW p, Fits(q), Arranged(q), q.rd_idx # q.wr_idx,
         p.storage_packet = q.storage_packet,
         p.wr_idx = q.wr_idx, p.wr = q.wr, p.rd_idx = Next1(q.rd_idx)
  PROVE  /\ Arranged(p) /\ Held(q) = Range(FrameAt(q, 0)) \cup Held(p)
         /\ FrameAt(q, 0) = q.storage_packet[Masked(q.rd_idx)] /\ FrameAt(q, 0) \in Frames
         /\ Before(Range(FrameAt(q, 0)), Held(p))
         /\ \A k \in Places(p) : FrameAt(p, k) = FrameAt(q, k + 1)
<1> DEFINE u == Used(q.wr, q.rd_idx)
<1>1. /\ q.rd_idx \in Index /\ q.rd_idx \in Nat /\ u \in Nat /\ q.wr \in Index
  BY QueueNumbers
<1>2. Used(p.wr, p.rd_idx) = u - 1 /\ q.rd_idx # q.wr
  BY FitsPop
<1>3. u # 0
  BY <1>1, <1>2, UsedNext
<1>4. q.rd_idx + 0 = q.rd_idx
  BY <1>1
<1>5. 0 \in Places(q) /\ FrameAt(q, 0) = q.storage_packet[Masked(q.rd_idx)]
  BY <1>1, <1>3, <1>4 DEF Places, FrameAt
<1>6. ASSUME NEW k \in Places(p)
      PROVE  k + 1 \in Places(q) /\ FrameAt(p, k) = FrameAt(q, k + 1) /\ 0 < k + 1
  <2>1. k \in Nat /\ k < u - 1
    BY <1>2 DEF Places
  <2> HIDE DEF u
  <2>2. k + 1 \in Nat /\ k + 1 < u /\ 0 < k + 1
    BY <1>1, <2>1
  <2>3. Masked(Next1(q.rd_idx) + k) = Masked(q.rd_idx + (k + 1))
    BY <1>1, <2>1, SlotNext
  <2>4. QED
    BY <2>2, <2>3 DEF Places, FrameAt, u
<1>7. ASSUME NEW k \in Places(q), k # 0
      PROVE  k - 1 \in Places(p) /\ (k - 1) + 1 = k
  <2> HIDE DEF u
  <2>1. k \in Nat /\ k < u
    BY DEF Places, u
  <2>2. k - 1 \in Nat /\ k - 1 < u - 1 /\ (k - 1) + 1 = k
    BY <1>1, <1>7, <2>1
  <2>3. QED
    BY <1>2, <2>2 DEF Places, u
<1>7a. Held(q) = Range(FrameAt(q, 0)) \cup Held(p)
  <2>1. Held(p) \subseteq Held(q) /\ Range(FrameAt(q, 0)) \subseteq Held(q)
    BY <1>5, <1>6 DEF Held
  <2>2. ASSUME NEW k \in Places(q)
        PROVE  Range(FrameAt(q, k)) \subseteq Range(FrameAt(q, 0)) \cup Held(p)
    <3>1. CASE k # 0
      <4>1. k - 1 \in Places(p) /\ FrameAt(p, k - 1) = FrameAt(q, k)
        BY <1>6, <1>7, <3>1
      <4>2. QED
        BY <4>1 DEF Held
    <3>2. QED
      BY <3>1
  <2>3. QED
    BY <2>1, <2>2 DEF Held
<1>8. ASSUME NEW k \in Places(p) PROVE Before(Range(FrameAt(q, 0)), Range(FrameAt(p, k)))
  BY <1>5, <1>6 DEF Arranged
<1>9. Before(Range(FrameAt(q, 0)), Held(p))
  BY <1>8 DEF Held, Before
<1>10. ASSUME NEW k \in Places(p), NEW j \in Places(p), j < k
       PROVE  Before(Range(FrameAt(p, j)), Range(FrameAt(p, k)))
  <2>1. j + 1 \in Places(q) /\ k + 1 \in Places(q) /\ j + 1 < k + 1
    BY <1>6, <1>10 DEF Places
  <2>2. QED
    BY <1>6, <2>1 DEF Arranged
<1>11. Arranged(p)
  BY <1>6, <1>10 DEF Arranged
<1>12. FrameAt(q, 0) \in Frames
  BY <1>5 DEF Arranged
<1>13. QED
  BY <1>5, <1>6, <1>7a, <1>9, <1>11, <1>12

-----------------------------------------------------------------------------
(* Where a lidar's packets are, and in which order *)

\* A: published, B: on the ring, C: in frames to be pushed, D: gathered for the next
\* frame, E: still raw, of n packets in all.
Chained(A, B, C, D, E, n) ==
  /\ Before(A, B) /\ Before(A \cup B, C) /\ Before(A \cup B \cup C, D)
  /\ Before(A \cup B \cup C \cup D, E)
  /\ A \cup B \cup C \cup D \cup E \subseteq 1 .. n

LEMMA ChainShrinks ==
  ASSUME NEW A, NEW B, NEW C, NEW D, NEW E, NEW n, Chained(A, B, C, D, E, n),
         NEW A1 \in SUBSET A, NEW B1 \in SUBSET B, NEW C1 \in SUBSET C,
         NEW D1 \in SUBSET D, NEW E1 \in SUBSET E
  PROVE  Chained(A1, B1, C1, D1, E1, n)
BY DEF Chained, Before

LEMMA ChainArrival ==
  ASSUME NEW A, NEW B, NEW C, NEW D, NEW E, NEW n \in Nat, Chained(A, B, C, D, E, n)
  PROVE  Chained(A, B, C, D, E \cup {n + 1}, n + 1) /\ Chained(A, B, C, D, E, n + 1)
<1>1. \A x \in 1 .. n : x < n + 1 /\ x \in 1 .. (n + 1)
  OBVIOUS
<1>2. n + 1 \in 1 .. (n + 1)
  OBVIOUS
<1>3. QED
  BY <1>1, <1>2 DEF Chained, Before

LEMMA ChainGather ==
  ASSUME NEW A, NEW B, NEW C, NEW D, NEW E, NEW n, Chained(A, B, C, D, E, n),
         NEW x \in E, NEW E1 \in SUBSET E, Before({x}, E1)
  PROVE  Chained(A, B, C, D \cup {x}, E1, n) /\ Before(D, {x})
BY DEF Chained, Before

LEMMA ChainCut ==
  ASSUME NEW A, NEW B, NEW D, NEW E, NEW n, Chained(A, B, {}, D, E, n)
  PROVE  Chained(A, B, D, {}, E, n)
BY DEF Chained, Before

LEMMA ChainPush ==
  ASSUME NEW A, NEW B, NEW C, NEW D, NEW E, NEW n, Chained(A, B, C, D, E, n),
         NEW F \in SUBSET C
  PROVE  Chained(A, B \cup F, {}, D, E, n) /\ Before(B, F)
BY DEF Chained, Before

LEMMA ChainPop ==
  ASSUME NEW A, NEW B, NEW C, NEW D, NEW E, NEW n, Chained(A, B, C, D, E, n),
         NEW F \in SUBSET B, NEW B1 \in SUBSET B, Before(F, B1)
  PROVE  Chained(A \cup F, B1, C, D, E, n) /\ Before(A, F)
BY DEF Chained, Before

\* The packets of lidar l in the entries behind the first k.
EntriesOf(fr, k, l) == {m \in DOMAIN fr : m > k /\ fr[m].lidar = l}
WaitingIn(fr, k, l) == UNION {Range(fr[m].points) : m \in EntriesOf(fr, k, l)}

\* A frame has at most one entry for a lidar, in map order.
InMapOrder(fr) == \A i, j \in DOMAIN fr : i < j => fr[i].lidar < fr[j].lidar

LEMMA TailWaits ==
  ASSUME NEW T, NEW fr \in Seq(T), fr # <<>>
  PROVE  /\ InMapOrder(fr) => InMapOrder(Tail(fr))
         /\ \A l : WaitingIn(Tail(fr), 0, l) = WaitingIn(fr, 1, l)
         /\ \A l : WaitingIn(fr, 1, l) \subseteq WaitingIn(fr, 0, l)
         /\ \A l : EntriesOf(fr, 1, l) = {} => EntriesOf(Tail(fr), 0, l) = {}
         /\ \A l : EntriesOf(fr, 1, l) \subseteq EntriesOf(fr, 0, l)
<1> DEFINE n == Len(fr)
           t == Tail(fr)
<1>1. /\ n \in Nat \ {0} /\ DOMAIN fr = 1 .. n
      /\ DOMAIN t = 1 .. (n - 1) /\ \A m \in 1 .. (n - 1) : t[m] = fr[m + 1]
  OBVIOUS
<1> HIDE DEF n, t
<1>2. \A m \in DOMAIN t : m + 1 \in DOMAIN fr /\ m + 1 > 1 /\ t[m] = fr[m + 1] /\ m \in Int
  BY <1>1
<1>2a. \A m \in DOMAIN fr : m > 1 => m - 1 \in DOMAIN t /\ m - 1 > 0 /\ t[m - 1] = fr[m]
  BY <1>1
<1>3. InMapOrder(fr) => InMapOrder(t)
  <2>1. \A i, j \in DOMAIN t : i < j => i + 1 < j + 1
    BY <1>2
  <2>2. QED
    BY <1>2, <2>1 DEF InMapOrder
<1>4. ASSUME NEW l, NEW m \in EntriesOf(t, 0, l)
      PROVE  m + 1 \in EntriesOf(fr, 1, l) /\ t[m] = fr[m + 1]
  BY <1>2 DEF EntriesOf
<1>4a. ASSUME NEW l, NEW m \in EntriesOf(fr, 1, l)
       PROVE  m - 1 \in EntriesOf(t, 0, l) /\ t[m - 1] = fr[m]
  BY <1>2a DEF EntriesOf
<1>5. ASSUME NEW l PROVE WaitingIn(t, 0, l) = WaitingIn(fr, 1, l)
  BY <1>4, <1>4a DEF WaitingIn
<1>6. ASSUME NEW l PROVE EntriesOf(fr, 1, l) \subseteq EntriesOf(fr, 0, l)
  <2>1. \A m \in DOMAIN fr : m > 1 => m > 0
    BY <1>1
  <2>2. QED
    BY <2>1 DEF EntriesOf
<1>7. ASSUME NEW l PROVE WaitingIn(fr, 1, l) \subseteq WaitingIn(fr, 0, l)
  BY <1>6 DEF WaitingIn
<1>8. QED
  BY <1>3, <1>4, <1>5, <1>6, <1>7 DEF t

LEMMA HeadWaits ==
  ASSUME NEW T, NEW fr \in Seq(T), fr # <<>>, InMapOrder(fr),
         \A m \in DOMAIN fr : fr[m].lidar \in Int
  PROVE  /\ 1 \in EntriesOf(fr, 0, fr[1].lidar)
         /\ Range(fr[1].points) = WaitingIn(fr, 0, fr[1].lidar)
         /\ \A m \in EntriesOf(fr, 0, fr[1].lidar) : m = 1
         /\ EntriesOf(fr, 1, fr[1].lidar) = {} /\ WaitingIn(fr, 1, fr[1].lidar) = {}
         /\ \A l : l # fr[1].lidar => WaitingIn(fr, 1, l) = WaitingIn(fr, 0, l)
<1>1. 1 \in DOMAIN fr /\ DOMAIN fr \subseteq Nat \ {0}
  OBVIOUS
<1>2. 1 \in EntriesOf(fr, 0, fr[1].lidar)
  BY <1>1 DEF EntriesOf
<1>3. EntriesOf(fr, 1, fr[1].lidar) = {}
  <2>1. SUFFICES ASSUME NEW m \in DOMAIN fr, m > 1, fr[m].lidar = fr[1].lidar PROVE FALSE
    BY DEF EntriesOf
  <2>2. 1 < m
    BY <1>1, <2>1
  <2>3. fr[1].lidar < fr[m].lidar
    BY <1>1, <2>2 DEF InMapOrder
  <2>4. fr[1].lidar \in Int
    BY <1>1
  <2>5. QED
    BY <2>1, <2>3, <2>4
<1>4. ASSUME NEW l, l # fr[1].lidar PROVE EntriesOf(fr, 1, l) = EntriesOf(fr, 0, l)
  <2>1. \A m \in DOMAIN fr : m > 0 /\ (m > 1 \/ m = 1)
    BY <1>1
  <2>2. QED
    BY <1>4, <2>1 DEF EntriesOf
<1>5. ASSUME NEW m \in EntriesOf(fr, 0, fr[1].lidar) PROVE m = 1
  <2>1. m \in DOMAIN fr /\ fr[m].lidar = fr[1].lidar /\ m \notin EntriesOf(fr, 1, fr[1].lidar)
    BY <1>3 DEF EntriesOf
  <2>2. m \in Nat \ {0} /\ ~(m > 1)
    BY <1>1, <2>1 DEF EntriesOf
  <2>3. QED
    BY <2>2
<1>6. Range(fr[1].points) = WaitingIn(fr, 0, fr[1].lidar)
  BY <1>2, <1>5 DEF WaitingIn
<1>7. QED
  BY <1>2, <1>3, <1>4, <1>5, <1>6 DEF WaitingIn

LEMMA RangeOfNone == Range(<<>>) = {}
BY DEF Range

LEMMA CutWaits ==
  ASSUME NEW S \in SUBSET Lidar, NEW clouds \in [Lidar -> Points]
  PROVE  /\ InMapOrder(Cut(S, clouds))
         /\ Cut(S, clouds) \in Seq([lidar : Lidar, points : Frames])
         /\ \A l \in S : WaitingIn(Cut(S, clouds), 0, l) = Range(clouds[l])
         /\ \A l \in Lidar \ S : WaitingIn(Cut(S, clouds), 0, l) = {}
<1> DEFINE fr == Cut(S, clouds)
           V == Points
<1>0. clouds \in [Lidar -> V]
  OBVIOUS
<1> HIDE DEF V
<1>1. /\ fr \in Seq([lidar : Lidar, points : V])
      /\ \A k \in DOMAIN fr : fr[k].lidar \in S /\ fr[k].points = clouds[fr[k].lidar] /\ fr[k].points # <<>>
      /\ \A j, k \in DOMAIN fr : j < k => fr[j].lidar < fr[k].lidar
      /\ \A l \in S : clouds[l] # <<>> => \E k \in DOMAIN fr : fr[k].lidar = l
  <2>1. /\ Cut(S, clouds) \in Seq([lidar : Lidar, points : V])
        /\ \A k \in DOMAIN Cut(S, clouds) :
             /\ Cut(S, clouds)[k].lidar \in S
             /\ Cut(S, clouds)[k].points = clouds[Cut(S, clouds)[k].lidar]
             /\ Cut(S, clouds)[k].points # <<>>
        /\ \A j, k \in DOMAIN Cut(S, clouds) :
             j < k => Cut(S, clouds)[j].lidar < Cut(S, clouds)[k].lidar
    BY <1>0, CutShape
  <2>2. \A l \in S : clouds[l] # <<>> => \E k \in DOMAIN Cut(S, clouds) : Cut(S, clouds)[k].lidar = l
    BY CutWhole
  <2>3. QED
    BY <2>1, <2>2
<1> HIDE DEF fr
<1>2. fr \in Seq([lidar : Lidar, points : Frames])
  <2> DEFINE P == [lidar : Lidar, points : V]
             F == [lidar : Lidar, points : Frames]
  <2>3. fr \in Seq(P)
    BY <1>1
  <2> HIDE DEF P
  <2>1. \A k \in DOMAIN fr : fr[k] \in P
    BY <2>3
  <2>2. \A k \in DOMAIN fr : fr[k] \in F
    BY <1>1, <2>1 DEF P, V, Points
  <2> HIDE DEF F
  <2>4. Len(fr) \in Nat /\ fr \in [1 .. Len(fr) -> F]
    BY <2>2, <2>3
  <2>5. fr \in Seq(F)
    BY <2>4
  <2>6. QED
    BY <2>5 DEF F
<1>3. ASSUME NEW l \in S PROVE WaitingIn(fr, 0, l) = Range(clouds[l])
  <2>1. \A m \in EntriesOf(fr, 0, l) : m \in DOMAIN fr /\ fr[m].points = clouds[l] /\ clouds[l] # <<>>
    BY <1>1 DEF EntriesOf
  <2>2. CASE clouds[l] = <<>>
    <3>1. EntriesOf(fr, 0, l) = {} /\ Range(clouds[l]) = {}
      BY <2>1, <2>2, RangeOfNone
    <3>2. QED
      BY <3>1 DEF WaitingIn
  <2>3. CASE clouds[l] # <<>>
    <3>1. PICK k \in DOMAIN fr : fr[k].lidar = l
      BY <1>1, <2>3
    <3>2. k > 0
      BY <1>2, <3>1
    <3>3. k \in EntriesOf(fr, 0, l)
      BY <3>1, <3>2 DEF EntriesOf
    <3>4. QED
      BY <2>1, <3>3 DEF WaitingIn
  <2>4. QED
    BY <2>2, <2>3
<1>4. QED
  BY ZenonT(30), <1>1, <1>2, <1>3 DEF InMapOrder, WaitingIn, EntriesOf, fr

RawsOf(q, l) == {q[m].n : m \in {m \in DOMAIN q : q[m].lidar = l}}
InArrivalOrder(q) == \A i, j \in DOMAIN q : i < j => q[i].n < q[j].n

LEMMA RawArrives ==
  ASSUME NEW q \in Seq([lidar : Lidar, n : Nat]), NEW l \in Lidar, NEW n \in Nat,
         InArrivalOrder(q), \A m \in DOMAIN q : q[m].n <= n
  PROVE  /\ InArrivalOrder(Append(q, [lidar |-> l, n |-> n + 1]))
         /\ RawsOf(Append(q, [lidar |-> l, n |-> n + 1]), l) = RawsOf(q, l) \cup {n + 1}
         /\ \A k : k # l => RawsOf(Append(q, [lidar |-> l, n |-> n + 1]), k) = RawsOf(q, k)
<1> DEFINE R == [lidar : Lidar, n : Nat]
           e == [lidar |-> l, n |-> n + 1]
           t == Append(q, e)
           len == Len(q)
<1>1. /\ e \in R /\ e.lidar = l /\ e.n = n + 1 /\ q \in Seq(R)
      /\ \A r \in R : r.n \in Nat
  OBVIOUS
<1> HIDE DEF R, e
<1>2. /\ len \in Nat /\ DOMAIN q = 1 .. len /\ DOMAIN t = 1 .. (len + 1)
      /\ \A m \in 1 .. len : t[m] = q[m] /\ q[m] \in R
      /\ t[len + 1] = e
  BY <1>1
<1> HIDE DEF t, len
<1>3. /\ \A m \in DOMAIN t : m = len + 1 \/ m \in DOMAIN q
      /\ len + 1 \in DOMAIN t /\ \A m \in DOMAIN q : m \in DOMAIN t /\ t[m] = q[m]
  BY <1>2
<1>4. ASSUME NEW i \in DOMAIN t, NEW j \in DOMAIN t, i < j PROVE t[i].n < t[j].n
  <2>1. i \in DOMAIN q /\ t[i] = q[i] /\ q[i].n \in Nat
    BY <1>1, <1>2, <1>4
  <2>2. CASE j = len + 1
    <3>1. t[j].n = n + 1 /\ q[i].n <= n
      BY <1>1, <1>2, <2>1, <2>2
    <3>2. q[i].n < n + 1
      BY <2>1, <3>1
    <3>3. QED
      BY <2>1, <3>1, <3>2
  <2>3. CASE j \in DOMAIN q
    BY <1>2, <1>4, <2>1, <2>3 DEF InArrivalOrder
  <2>4. QED
    BY <1>3, <2>2, <2>3
<1>5. InArrivalOrder(t)
  BY <1>4 DEF InArrivalOrder
<1>6. RawsOf(t, l) = RawsOf(q, l) \cup {n + 1}
  BY <1>1, <1>2, <1>3 DEF RawsOf
<1>7. ASSUME NEW k, k # l PROVE RawsOf(t, k) = RawsOf(q, k)
  BY <1>1, <1>2, <1>3, <1>7 DEF RawsOf
<1>8. QED
  BY <1>5, <1>6, <1>7 DEF t, e

LEMMA RawTaken ==
  ASSUME NEW q \in Seq([lidar : Lidar, n : Nat]), q # <<>>, InArrivalOrder(q)
  PROVE  /\ InArrivalOrder(Tail(q))
         /\ RawsOf(q, Head(q).lidar) = RawsOf(Tail(q), Head(q).lidar) \cup {Head(q).n}
         /\ \A k : k # Head(q).lidar => RawsOf(Tail(q), k) = RawsOf(q, k)
         /\ \A k : Before({Head(q).n}, RawsOf(Tail(q), k))
<1> DEFINE R == [lidar : Lidar, n : Nat]
           t == Tail(q)
           len == Len(q)
<1>1. q \in Seq(R)
  OBVIOUS
<1> HIDE DEF R
<1>2. /\ len \in Nat \ {0} /\ DOMAIN q = 1 .. len /\ DOMAIN t = 1 .. (len - 1)
      /\ \A m \in 1 .. (len - 1) : t[m] = q[m + 1]
      /\ Head(q) = q[1]
  BY <1>1
<1> HIDE DEF t, len
<1>3. \A m \in DOMAIN t : m + 1 \in DOMAIN q /\ 1 < m + 1 /\ t[m] = q[m + 1] /\ m \in Int
  BY <1>2
<1>4. 1 \in DOMAIN q
  BY <1>2
<1>5. InArrivalOrder(t)
  <2>1. \A i, j \in DOMAIN t : i < j => i + 1 < j + 1
    BY <1>3
  <2>2. QED
    BY <1>3, <2>1 DEF InArrivalOrder
<1>6. \A m \in DOMAIN q : m = 1 \/ (m - 1 \in DOMAIN t /\ t[m - 1] = q[m])
  BY <1>2
<1>7. /\ RawsOf(q, q[1].lidar) = RawsOf(t, q[1].lidar) \cup {q[1].n}
      /\ \A k : k # q[1].lidar => RawsOf(t, k) = RawsOf(q, k)
  <2>1. ASSUME NEW k PROVE RawsOf(t, k) \subseteq RawsOf(q, k)
    BY <1>3 DEF RawsOf
  <2>2. ASSUME NEW k, NEW m \in DOMAIN q, q[m].lidar = k
        PROVE  (m = 1 /\ q[m].n = q[1].n) \/ q[m].n \in RawsOf(t, k)
    BY <1>6, <2>2 DEF RawsOf
  <2>3. ASSUME NEW k PROVE RawsOf(q, k) \subseteq RawsOf(t, k) \cup {q[1].n}
    BY <2>2 DEF RawsOf
  <2>4. ASSUME NEW k, k # q[1].lidar PROVE RawsOf(q, k) \subseteq RawsOf(t, k)
    BY <2>2, <2>4 DEF RawsOf
  <2>5. q[1].n \in RawsOf(q, q[1].lidar)
    BY <1>4 DEF RawsOf
  <2>6. RawsOf(q, q[1].lidar) = RawsOf(t, q[1].lidar) \cup {q[1].n}
    BY <2>1, <2>3, <2>5
  <2>7. ASSUME NEW k, k # q[1].lidar PROVE RawsOf(t, k) = RawsOf(q, k)
    <3>1. RawsOf(t, k) \subseteq RawsOf(q, k) /\ RawsOf(q, k) \subseteq RawsOf(t, k)
      BY <2>1, <2>4, <2>7
    <3>2. QED
      BY <3>1
  <2>8. QED
    BY <2>6, <2>7
<1>8. ASSUME NEW k PROVE Before({Head(q).n}, RawsOf(t, k))
  <2>1. \A m \in DOMAIN t : q[1].n < t[m].n
    BY <1>3, <1>4 DEF InArrivalOrder
  <2>2. QED
    BY <1>2, <2>1 DEF RawsOf, Before
<1>9. QED
  BY <1>2, <1>5, <1>7, <1>8 DEF t

\* The entry in hand has left the frame once it is on the ring or dropped.
Skip == IF ppc \in Parked THEN 1 ELSE 0
Waiting(l) == WaitingIn(frame_, Skip, l)

Linked(l) == Chained(Range(published[l]), Held(ring[l]), Waiting(l),
                     Range(points_clouds_[l]), RawsOf(raw_packet_queue_, l), sent)

Chain ==
  /\ \A l \in Lidar : Linked(l) /\ Arranged(ring[l])
  /\ InArrivalOrder(raw_packet_queue_)
  /\ InMapOrder(frame_)
  /\ ppc \in {"idle", "off"} => frame_ = <<>>

Strong ==
  /\ sdk \in BOOLEAN /\ is_quit_ \in BOOLEAN
  /\ mpc \in {"running", "signal", "join", "join_process", "done"}
  /\ sent \in 0 .. MaxPackets
  /\ raw_packet_queue_ \in Seq([lidar : Lidar, n : Packets])
  /\ points_clouds_ \in [Lidar -> Points]
  /\ frame_ \in Seq([lidar : Lidar, points : Frames])
  /\ \A l \in Lidar : ring[l].storage_packet \in {<<>>} \cup [Slot -> Points]
  /\ pkg \in [Lidar -> Points] /\ published \in [Lidar -> Points]

LEMMA InitChain == Init => Strong /\ Chain
<1> SUFFICES ASSUME Init PROVE Strong /\ Chain
  OBVIOUS
<1>1. <<>> \in Points /\ 0 \in 0 .. MaxPackets
  BY LidarAssumption DEF Points
<1>2. Strong
  <2>1. sdk \in BOOLEAN /\ is_quit_ \in BOOLEAN /\ mpc = "running"
    BY DEF Init
  <2>2. \A l \in Lidar : ring[l].storage_packet = <<>>
    BY DEF Init, NoStorage
  <2>3. /\ points_clouds_ \in [Lidar -> Points]
        /\ pkg \in [Lidar -> Points] /\ published \in [Lidar -> Points]
    BY <1>1 DEF Init
  <2>4. /\ raw_packet_queue_ \in Seq([lidar : Lidar, n : Packets])
        /\ frame_ \in Seq([lidar : Lidar, points : Frames])
        /\ sent \in 0 .. MaxPackets
    BY <1>1 DEF Init
  <2>5. QED
    BY <2>1, <2>2, <2>3, <2>4 DEF Strong
<1>3. ASSUME NEW l \in Lidar PROVE Linked(l) /\ Arranged(ring[l])
  <2>1. ring[l] = NoStorage
    BY DEF Init
  <2>2. NoStorage.wr = NoStorage.rd_idx
    BY DEF NoStorage
  <2>3. Arranged(ring[l]) /\ Held(ring[l]) = {}
    BY <2>1, <2>2, NoStorageQueue, HeldNone
  <2>4. RawsOf(raw_packet_queue_, l) = {} /\ Waiting(l) = {}
    BY DEF Init, RawsOf, Waiting, WaitingIn, EntriesOf
  <2>5. Range(published[l]) = {} /\ Range(points_clouds_[l]) = {}
    BY RangeOfNone DEF Init
  <2>6. QED
    BY <2>3, <2>4, <2>5 DEF Linked, Chained, Before
<1>4. InArrivalOrder(raw_packet_queue_) /\ InMapOrder(frame_)
  BY DEF Init, InArrivalOrder, InMapOrder
<1>5. QED
  BY <1>2, <1>3, <1>4 DEF Chain, Init

\* What does not change on the way in and out of the rings.
LEMMA ChainKept ==
  ASSUME Chain, UNCHANGED <<published, points_clouds_, raw_packet_queue_, sent>>,
         \A l \in Lidar : /\ Held(ring'[l]) = Held(ring[l]) /\ Arranged(ring'[l])
                          /\ WaitingIn(frame_', Skip', l) \subseteq WaitingIn(frame_, Skip, l),
         InMapOrder(frame_'),
         ppc' \in {"idle", "off"} => frame_' = <<>>
  PROVE  Chain'
<1>1. ASSUME NEW l \in Lidar PROVE Linked(l)'
  <2>1. Linked(l)
    BY DEF Chain
  <2> DEFINE A == Range(published[l])
             B == Held(ring[l])
             C == WaitingIn(frame_, Skip, l)
             D == Range(points_clouds_[l])
             E == RawsOf(raw_packet_queue_, l)
             C1 == WaitingIn(frame_', Skip', l)
  <2>2. Chained(A, B, C, D, E, sent)
    BY <2>1 DEF Linked, Waiting
  <2>3. C1 \in SUBSET C
    OBVIOUS
  <2> HIDE DEF A, B, C, D, E, C1
  <2>4. Chained(A, B, C1, D, E, sent)
    BY <2>2, <2>3, ChainShrinks
  <2>5. QED
    BY <2>4 DEF A, B, C1, D, E, Linked, Waiting
<1>2. InArrivalOrder(raw_packet_queue_)'
  BY DEF Chain, InArrivalOrder
<1>3. InMapOrder(frame_)'
  BY DEF InMapOrder
<1>4. QED
  BY <1>1, <1>2, <1>3 DEF Chain

\* A packet that arrives is behind all others of its lidar.
LEMMA ArrivalRaws ==
  ASSUME Shape, Strong, Chain, ImuShape, NEW l \in Lidar, OnPointCloud(l)
  PROVE  /\ InArrivalOrder(raw_packet_queue_')
         /\ RawsOf(raw_packet_queue_', l) = RawsOf(raw_packet_queue_, l) \cup {sent + 1}
         /\ \A k : k # l => RawsOf(raw_packet_queue_', k) = RawsOf(raw_packet_queue_, k)
         /\ raw_packet_queue_' \in Seq([lidar : Lidar, n : Packets])
         /\ sent \in Nat /\ sent' = sent + 1 /\ sent' \in 0 .. MaxPackets
<1> DEFINE e == [lidar |-> l, n |-> sent + 1]
           q == raw_packet_queue_
<1>1. /\ sent \in Nat /\ sent < MaxPackets /\ sent' = sent + 1 /\ MaxPackets \in Nat
      /\ q' = Append(q, e)
  BY LidarAssumption DEF OnPointCloud, Shape, FrameShape, ImuShape
<1>2. e \in [lidar : Lidar, n : Packets] /\ sent + 1 \in 0 .. MaxPackets
  BY <1>1 DEF Packets
<1>3. q' \in Seq([lidar : Lidar, n : Packets])
  <2> DEFINE R == [lidar : Lidar, n : Packets]
  <2>1. q \in Seq(R) /\ e \in R
    BY <1>2 DEF Strong
  <2> HIDE DEF R, e
  <2>2. Append(q, e) \in Seq(R)
    BY <2>1
  <2>3. QED
    BY <1>1, <2>2 DEF R
<1>4. \A m \in DOMAIN q : q[m].n <= sent
  <2> SUFFICES ASSUME NEW m \in DOMAIN q PROVE q[m].n <= sent
    OBVIOUS
  <2> DEFINE R == [lidar : Lidar, n : Nat]
  <2>1. q \in Seq(R)
    BY DEF Shape, FrameShape
  <2> HIDE DEF R
  <2>2. q[m] \in R
    BY <2>1
  <2>3. q[m].lidar \in Lidar
    BY <2>2 DEF R
  <2>4. q[m].n \in RawsOf(q, q[m].lidar)
    BY DEF RawsOf
  <2>5. q[m].n \in 1 .. sent
    BY <2>3, <2>4 DEF Chain, Linked, Chained
  <2>6. QED
    BY <1>1, <2>5
<1>5. q \in Seq([lidar : Lidar, n : Nat]) /\ InArrivalOrder(q)
  BY DEF Shape, FrameShape, Chain
<1>6. /\ InArrivalOrder(Append(q, e))
      /\ RawsOf(Append(q, e), l) = RawsOf(q, l) \cup {sent + 1}
      /\ \A k : k # l => RawsOf(Append(q, e), k) = RawsOf(q, k)
  BY ZenonT(30), <1>1, <1>4, <1>5, RawArrives
<1> HIDE DEF e
<1>7. QED
  BY <1>1, <1>2, <1>3, <1>6

LEMMA ArrivalChain ==
  ASSUME Shape, Strong, Chain, ImuShape, NEW l \in Lidar, OnPointCloud(l)
  PROVE  Strong' /\ Chain'
<1> DEFINE q == raw_packet_queue_
<1>1. UNCHANGED <<sdk, procVars, ring, pollVars, mainVars>>
  BY DEF OnPointCloud
<1>2. /\ InArrivalOrder(q')
      /\ RawsOf(q', l) = RawsOf(q, l) \cup {sent + 1}
      /\ \A k : k # l => RawsOf(q', k) = RawsOf(q, k)
      /\ q' \in Seq([lidar : Lidar, n : Packets])
      /\ sent \in Nat /\ sent' = sent + 1 /\ sent' \in 0 .. MaxPackets
  BY ArrivalRaws
<1>4. Strong'
  BY <1>1, <1>2 DEF Strong, procVars, pollVars, mainVars
<1>8. ASSUME NEW k \in Lidar PROVE Linked(k)'
  <2> DEFINE A == Range(published[k])
             B == Held(ring[k])
             C == WaitingIn(frame_, Skip, k)
             D == Range(points_clouds_[k])
             E == RawsOf(q, k)
             E1 == RawsOf(q', k)
  <2>1. Chained(A, B, C, D, E, sent)
    BY DEF Chain, Linked, Waiting
  <2>2. E1 \subseteq E \cup {sent + 1}
    BY <1>2
  <2> HIDE DEF A, B, C, D, E, E1
  <2>3. Chained(A, B, C, D, E \cup {sent + 1}, sent + 1)
    BY <1>2, <2>1, ChainArrival
  <2>4. E1 \in SUBSET (E \cup {sent + 1}) /\ A \in SUBSET A /\ B \in SUBSET B /\ C \in SUBSET C
        /\ D \in SUBSET D
    BY <2>2
  <2>5. Chained(A, B, C, D, E1, sent + 1)
    BY <2>3, <2>4, ChainShrinks
  <2>6. Chained(A, B, C, D, E1, sent')
    BY <1>2, <2>5
  <2>7. /\ A = Range(published'[k]) /\ B = Held(ring'[k]) /\ D = Range(points_clouds_'[k])
        /\ C = WaitingIn(frame_', Skip', k) /\ E1 = RawsOf(q', k)
    BY <1>1 DEF A, B, C, D, E1, Skip, procVars, pollVars
  <2>8. QED
    BY <2>6, <2>7 DEF Linked, Waiting
<1>9. InArrivalOrder(raw_packet_queue_)' /\ InMapOrder(frame_)'
  BY <1>1, <1>2 DEF Chain, InArrivalOrder, InMapOrder, procVars
<1>10. \A k \in Lidar : Arranged(ring'[k])
  BY <1>1 DEF Chain
<1>11. QED
  BY <1>1, <1>4, <1>8, <1>9, <1>10 DEF Chain, procVars

\* The packet RawDataProcess takes, and the clouds it has joined.
Taken    == Head(raw_packet_queue_)
Gathered == [points_clouds_ EXCEPT ![Taken.lidar] = Append(@, Taken.n)]

LEMMA TakenPacket ==
  ASSUME Shape, Strong, Chain, RawDataProcess
  PROVE  /\ frame_ = <<>> /\ Taken.lidar \in Lidar
         /\ raw_packet_queue_' \in Seq([lidar : Lidar, n : Packets])
         /\ InArrivalOrder(raw_packet_queue_')
         /\ RawsOf(raw_packet_queue_, Taken.lidar) = RawsOf(raw_packet_queue_', Taken.lidar) \cup {Taken.n}
         /\ \A k : k # Taken.lidar => RawsOf(raw_packet_queue_', k) = RawsOf(raw_packet_queue_, k)
         /\ Gathered \in [Lidar -> Points]
         /\ Range(Gathered[Taken.lidar]) = Range(points_clouds_[Taken.lidar]) \cup {Taken.n}
         /\ \A k \in Lidar : k # Taken.lidar => Gathered[k] = points_clouds_[k]
         /\ \A k \in Lidar :
              Chained(Range(published[k]), Held(ring[k]), {}, Range(Gathered[k]),
                      RawsOf(raw_packet_queue_', k), sent)
<1> DEFINE q      == raw_packet_queue_
           raw    == Taken
           clouds == Gathered
<1>1. ppc = "idle" /\ frame_ = <<>> /\ q # <<>> /\ q' = Tail(q)
  BY DEF RawDataProcess, Chain
<1>2. q \in Seq([lidar : Lidar, n : Nat]) /\ InArrivalOrder(q)
  BY DEF Shape, FrameShape, Chain
<1>3. raw \in [lidar : Lidar, n : Packets] /\ Tail(q) \in Seq([lidar : Lidar, n : Packets])
  <2> DEFINE R == [lidar : Lidar, n : Packets]
  <2>1. q \in Seq(R)
    BY DEF Strong
  <2> HIDE DEF R
  <2>2. Head(q) \in R /\ Tail(q) \in Seq(R)
    BY <1>1, <2>1
  <2>3. QED
    BY <2>2 DEF R, Taken
<1>4. raw.lidar \in Lidar /\ raw.n \in Packets
  BY <1>3
<1>5. /\ InArrivalOrder(Tail(q))
      /\ RawsOf(q, raw.lidar) = RawsOf(Tail(q), raw.lidar) \cup {raw.n}
      /\ \A k : k # raw.lidar => RawsOf(Tail(q), k) = RawsOf(q, k)
      /\ \A k : Before({raw.n}, RawsOf(Tail(q), k))
  BY <1>1, <1>2, RawTaken DEF Taken
<1> HIDE DEF raw, clouds, q
<1>6. /\ DOMAIN clouds = Lidar /\ clouds[raw.lidar] = Append(points_clouds_[raw.lidar], raw.n)
      /\ \A k \in Lidar : k # raw.lidar => clouds[k] = points_clouds_[k]
  BY <1>4 DEF clouds, Gathered, raw, Strong
<1>7. ASSUME NEW k \in Lidar
      PROVE  /\ clouds[k] \in Points
             /\ k = raw.lidar => Range(clouds[k]) = Range(points_clouds_[k]) \cup {raw.n}
             /\ Chained(Range(published[k]), Held(ring[k]), {}, Range(clouds[k]), RawsOf(Tail(q), k), sent)
  <2> DEFINE A == Range(published[k])
             B == Held(ring[k])
             C == WaitingIn(frame_, Skip, k)
             D == Range(points_clouds_[k])
             E == RawsOf(q, k)
             E1 == RawsOf(Tail(q), k)
  <2>1. Chained(A, B, C, D, E, sent)
    BY DEF Chain, Linked, Waiting, q
  <2>2. C = {}
    BY <1>1 DEF WaitingIn, EntriesOf
  <2>3. E1 \in SUBSET E
    BY <1>5
  <2>4. points_clouds_[k] \in Points
    BY DEF Strong
  <2>5. CASE k # raw.lidar
    <3>1. A \in SUBSET A /\ B \in SUBSET B /\ C \in SUBSET C /\ D \in SUBSET D
      OBVIOUS
    <3> HIDE DEF A, B, C, D, E, E1
    <3>2. Chained(A, B, C, D, E1, sent)
      BY <2>1, <2>3, <3>1, ChainShrinks
    <3>3. clouds[k] = points_clouds_[k]
      BY <1>6, <2>5
    <3>4. QED
      BY <2>2, <2>4, <2>5, <3>2, <3>3 DEF A, B, D, E1
  <2>6. CASE k = raw.lidar
    <3>1. raw.n \in E /\ Before({raw.n}, E1)
      BY <1>5, <2>6
    <3>2. Chained(A, B, C, D \cup {raw.n}, E1, sent) /\ Before(D, {raw.n})
      <4> HIDE DEF A, B, C, D, E, E1
      <4>1. QED
        BY <2>1, <2>3, <3>1, ChainGather
    <3>3. Append(points_clouds_[k], raw.n) \in Points
          /\ Range(Append(points_clouds_[k], raw.n)) = D \cup {raw.n}
      BY <1>4, <2>4, <3>2, PointsAppend
    <3>4. clouds[k] = Append(points_clouds_[k], raw.n)
      BY <1>6, <2>6
    <3> HIDE DEF A, B, D, E1, C
    <3>5. QED
      BY <2>2, <3>2, <3>3, <3>4 DEF A, B, D, E1
  <2>7. QED
    BY <2>5, <2>6
<1>8. clouds \in [Lidar -> Points]
  <2>1. clouds = [k \in Lidar |-> clouds[k]]
    BY DEF clouds, Gathered, Strong
  <2>2. QED
    BY <1>7, <2>1
<1>9. QED
  BY <1>1, <1>3, <1>4, <1>5, <1>6, <1>7, <1>8 DEF raw, clouds, q

LEMMA ProcessChain ==
  ASSUME Shape, Strong, Chain, RawDataProcess
  PROVE  Strong' /\ Chain'
<1> DEFINE q      == raw_packet_queue_
           raw    == Taken
           clouds == Gathered
<1>1. /\ frame_ = <<>> /\ ppc = "idle"
      /\ UNCHANGED <<sdk, sent, is_quit_, ring, pollVars, mainVars>>
      /\ \/ points_clouds_' = clouds /\ UNCHANGED <<frame_, ppc>>
         \/ \E taken \in {{raw.lidar}, Lidar} :
              /\ frame_' = Cut(taken, clouds)
              /\ points_clouds_' = [l \in Lidar |-> IF l \in taken THEN <<>> ELSE clouds[l]]
              /\ ppc' = "store"
  BY DEF RawDataProcess, Chain, Taken, Gathered
<1>2. /\ raw.lidar \in Lidar /\ clouds \in [Lidar -> Points]
      /\ q' \in Seq([lidar : Lidar, n : Packets]) /\ InArrivalOrder(q')
      /\ \A k \in Lidar :
           Chained(Range(published[k]), Held(ring[k]), {}, Range(clouds[k]), RawsOf(q', k), sent)
  BY TakenPacket
<1> HIDE DEF raw, clouds, q
<1>9. CASE points_clouds_' = clouds /\ UNCHANGED <<frame_, ppc>>
  <2>1. Strong'
    BY <1>1, <1>2, <1>9 DEF Strong, pollVars, mainVars, q
  <2>2. ASSUME NEW k \in Lidar PROVE Linked(k)'
    <3>1. WaitingIn(frame_', Skip', k) = {}
      BY <1>1, <1>9 DEF WaitingIn, EntriesOf
    <3>2. Chained(Range(published[k]), Held(ring[k]), {}, Range(clouds[k]), RawsOf(q', k), sent)
      BY <1>2
    <3>3. QED
      BY <1>1, <1>9, <3>1, <3>2 DEF Linked, Waiting, pollVars, q
  <2>3. InArrivalOrder(raw_packet_queue_)' /\ InMapOrder(frame_)'
    BY <1>1, <1>2, <1>9 DEF Chain, InArrivalOrder, InMapOrder, q
  <2>4. QED
    BY <1>1, <1>9, <2>1, <2>2, <2>3 DEF Chain
<1>10. ASSUME NEW taken \in {{raw.lidar}, Lidar},
              frame_' = Cut(taken, clouds),
              points_clouds_' = [l \in Lidar |-> IF l \in taken THEN <<>> ELSE clouds[l]],
              ppc' = "store"
       PROVE  Strong' /\ Chain'
  <2>1. taken \in SUBSET Lidar
    BY <1>2
  <2>2. /\ InMapOrder(frame_')
        /\ frame_' \in Seq([lidar : Lidar, points : Frames])
        /\ \A l \in taken : WaitingIn(frame_', 0, l) = Range(clouds[l])
        /\ \A l \in Lidar \ taken : WaitingIn(frame_', 0, l) = {}
    BY <1>2, <1>10, <2>1, CutWaits
  <2>3. points_clouds_' \in [Lidar -> Points]
    <3>1. <<>> \in Points
      BY DEF Points
    <3>2. QED
      BY <1>2, <1>10, <3>1
  <2>4. Strong'
    BY <1>1, <1>2, <2>2, <2>3 DEF Strong, pollVars, mainVars, q
  <2>5. Skip' = 0
    BY <1>10 DEF Skip, Parked
  <2>6. ASSUME NEW k \in Lidar PROVE Linked(k)'
    <3> DEFINE A == Range(published[k])
               B == Held(ring[k])
               D == Range(clouds[k])
               E1 == RawsOf(q', k)
               C1 == WaitingIn(frame_', 0, k)
               D1 == Range(points_clouds_'[k])
    <3>1. Chained(A, B, {}, D, E1, sent)
      BY <1>2
    <3>2. Chained(A, B, C1, D1, E1, sent)
      <4>1. CASE k \in taken
        <5>1. points_clouds_'[k] = <<>>
          BY <1>10, <4>1
        <5>2. D1 = {} /\ C1 \in SUBSET D
          BY <2>2, <4>1, <5>1, RangeOfNone
        <5>3. A \in SUBSET A /\ B \in SUBSET B /\ {} \in SUBSET {} /\ E1 \in SUBSET E1
          OBVIOUS
        <5> HIDE DEF A, B, D, E1, C1, D1
        <5>4. Chained(A, B, D, {}, E1, sent)
          BY <3>1, ChainCut
        <5>5. Chained(A, B, C1, {}, E1, sent)
          BY <5>2, <5>3, <5>4, ChainShrinks
        <5>6. QED
          BY <5>2, <5>5
      <4>2. CASE k \notin taken
        <5>1. points_clouds_'[k] = clouds[k] /\ C1 = {}
          BY <1>10, <2>2, <4>2
        <5>2. QED
          BY <3>1, <5>1
      <4>3. QED
        BY <4>1, <4>2
    <3>3. /\ A = Range(published'[k]) /\ B = Held(ring'[k]) /\ C1 = WaitingIn(frame_', Skip', k)
          /\ E1 = RawsOf(raw_packet_queue_', k) /\ sent' = sent
      BY <1>1, <2>5 DEF pollVars, q
    <3> HIDE DEF A, B, C1, E1, D
    <3>4. QED
      BY <3>2, <3>3 DEF Linked, Waiting
  <2>7. InArrivalOrder(raw_packet_queue_)' /\ InMapOrder(frame_)'
    BY <1>1, <1>2, <2>2 DEF InArrivalOrder, InMapOrder, q
  <2>8. \A k \in Lidar : Arranged(ring'[k])
    BY <1>1 DEF Chain
  <2>9. QED
    BY <1>10, <2>4, <2>6, <2>7, <2>8 DEF Chain
<1>11. QED
  BY <1>1, <1>9, <1>10

Settings == <<sdk, is_quit_, mpc>>
Packed   == <<sent, raw_packet_queue_, points_clouds_>>
Output   == <<pkg, published>>

LEMMA FrameFacts ==
  ASSUME Shape, Strong, Chain
  PROVE  /\ \A m \in DOMAIN frame_ : frame_[m].lidar \in Int /\ frame_[m].lidar \in Lidar
                                     /\ frame_[m].points \in Frames
         /\ InMapOrder(frame_)
         /\ frame_ # <<>> =>
              /\ Entry = frame_[1] /\ Entry.lidar \in Lidar /\ Entry.points \in Frames
              /\ Tail(frame_) \in Seq([lidar : Lidar, points : Frames])
<1> DEFINE E == [lidar : Lidar, points : Frames]
<1>1. frame_ \in Seq(E)
  BY DEF Strong
<1> HIDE DEF E
<1>2. \A m \in DOMAIN frame_ : frame_[m] \in E
  BY <1>1
<1>3. frame_ # <<>> => Head(frame_) = frame_[1] /\ 1 \in DOMAIN frame_ /\ Tail(frame_) \in Seq(E)
  BY <1>1
<1>4. \A l \in Lidar : l \in Int
  BY DEF Lidar
<1>5. \A m \in DOMAIN frame_ : frame_[m].lidar \in Int /\ frame_[m].lidar \in Lidar
                               /\ frame_[m].points \in Frames
  BY <1>2, <1>4 DEF E
<1>6. QED
  BY <1>3, <1>5 DEF E, Entry, Chain

\* The process thread moves on within an entry, or has none left.
LEMMA StayChain ==
  ASSUME Strong, Chain, UNCHANGED <<Packed, Output, frame_, ring>>,
         sdk' \in BOOLEAN, is_quit_' \in BOOLEAN,
         mpc' \in {"running", "signal", "join", "join_process", "done"},
         Skip' = Skip, ppc' \in {"idle", "off"} => frame_ = <<>>
  PROVE  Strong' /\ Chain'
<1>1. Strong'
  BY DEF Strong, Packed, Output
<1>2. \A l \in Lidar : /\ Held(ring'[l]) = Held(ring[l]) /\ Arranged(ring'[l])
                       /\ WaitingIn(frame_', Skip', l) \subseteq WaitingIn(frame_, Skip, l)
  BY DEF Chain
<1>3. InMapOrder(frame_')
  BY DEF Chain
<1>4. Chain'
  BY <1>2, <1>3, ChainKept DEF Packed, Output
<1>5. QED
  BY <1>1, <1>4

\* The process thread is done with an entry.
LEMMA TailChain ==
  ASSUME Shape, Strong, Chain, UNCHANGED <<Packed, Output, ring, Settings>>,
         frame_ # <<>>, frame_' = Tail(frame_), ppc' = "store"
  PROVE  Strong' /\ Chain'
<1>1. /\ Tail(frame_) \in Seq([lidar : Lidar, points : Frames])
      /\ InMapOrder(frame_)
  BY FrameFacts
<1>2. Strong'
  BY <1>1 DEF Strong, Packed, Output, Settings
<1>3. Skip' = 0 /\ Skip \in {0, 1}
  BY DEF Skip, Parked
<1>4. /\ InMapOrder(Tail(frame_))
      /\ \A l : WaitingIn(Tail(frame_), 0, l) = WaitingIn(frame_, 1, l)
      /\ \A l : WaitingIn(frame_, 1, l) \subseteq WaitingIn(frame_, 0, l)
  <2> DEFINE E == [lidar : Lidar, points : Frames]
  <2>1. frame_ \in Seq(E)
    BY DEF Strong
  <2> HIDE DEF E
  <2>2. QED
    BY <1>1, <2>1, TailWaits
<1>5. \A l \in Lidar : WaitingIn(frame_', Skip', l) \subseteq WaitingIn(frame_, Skip, l)
  BY <1>3, <1>4
<1>6. \A l \in Lidar : Held(ring'[l]) = Held(ring[l]) /\ Arranged(ring'[l])
  BY DEF Chain
<1>7. Chain'
  BY <1>4, <1>5, <1>6, ChainKept DEF Packed, Output
<1>8. QED
  BY <1>2, <1>7

\* A ring allocated on first use holds nothing, as before.
LEMMA AllocHeld ==
  ASSUME Shape, Strong, Chain, PushCheck
  PROVE  \A m \in Lidar :
           /\ ring'[m].storage_packet \in {<<>>} \cup [Slot -> Points]
           /\ Held(ring'[m]) = Held(ring[m]) /\ Arranged(ring'[m])
<1> DEFINE l == Entry.lidar
<1>2. /\ l \in Lidar
      /\ \A m \in Lidar : m # l => ring'[m] = ring[m]
      /\ ring'[l] = IF Stored(ring[l]) THEN ring[l] ELSE InitQueue(ring[l])
      /\ RingShape'
  BY PushCheckRing
<1> HIDE DEF l
<1>3. ASSUME NEW m \in Lidar
      PROVE  /\ ring'[m].storage_packet \in {<<>>} \cup [Slot -> Points]
             /\ Held(ring'[m]) = Held(ring[m]) /\ Arranged(ring'[m])
  <2>1. CASE ring'[m] = ring[m]
    BY <2>1 DEF Strong, Chain
  <2>2. CASE m = l /\ ~Stored(ring[l])
    <3>1. ring[l] = NoStorage /\ ring'[l] = InitQueue(ring[l])
      BY <1>2, <2>2 DEF Shape, RingShape
    <3>2. <<>> \in Points
      BY DEF Points
    <3>3. InitQueue(NoStorage).storage_packet \in [Slot -> Points]
      BY <3>2 DEF InitQueue, NoStorage
    <3>4. NoStorage \in Queue /\ NoStorage.wr = NoStorage.rd_idx
      BY NoStorageQueue DEF NoStorage
    <3>5. InitQueue(NoStorage) \in Queue /\ InitQueue(NoStorage).wr = InitQueue(NoStorage).rd_idx
      BY <3>4, InitQueueShape
    <3>6. /\ Held(NoStorage) = {} /\ Held(InitQueue(NoStorage)) = {}
          /\ Arranged(InitQueue(NoStorage))
      BY <3>4, <3>5, HeldNone
    <3>7. QED
      BY <2>2, <3>1, <3>3, <3>6
  <2>3. QED
    BY <1>2, <2>1, <2>2
<1>4. QED
  BY <1>3

LEMMA PushCheckChain ==
  ASSUME Shape, Strong, Chain, PushCheck
  PROVE  Strong' /\ Chain'
<1>1. /\ ppc = "store" /\ ppc' \in {"getcount", "write"}
      /\ UNCHANGED <<Packed, Output, Settings, frame_>>
  BY DEF PushCheck, inVars, pollVars, mainVars, Packed, Output, Settings
<1>3. \A m \in Lidar :
        /\ ring'[m].storage_packet \in {<<>>} \cup [Slot -> Points]
        /\ Held(ring'[m]) = Held(ring[m]) /\ Arranged(ring'[m])
  BY AllocHeld
<1>4. Strong'
  BY <1>1, <1>3 DEF Strong, Packed, Output, Settings
<1>5. \A m \in Lidar : WaitingIn(frame_', Skip', m) \subseteq WaitingIn(frame_, Skip, m)
  <2>1. Skip = 0 /\ Skip' \in {0, 1} /\ frame_' = frame_ /\ frame_ # <<>>
    BY <1>1 DEF Skip, Parked, PushCheck
  <2> DEFINE E == [lidar : Lidar, points : Frames]
  <2>2. frame_ \in Seq(E)
    BY DEF Strong
  <2> HIDE DEF E
  <2>3. \A m : WaitingIn(frame_, 1, m) \subseteq WaitingIn(frame_, 0, m)
    BY <2>1, <2>2, TailWaits
  <2>4. QED
    BY <2>1, <2>3
<1>6. InMapOrder(frame_') /\ ppc' \notin {"idle", "off"}
  BY <1>1 DEF Chain
<1>7. Chain'
  BY <1>1, <1>3, <1>5, <1>6, ChainKept DEF Packed, Output
<1>8. QED
  BY <1>4, <1>7

\* What QueuePushAny moves: the entry in hand, behind everything on its ring.
LEMMA PushHeld ==
  ASSUME Shape, Room, Strong, Chain, QueuePushAny
  PROVE  /\ Entry.lidar \in Lidar /\ Entry.points \in Frames /\ Skip = 0 /\ Skip' = 1
         /\ Fits(ring[Entry.lidar])
         /\ ring[Entry.lidar] \in Queue
         /\ Used(ring[Entry.lidar].wr, ring[Entry.lidar].rd_idx) < Size
         /\ Range(Entry.points) = Waiting(Entry.lidar)
         /\ Before(Held(ring[Entry.lidar]), Range(Entry.points))
         /\ EntriesOf(frame_, 1, Entry.lidar) = {} /\ WaitingIn(frame_, 1, Entry.lidar) = {}
         /\ 1 \in EntriesOf(frame_, 0, Entry.lidar)
         /\ \A m : m # Entry.lidar => WaitingIn(frame_, 1, m) = WaitingIn(frame_, 0, m)
         /\ Arranged(ring'[Entry.lidar])
         /\ Held(ring'[Entry.lidar]) = Held(ring[Entry.lidar]) \cup Range(Entry.points)
         /\ \A k \in Places(ring[Entry.lidar]) :
              FrameAt(ring'[Entry.lidar], k) = FrameAt(ring[Entry.lidar], k)
         /\ FrameAt(ring'[Entry.lidar], Used(ring[Entry.lidar].wr, ring[Entry.lidar].rd_idx)) = Entry.points
<1> DEFINE l == Entry.lidar
           f == Entry.points
           p == ring'[l]
           r == ring[l]
<1>1. ppc = "write" /\ ppc' = "pushed" /\ frame_ # <<>>
  BY DEF QueuePushAny, Shape, FrameShape
<1>2. Skip = 0 /\ Skip' = 1
  BY <1>1 DEF Skip, Parked
<1>3. /\ Entry = frame_[1] /\ l \in Lidar /\ f \in Frames
      /\ InMapOrder(frame_) /\ \A m \in DOMAIN frame_ : frame_[m].lidar \in Int
  BY <1>1, FrameFacts
<1>4. /\ 1 \in EntriesOf(frame_, 0, l)
      /\ Range(f) = WaitingIn(frame_, 0, l)
      /\ EntriesOf(frame_, 1, l) = {} /\ WaitingIn(frame_, 1, l) = {}
      /\ \A m : m # l => WaitingIn(frame_, 1, m) = WaitingIn(frame_, 0, m)
  <2> DEFINE E == [lidar : Lidar, points : Frames]
  <2>1. frame_ \in Seq(E)
    BY DEF Strong
  <2> HIDE DEF E
  <2>2. QED
    BY <1>1, <1>3, <2>1, HeadWaits
<1>5. /\ r \in Queue /\ Fits(r) /\ Used(r.wr, r.rd_idx) < Size /\ Arranged(r)
  BY <1>1, <1>3 DEF Shape, RingShape, Room, Chain
<1>6. Before(Held(r), Range(f))
  <2>1. Range(f) \subseteq Waiting(l)
    BY <1>2, <1>4 DEF Waiting
  <2>2. Before(Range(published[l]) \cup Held(r), Waiting(l))
    BY <1>3 DEF Chain, Linked, Chained
  <2>3. QED
    BY <2>1, <2>2 DEF Before
<1>7. /\ r.storage_packet \in [Slot -> Numbers]
      /\ p.storage_packet = [r.storage_packet EXCEPT ![Masked(r.wr)] = f]
      /\ p.wr_idx = r.wr_idx /\ p.wr = Next1(r.wr) /\ p.rd_idx = r.rd_idx
  BY PushRing
<1> HIDE DEF p, r, f
<1>8. /\ Arranged(p) /\ Held(p) = Held(r) \cup Range(f)
      /\ \A k \in Places(r) : FrameAt(p, k) = FrameAt(r, k)
      /\ FrameAt(p, Used(r.wr, r.rd_idx)) = f
  BY <1>3, <1>5, <1>6, <1>7, HeldPush DEF f
<1>9. QED
  BY <1>2, <1>3, <1>4, <1>5, <1>6, <1>8 DEF p, r, f, Waiting

LEMMA PushChain ==
  ASSUME Shape, Room, Strong, Chain, QueuePushAny
  PROVE  Strong' /\ Chain'
<1> DEFINE l == Entry.lidar
<1>1. /\ ppc' = "pushed" /\ UNCHANGED <<Packed, Output, Settings, frame_>>
  BY DEF QueuePushAny, inVars, pollVars, mainVars, Packed, Output, Settings
<1>2. /\ l \in Lidar /\ Entry.points \in Frames /\ Skip = 0 /\ Skip' = 1
      /\ Range(Entry.points) = Waiting(l)
      /\ WaitingIn(frame_, 1, l) = {}
      /\ \A m : m # l => WaitingIn(frame_, 1, m) = WaitingIn(frame_, 0, m)
      /\ Arranged(ring'[l])
      /\ Held(ring'[l]) = Held(ring[l]) \cup Range(Entry.points)
  BY PushHeld
<1>3. /\ \A m \in Lidar : m # l => ring'[m] = ring[m]
      /\ ring[l].storage_packet \in [Slot -> Numbers]
      /\ ring'[l].storage_packet = [ring[l].storage_packet EXCEPT ![Masked(ring[l].wr)] = Entry.points]
  BY PushRing
<1> HIDE DEF l
<1>4. ring'[l].storage_packet \in [Slot -> Points]
  <2>1. ring[l].storage_packet # <<>>
    BY <1>3, SlotInhabited
  <2>2. ring[l].storage_packet \in [Slot -> Points]
    BY <1>2, <2>1 DEF Strong
  <2>3. Entry.points \in Points
    BY <1>2 DEF Points
  <2>4. QED
    BY <1>3, <2>2, <2>3
<1>5. \A m \in Lidar : ring'[m].storage_packet \in {<<>>} \cup [Slot -> Points]
  BY <1>3, <1>4 DEF Strong
<1>6. Strong'
  BY <1>1, <1>5 DEF Strong, Packed, Output, Settings
<1>7. ASSUME NEW m \in Lidar PROVE Linked(m)' /\ Arranged(ring'[m])
  <2> DEFINE A == Range(published[m])
             B == Held(ring[m])
             C == WaitingIn(frame_, 0, m)
             C1 == WaitingIn(frame_', 1, m)
             D == Range(points_clouds_[m])
             E == RawsOf(raw_packet_queue_, m)
  <2>1. Chained(A, B, C, D, E, sent) /\ Arranged(ring[m])
    BY <1>2 DEF Chain, Linked, Waiting
  <2>2. Chained(A, Held(ring'[m]), C1, D, E, sent) /\ Arranged(ring'[m])
    <3>1. CASE m # l
      BY <1>1, <1>2, <1>3, <2>1, <3>1
    <3>2. CASE m = l
      <4> DEFINE F == Range(Entry.points)
      <4>1. F \in SUBSET C /\ C1 = {} /\ Held(ring'[m]) = B \cup F /\ Arranged(ring'[m])
        BY <1>1, <1>2, <3>2 DEF Waiting
      <4> HIDE DEF A, B, C, C1, D, E, F
      <4>2. Chained(A, B \cup F, {}, D, E, sent)
        BY <2>1, <4>1, ChainPush
      <4>3. QED
        BY <4>1, <4>2
    <3>3. QED
      BY <3>1, <3>2
  <2>3. /\ A = Range(published'[m]) /\ D = Range(points_clouds_'[m])
        /\ E = RawsOf(raw_packet_queue_', m) /\ sent' = sent
    BY <1>1 DEF Packed, Output
  <2> HIDE DEF A, B, C, D, E
  <2>4. QED
    BY <1>2, <2>2, <2>3 DEF Linked, Waiting, C1
<1>8. InArrivalOrder(raw_packet_queue_)' /\ InMapOrder(frame_)'
  BY <1>1 DEF Chain, InArrivalOrder, InMapOrder, Packed
<1>9. QED
  BY <1>1, <1>6, <1>7, <1>8 DEF Chain

LEMMA VisibleChain ==
  ASSUME Shape, Strong, Chain, NEW l \in Lidar, StoreVisible(l)
  PROVE  Strong' /\ Chain'
<1>1. UNCHANGED <<Packed, Output, Settings, frame_, ppc>>
  BY DEF StoreVisible, inVars, procVars, pollVars, mainVars, Packed, Output, Settings
<1>2. /\ \A m \in Lidar : m # l => ring'[m] = ring[m]
      /\ ring'[l].storage_packet = ring[l].storage_packet
      /\ ring'[l].wr = ring[l].wr /\ ring'[l].rd_idx = ring[l].rd_idx
  BY StoreVisibleRing DEF Shape
<1>3. Held(ring'[l]) = Held(ring[l]) /\ (Arranged(ring[l]) => Arranged(ring'[l]))
  BY <1>2, HeldSame
<1>4. Strong'
  BY <1>1, <1>2 DEF Strong, Packed, Output, Settings
<1>5. \A m \in Lidar : /\ Held(ring'[m]) = Held(ring[m]) /\ Arranged(ring'[m])
                       /\ WaitingIn(frame_', Skip', m) \subseteq WaitingIn(frame_, Skip, m)
  BY <1>1, <1>2, <1>3 DEF Chain, Skip
<1>6. InMapOrder(frame_') /\ (ppc' \in {"idle", "off"} => frame_' = <<>>)
  BY <1>1 DEF Chain
<1>7. Chain'
  BY <1>1, <1>5, <1>6, ChainKept DEF Packed, Output
<1>8. QED
  BY <1>4, <1>7

\* What QueuePopUpdate takes: the oldest frame of the ring, before all the others.
LEMMA PopHeld ==
  ASSUME Shape, Room, Chain, QueuePopUpdate
  PROVE  /\ at \in Lidar /\ ring[at] \in Queue /\ Fits(ring[at])
         /\ ring[at].rd_idx # ring[at].wr_idx
         /\ pkg' = [pkg EXCEPT ![at] = FrameAt(ring[at], 0)]
         /\ published' = [published EXCEPT ![at] = @ \o pkg'[at]]
         /\ FrameAt(ring[at], 0) \in Frames
         /\ Before(Range(FrameAt(ring[at], 0)), Held(ring'[at]))
         /\ Arranged(ring'[at])
         /\ Held(ring[at]) = Range(FrameAt(ring[at], 0)) \cup Held(ring'[at])
         /\ \A k \in Places(ring'[at]) : FrameAt(ring'[at], k) = FrameAt(ring[at], k + 1)
<1> DEFINE p == ring'[at]
           q == ring[at]
<1>1. /\ at \in Lidar /\ p.storage_packet = q.storage_packet
      /\ p.wr_idx = q.wr_idx /\ p.wr = q.wr /\ p.rd_idx = Next1(q.rd_idx)
  BY PopRing
<1>2. q \in Queue /\ Fits(q) /\ Arranged(q) /\ q.rd_idx # q.wr_idx
  BY <1>1 DEF QueuePopUpdate, Shape, RingShape, Room, Chain
<1>3. /\ pkg' = [pkg EXCEPT ![at] = q.storage_packet[Masked(q.rd_idx)]]
      /\ published' = [published EXCEPT ![at] = @ \o pkg'[at]]
  BY DEF QueuePopUpdate
<1> HIDE DEF p, q
<1>4. /\ Arranged(p) /\ Held(q) = Range(FrameAt(q, 0)) \cup Held(p)
      /\ FrameAt(q, 0) = q.storage_packet[Masked(q.rd_idx)] /\ FrameAt(q, 0) \in Frames
      /\ Before(Range(FrameAt(q, 0)), Held(p))
      /\ \A k \in Places(p) : FrameAt(p, k) = FrameAt(q, k + 1)
  BY <1>1, <1>2, HeldPop
<1>5. QED
  BY <1>1, <1>2, <1>3, <1>4 DEF p, q

\* It is published behind everything published before.
LEMMA PopPublished ==
  ASSUME Shape, Room, Strong, Chain, QueuePopUpdate
  PROVE  /\ pkg' \in [Lidar -> Points]
         /\ published'[at] \in Points
         /\ Range(published'[at]) = Range(published[at]) \cup Range(FrameAt(ring[at], 0))
         /\ \A m \in Lidar : m # at => published'[m] = published[m]
         /\ Chained(Range(published'[at]), Held(ring'[at]), Waiting(at), Range(points_clouds_[at]),
                    RawsOf(raw_packet_queue_, at), sent)
<1> DEFINE f == FrameAt(ring[at], 0)
<1>2. /\ at \in Lidar
      /\ pkg' = [pkg EXCEPT ![at] = f]
      /\ published' = [published EXCEPT ![at] = @ \o pkg'[at]]
      /\ f \in Frames /\ Held(ring[at]) = Range(f) \cup Held(ring'[at])
      /\ Before(Range(f), Held(ring'[at]))
      /\ Arranged(ring'[at])
  BY PopHeld
<1> HIDE DEF f
<1>4. f \in Points /\ pkg' \in [Lidar -> Points] /\ pkg'[at] = f
  BY <1>2 DEF Points, Strong
<1>5. /\ published'[at] = published[at] \o f
      /\ \A m \in Lidar : m # at => published'[m] = published[m]
      /\ published[at] \in Points
  BY <1>2, <1>4 DEF Strong
<1>6. Chained(Range(published[at]), Held(ring[at]), Waiting(at), Range(points_clouds_[at]),
              RawsOf(raw_packet_queue_, at), sent)
  BY <1>2 DEF Chain, Linked
<1>7. /\ Chained(Range(published[at]) \cup Range(f), Held(ring'[at]), Waiting(at),
                 Range(points_clouds_[at]), RawsOf(raw_packet_queue_, at), sent)
      /\ Before(Range(published[at]), Range(f))
  <2> DEFINE A == Range(published[at])
             B == Held(ring[at])
             B1 == Held(ring'[at])
             C == Waiting(at)
             D == Range(points_clouds_[at])
             E == RawsOf(raw_packet_queue_, at)
             F == Range(f)
  <2>1. F \in SUBSET B /\ B1 \in SUBSET B /\ Before(F, B1) /\ Chained(A, B, C, D, E, sent)
    BY <1>2, <1>6
  <2> HIDE DEF A, B, B1, C, D, E, F
  <2>2. Chained(A \cup F, B1, C, D, E, sent) /\ Before(A, F)
    BY <2>1, ChainPop
  <2>3. QED
    BY <2>2 DEF A, B, B1, C, D, E, F
<1>8. published'[at] \in Points /\ Range(published'[at]) = Range(published[at]) \cup Range(f)
  BY <1>4, <1>5, <1>7, PointsJoin
<1>9. QED
  BY <1>4, <1>5, <1>7, <1>8 DEF f

LEMMA PopChain ==
  ASSUME Shape, Room, Strong, Chain, QueuePopUpdate
  PROVE  Strong' /\ Chain'
<1>1. UNCHANGED <<Packed, Settings, frame_, ppc>>
  BY DEF QueuePopUpdate, inVars, procVars, mainVars, Packed, Settings
<1>2. /\ at \in Lidar /\ published' = [published EXCEPT ![at] = @ \o pkg'[at]]
      /\ Arranged(ring'[at])
  BY PopHeld
<1>3. /\ \A m \in Lidar : m # at => ring'[m] = ring[m]
      /\ ring'[at].storage_packet = ring[at].storage_packet
  BY PopRing
<1>4. /\ pkg' \in [Lidar -> Points] /\ published'[at] \in Points
      /\ \A m \in Lidar : m # at => published'[m] = published[m]
      /\ Chained(Range(published'[at]), Held(ring'[at]), Waiting(at), Range(points_clouds_[at]),
                 RawsOf(raw_packet_queue_, at), sent)
  BY PopPublished
<1>9. published' \in [Lidar -> Points]
  <2>1. published' = [m \in Lidar |-> published'[m]]
    BY <1>2 DEF Strong
  <2>2. \A m \in Lidar : published'[m] \in Points
    BY <1>4 DEF Strong
  <2>3. QED
    BY <2>1, <2>2
<1>10. \A m \in Lidar : ring'[m].storage_packet \in {<<>>} \cup [Slot -> Points]
  BY <1>2, <1>3 DEF Strong
<1>11. Strong'
  BY <1>1, <1>4, <1>9, <1>10 DEF Strong, Packed, Settings
<1>12. ASSUME NEW m \in Lidar PROVE Linked(m)' /\ Arranged(ring'[m])
  <2>1. Waiting(m)' = Waiting(m)
    BY <1>1 DEF Waiting, Skip
  <2>2. CASE m # at
    BY <1>1, <1>3, <1>4, <2>1, <2>2 DEF Chain, Linked, Packed
  <2>3. CASE m = at
    BY <1>1, <1>2, <1>4, <2>1, <2>3 DEF Linked, Packed
  <2>4. QED
    BY <2>2, <2>3
<1>13. InArrivalOrder(raw_packet_queue_)' /\ InMapOrder(frame_)'
  BY <1>1 DEF Chain, InArrivalOrder, InMapOrder, Packed
<1>14. QED
  BY <1>1, <1>11, <1>12, <1>13 DEF Chain

LEMMA NextChain == Shape /\ Room /\ Strong /\ Chain /\ ImuShape /\ [Next]_vars => (Strong /\ Chain)'
<1> SUFFICES ASSUME Shape, Room, Strong, Chain, ImuShape, [Next]_vars PROVE (Strong /\ Chain)'
  OBVIOUS
<1> USE DEF Packed, Output, Settings
<1>0. /\ sdk \in BOOLEAN /\ is_quit_ \in BOOLEAN
      /\ mpc \in {"running", "signal", "join", "join_process", "done"}
      /\ ppc \in {"idle", "off"} => frame_ = <<>>
      /\ ppc \in {"write"} \cup Parked => frame_ # <<>>
  BY DEF Strong, Chain, Shape, FrameShape
<1>1. ASSUME NEW l \in Lidar, OnPointCloud(l) PROVE (Strong /\ Chain)'
  BY <1>1, ArrivalChain
<1>2. ASSUME NEW l \in Lidar, AddIndex(l) \/ StartSampling(l) PROVE (Strong /\ Chain)'
  <2>1. UNCHANGED <<Packed, Output, Settings, frame_, ring, ppc>>
    BY <1>2 DEF AddIndex, StartSampling, inVars, procVars, pollVars, mainVars
  <2>2. Skip' = Skip
    BY <2>1 DEF Skip
  <2>3. QED
    BY <1>0, <2>1, <2>2, StayChain
<1>3. CASE RawDataProcess
  BY <1>3, ProcessChain
<1>4. CASE StoreDone \/ ProcessExit
  <2>1. /\ UNCHANGED <<Packed, Output, Settings, frame_, ring>> /\ frame_ = <<>>
        /\ ppc \in {"store", "idle"} /\ ppc' \in {"idle", "off"}
    BY <1>0, <1>4 DEF StoreDone, ProcessExit, inVars, pollVars, mainVars
  <2>2. Skip' = Skip
    BY <2>1 DEF Skip, Parked
  <2>3. QED
    BY <1>0, <2>1, <2>2, StayChain
<1>5. CASE StoreUnknown
  <2>1. /\ UNCHANGED <<Packed, Output, Settings, ring>> /\ frame_ # <<>>
        /\ frame_' = Tail(frame_) /\ ppc' = "store"
    BY <1>5 DEF StoreUnknown, NextEntry, inVars, pollVars, mainVars
  <2>2. QED
    BY <2>1, TailChain
<1>6. CASE PushCheck
  BY <1>6, PushCheckChain
<1>7. CASE QueuePushAny
  BY <1>7, PushChain
<1>8. CASE PushedCheck \/ GetCount \/ Signal
  <2>1. /\ UNCHANGED <<Packed, Output, Settings, ring>> /\ ppc \in Parked /\ frame_ # <<>>
        /\ \/ frame_' = frame_ /\ ppc' \in Parked
           \/ frame_' = Tail(frame_) /\ ppc' = "store"
    BY <1>0, <1>8 DEF PushedCheck, GetCount, Signal, NextEntry, Parked, inVars, pollVars, mainVars
  <2>2. CASE frame_' = frame_ /\ ppc' \in Parked
    <3>1. Skip' = Skip /\ ppc' \notin {"idle", "off"}
      BY <2>1, <2>2 DEF Skip, Parked
    <3>2. QED
      BY <1>0, <2>1, <2>2, <3>1, StayChain
  <2>3. CASE frame_' = Tail(frame_) /\ ppc' = "store"
    BY <2>1, <2>3, TailChain
  <2>4. QED
    BY <2>1, <2>2, <2>3
<1>9. ASSUME NEW l \in Lidar, StoreVisible(l) PROVE (Strong /\ Chain)'
  BY <1>9, VisibleChain
<1>10. CASE DistributeEnter \/ Wait \/ PollNext \/ PublishEnter \/ PublishLeave \/ QueuePrePop \/ PollStatus
  <2>1. UNCHANGED <<Packed, Output, Settings, frame_, ring, ppc>>
    BY <1>10 DEF DistributeEnter, Wait, PollNext, PublishEnter, PublishLeave, QueuePrePop, PollStatus,
                 inVars, procVars, mainVars
  <2>2. Skip' = Skip
    BY <2>1 DEF Skip
  <2>3. QED
    BY <1>0, <2>1, <2>2, StayChain
<1>11. CASE QueuePopUpdate
  BY <1>11, PopChain
<1>12. CASE Main
  <2>1. /\ UNCHANGED <<Packed, Output, frame_, ring, ppc>>
        /\ sdk' \in BOOLEAN /\ is_quit_' \in BOOLEAN
        /\ mpc' \in {"running", "signal", "join", "join_process", "done"}
    BY <1>0, <1>12 DEF Main, Exit, RequestExit, ExitSignal, Joined, ProcessJoined, MainStep, pollVars
  <2>2. Skip' = Skip
    BY <2>1 DEF Skip
  <2>3. QED
    BY <1>0, <2>1, <2>2, StayChain
<1>13. CASE UNCHANGED pcdVars
  <2>1. UNCHANGED <<Packed, Output, Settings, frame_, ring, ppc>>
    BY <1>13 DEF pcdVars, inVars, procVars, pollVars, mainVars
  <2>2. Skip' = Skip
    BY <2>1 DEF Skip
  <2>3. QED
    BY <1>0, <2>1, <2>2, StayChain
<1>14. QED
  BY <1>1, <1>2, <1>3, <1>4, <1>5, <1>6, <1>7, <1>8, <1>9, <1>10, <1>11, <1>12, <1>13, ImuAside
     DEF Next, Sdk, Process, Visible, Poll

IInv == Shape /\ Room /\ Strong /\ Chain /\ ImuShape

LEMMA InitIInv == Init => IInv
BY InitShape, InitRoom, InitChain, InitImu DEF IInv

LEMMA NextIInv == IInv /\ [Next]_vars => IInv'
BY NextShape, NextRoom, NextChain, NextImu DEF IInv

\* Every frame, in hand, on a ring or published, is an increasing sequence of packet
\* numbers, the indices stay in range, and neither semaphore exceeds one.
THEOREM TypeCorrect == Spec => []TypeOK
<1>1. IInv => TypeOK
  <2> SUFFICES ASSUME IInv PROVE TypeOK
    OBVIOUS
  <2> USE DEF IInv
  <2>1. /\ sdk \in BOOLEAN /\ is_quit_ \in BOOLEAN /\ sent \in 0 .. MaxPackets
        /\ mpc \in {"running", "signal", "join", "join_process", "done"}
    BY DEF Strong
  <2>2. /\ raw_packet_queue_ \in Seq([lidar : Lidar, n : 1 .. MaxPackets])
        /\ points_clouds_ \in [Lidar -> Frames \cup {<<>>}]
        /\ frame_ \in Seq([lidar : Lidar, points : Frames])
        /\ pkg \in [Lidar -> Frames \cup {<<>>}]
        /\ published \in [Lidar -> Frames \cup {<<>>}]
    BY DEF Strong, Packets, Points
  <2>3. ppc \in {"off", "idle", "store", "write", "pushed", "getcount", "signal"}
    BY DEF Shape, FrameShape, Parked
  <2>4. ASSUME NEW l \in Lidar
        PROVE  /\ ring[l].storage_packet \in [Slot -> Frames \cup {<<>>}] \cup {<<>>}
               /\ {ring[l].wr_idx, ring[l].rd_idx, ring[l].wr} \subseteq Index
    <3>1. ring[l] \in Queue
      BY DEF Shape, RingShape
    <3>2. ring[l].wr_idx \in Index /\ ring[l].rd_idx \in Index /\ ring[l].wr \in Index
      BY <3>1, QueueNumbers
    <3>3. QED
      BY <3>2 DEF Strong, Points
  <2>5. /\ config \subseteq Lidar /\ indexed \subseteq Lidar /\ sampling \subseteq indexed
        /\ count_ \in 0 .. 1 /\ at \in Lidar
        /\ cpc \in {"off", "loop", "wait", "poll", "publish", "copy", "status"}
    BY DEF Shape, PollShape
  <2>6. /\ imu_sent \in 0 .. MaxImu /\ imu_data \in [Lidar -> 0 .. MaxImu]
        /\ storing \in [at : {"idle", "look", "signal"}, lidar : Lidar]
        /\ imu_count_ \in 0 .. 1
        /\ ipc \in {"off", "loop", "wait", "poll", "status"} /\ imu_at \in Lidar
    <3>1. \A l \in Lidar : imu_data[l] \in 0 .. MaxImu
      BY LidarAssumption DEF ImuShape
    <3>2. QED
      BY <3>1 DEF ImuShape
  <2>7. QED
    BY <2>1, <2>2, <2>3, <2>4, <2>5, <2>6 DEF TypeOK
<1>2. QED
  BY <1>1, InitIInv, NextIInv, PTL DEF Spec

-----------------------------------------------------------------------------
(* Nothing is lost *)

\* The packets of lidar l that are published or on their way.
Tracked(l) == Range(published[l]) \cup Held(ring[l]) \cup Waiting(l)
              \cup Range(points_clouds_[l]) \cup RawsOf(raw_packet_queue_, l)

\* Every packet is one lidar's, or was dropped.
Accounted(T, d, n) ==
  /\ \A k, l \in Lidar : k # l => T[k] \cap T[l] = {}
  /\ \A l \in Lidar : T[l] \cap d = {}
  /\ (UNION {T[l] : l \in Lidar}) \cup d = 1 .. n

Lots    == [l \in Lidar |-> Tracked(l)]
Account == Accounted(Lots, dropped, sent)

LEMMA AccountArrives ==
  ASSUME NEW T, NEW T1, NEW d, NEW n \in Nat, NEW l \in Lidar, Accounted(T, d, n),
         T1[l] = T[l] \cup {n + 1},
         \A k \in Lidar : k # l => T1[k] = T[k]
  PROVE  Accounted(T1, d, n + 1)
<1>1. /\ n + 1 \notin 1 .. n
      /\ 1 .. (n + 1) = (1 .. n) \cup {n + 1}
  OBVIOUS
<1>2. n + 1 \notin d /\ \A k \in Lidar : n + 1 \notin T[k]
  BY <1>1 DEF Accounted
<1>3. ASSUME NEW k \in Lidar, NEW m \in Lidar, k # m PROVE T1[k] \cap T1[m] = {}
  <2>1. T[k] \cap T[m] = {}
    BY <1>3 DEF Accounted
  <2>2. QED
    BY <1>2, <1>3, <2>1
<1>4. ASSUME NEW k \in Lidar PROVE T1[k] \cap d = {}
  <2>1. T[k] \cap d = {}
    BY DEF Accounted
  <2>2. QED
    BY <1>2, <2>1
<1>5. UNION {T1[k] : k \in Lidar} = (UNION {T[k] : k \in Lidar}) \cup {n + 1}
  <2>1. ASSUME NEW k \in Lidar PROVE T1[k] \subseteq T[k] \cup {n + 1} /\ T[k] \subseteq T1[k]
    OBVIOUS
  <2>2. n + 1 \in T1[l]
    OBVIOUS
  <2>3. QED
    BY <2>1, <2>2
<1>6. (UNION {T1[k] : k \in Lidar}) \cup d = 1 .. (n + 1)
  BY <1>1, <1>5 DEF Accounted
<1>7. QED
  BY <1>3, <1>4, <1>6 DEF Accounted

LEMMA AccountDrops ==
  ASSUME NEW T, NEW T1, NEW d, NEW n, NEW l \in Lidar, Accounted(T, d, n),
         NEW F \in SUBSET T[l], T1[l] = T[l] \ F,
         \A k \in Lidar : k # l => T1[k] = T[k]
  PROVE  Accounted(T1, d \cup F, n)
<1>1. ASSUME NEW k \in Lidar PROVE T1[k] \subseteq T[k] /\ (k # l => T[k] \cap F = {})
  BY DEF Accounted
<1>2. ASSUME NEW k \in Lidar, NEW m \in Lidar, k # m PROVE T1[k] \cap T1[m] = {}
  <2>1. T[k] \cap T[m] = {}
    BY <1>2 DEF Accounted
  <2>2. QED
    BY <1>1, <2>1
<1>3. ASSUME NEW k \in Lidar PROVE T1[k] \cap (d \cup F) = {}
  <2>1. T[k] \cap d = {}
    BY DEF Accounted
  <2>2. T1[k] \cap F = {}
    BY <1>1
  <2>3. QED
    BY <1>1, <2>1, <2>2
<1>4. (UNION {T1[k] : k \in Lidar}) \cup (d \cup F) = (UNION {T[k] : k \in Lidar}) \cup d
  <2>1. ASSUME NEW k \in Lidar PROVE T1[k] \subseteq T[k] /\ T[k] \subseteq T1[k] \cup F
    OBVIOUS
  <2>2. F \subseteq UNION {T[k] : k \in Lidar}
    OBVIOUS
  <2>3. QED
    BY <2>1, <2>2
<1>5. QED
  BY <1>2, <1>3, <1>4 DEF Accounted

\* What of a chain is in the frame is nowhere else.
LEMMA ChainDisjoint ==
  ASSUME NEW A, NEW B, NEW C, NEW D, NEW E, NEW n, Chained(A, B, C, D, E, n)
  PROVE  (A \cup B \cup D \cup E) \cap C = {}
<1>1. C \subseteq Int
  BY DEF Chained
<1>2. ASSUME NEW x \in C PROVE x \notin A \cup B \cup D \cup E
  <2>1. ~(x < x)
    BY <1>1
  <2>2. QED
    BY <2>1 DEF Chained, Before
<1>3. QED
  BY <1>2

\* A packet moves from one stage to the next, or none moves.
LEMMA AccountStays ==
  ASSUME Account, \A l \in Lidar : Tracked(l)' = Tracked(l), UNCHANGED <<dropped, sent>>
  PROVE  Account'
<1>1. Lots' = Lots
  BY DEF Lots
<1>2. QED
  BY <1>1 DEF Account

LEMMA StayTracked ==
  ASSUME Account, UNCHANGED <<Packed, published, dropped>>,
         \A l \in Lidar : Held(ring'[l]) = Held(ring[l]),
         \A l \in Lidar : WaitingIn(frame_', Skip', l) = WaitingIn(frame_, Skip, l)
  PROVE  Account'
<1>1. ASSUME NEW l \in Lidar PROVE Tracked(l)' = Tracked(l)
  BY DEF Tracked, Waiting, Packed
<1>2. QED
  BY <1>1, AccountStays DEF Packed

LEMMA ArrivalAccount ==
  ASSUME Shape, Strong, Chain, ImuShape, Account, NEW l \in Lidar, OnPointCloud(l)
  PROVE  Account'
<1>1. UNCHANGED <<procVars, ring, pollVars>>
  BY DEF OnPointCloud
<1>2. /\ RawsOf(raw_packet_queue_', l) = RawsOf(raw_packet_queue_, l) \cup {sent + 1}
      /\ \A k : k # l => RawsOf(raw_packet_queue_', k) = RawsOf(raw_packet_queue_, k)
      /\ sent \in Nat /\ sent' = sent + 1
  BY ArrivalRaws
<1>3. ASSUME NEW k \in Lidar
      PROVE  Lots'[k] = Range(published[k]) \cup Held(ring[k]) \cup Waiting(k)
                        \cup Range(points_clouds_[k]) \cup RawsOf(raw_packet_queue_', k)
  BY <1>1 DEF Lots, Tracked, Waiting, Skip, procVars, pollVars
<1>4. \A k \in Lidar : k # l => Lots'[k] = Lots[k]
  BY <1>2, <1>3 DEF Lots, Tracked
<1>5. Lots'[l] = Lots[l] \cup {sent + 1}
  BY <1>2, <1>3 DEF Lots, Tracked
<1>6. Accounted(Lots, dropped, sent)
  BY DEF Account
<1> DEFINE T1 == Lots'
           T == Lots
           d == dropped
           n == sent
<1>7. /\ n \in Nat /\ Accounted(T, d, n) /\ T1[l] = T[l] \cup {n + 1}
      /\ \A k \in Lidar : k # l => T1[k] = T[k]
  BY <1>2, <1>4, <1>5, <1>6
<1> HIDE DEF T1, T, d, n
<1>8. Accounted(T1, d, n + 1)
  BY <1>7, AccountArrives
<1>9. dropped' = d /\ sent' = n + 1
  BY <1>1, <1>2 DEF procVars, d, n
<1>10. QED
  BY <1>8, <1>9 DEF Account, T1

LEMMA ProcessAccount ==
  ASSUME Shape, Strong, Chain, Account, RawDataProcess
  PROVE  Account'
<1>1. /\ UNCHANGED <<sent, dropped, ring, pollVars>> /\ ppc = "idle"
      /\ \/ points_clouds_' = Gathered /\ UNCHANGED <<frame_, ppc>>
         \/ \E taken \in {{Taken.lidar}, Lidar} :
              /\ frame_' = Cut(taken, Gathered)
              /\ points_clouds_' = [l \in Lidar |-> IF l \in taken THEN <<>> ELSE Gathered[l]]
              /\ ppc' = "store"
  BY DEF RawDataProcess, Taken, Gathered
<1>2. /\ frame_ = <<>> /\ Taken.lidar \in Lidar /\ Gathered \in [Lidar -> Points]
      /\ RawsOf(raw_packet_queue_, Taken.lidar) = RawsOf(raw_packet_queue_', Taken.lidar) \cup {Taken.n}
      /\ \A k : k # Taken.lidar => RawsOf(raw_packet_queue_', k) = RawsOf(raw_packet_queue_, k)
      /\ Range(Gathered[Taken.lidar]) = Range(points_clouds_[Taken.lidar]) \cup {Taken.n}
      /\ \A k \in Lidar : k # Taken.lidar => Gathered[k] = points_clouds_[k]
  BY TakenPacket
<1>3. ASSUME NEW k \in Lidar
      PROVE  Range(Gathered[k]) \cup RawsOf(raw_packet_queue_', k)
               = Range(points_clouds_[k]) \cup RawsOf(raw_packet_queue_, k)
  BY <1>2
<1>4. ASSUME NEW k \in Lidar PROVE Waiting(k) = {}
  BY <1>2 DEF Waiting, WaitingIn, EntriesOf
<1>5. ASSUME NEW k \in Lidar PROVE Waiting(k)' \cup Range(points_clouds_'[k]) = Range(Gathered[k])
  <2>1. CASE points_clouds_' = Gathered /\ UNCHANGED <<frame_, ppc>>
    <3>1. Waiting(k)' = {}
      BY <1>2, <2>1 DEF Waiting, WaitingIn, EntriesOf
    <3>2. QED
      BY <2>1, <3>1
  <2>2. ASSUME NEW taken \in {{Taken.lidar}, Lidar},
               frame_' = Cut(taken, Gathered),
               points_clouds_' = [l \in Lidar |-> IF l \in taken THEN <<>> ELSE Gathered[l]],
               ppc' = "store"
        PROVE  Waiting(k)' \cup Range(points_clouds_'[k]) = Range(Gathered[k])
    <3>1. taken \in SUBSET Lidar
      BY <1>2
    <3>2. /\ \A l \in taken : WaitingIn(frame_', 0, l) = Range(Gathered[l])
          /\ \A l \in Lidar \ taken : WaitingIn(frame_', 0, l) = {}
      <4>1. Gathered \in [Lidar -> Points] /\ frame_' = Cut(taken, Gathered)
        BY <1>2, <2>2
      <4>2. QED
        BY <3>1, <4>1, CutWaits
    <3>3. Waiting(k)' = WaitingIn(frame_', 0, k)
      BY <2>2 DEF Waiting, Skip, Parked
    <3>4. CASE k \in taken
      <4>1. Range(points_clouds_'[k]) = {}
        BY <2>2, <3>4, RangeOfNone
      <4>2. QED
        BY <3>2, <3>3, <3>4, <4>1
    <3>5. CASE k \notin taken
      <4>1. points_clouds_'[k] = Gathered[k]
        BY <2>2, <3>5
      <4>2. QED
        BY <3>2, <3>3, <3>5, <4>1
    <3>6. QED
      BY <3>4, <3>5
  <2>3. QED
    BY <1>1, <2>1, <2>2
<1>6. ASSUME NEW k \in Lidar PROVE Tracked(k)' = Tracked(k)
  <2>1. Held(ring[k])' = Held(ring[k]) /\ Range(published[k])' = Range(published[k])
    BY <1>1 DEF pollVars
  <2> DEFINE W == Waiting(k)'
             C == Range(points_clouds_'[k])
             R == RawsOf(raw_packet_queue_', k)
  <2>2. Tracked(k)' = Range(published[k]) \cup Held(ring[k]) \cup W \cup C \cup R
    BY <2>1 DEF Tracked
  <2>3. W \cup C = Range(Gathered[k])
    BY <1>5
  <2>4. Range(Gathered[k]) \cup R = Range(points_clouds_[k]) \cup RawsOf(raw_packet_queue_, k)
    BY <1>3
  <2> HIDE DEF W, C, R
  <2>5. QED
    BY <1>4, <2>2, <2>3, <2>4 DEF Tracked
<1>7. QED
  BY <1>1, <1>6, AccountStays

\* The entry in hand is dropped: its points are nowhere else.
LEMMA DropAccount ==
  ASSUME Shape, Strong, Chain, Account, UNCHANGED <<Packed, published>>,
         frame_ # <<>>, Skip = 0, Drop,
         \A l \in Lidar : Held(ring'[l]) = Held(ring[l]),
         \A l \in Lidar : WaitingIn(frame_', Skip', l) = WaitingIn(frame_, 1, l)
  PROVE  Account'
<1> DEFINE l == Entry.lidar
           F == Range(Entry.points)
<1>1. /\ l \in Lidar
      /\ F = WaitingIn(frame_, 0, l) /\ WaitingIn(frame_, 1, l) = {}
      /\ \A m : m # l => WaitingIn(frame_, 1, m) = WaitingIn(frame_, 0, m)
  <2>1. /\ Entry = frame_[1] /\ l \in Lidar
        /\ InMapOrder(frame_) /\ \A m \in DOMAIN frame_ : frame_[m].lidar \in Int
    BY FrameFacts
  <2> DEFINE E == [lidar : Lidar, points : Frames]
  <2>2. frame_ \in Seq(E)
    BY DEF Strong
  <2> HIDE DEF E
  <2>3. QED
    BY <2>1, <2>2, HeadWaits
<1>2. dropped' = dropped \cup F
  BY DEF Drop
<1> HIDE DEF l, F
<1>3. ASSUME NEW k \in Lidar
      PROVE  Lots'[k] = Range(published[k]) \cup Held(ring[k]) \cup WaitingIn(frame_, 1, k)
                        \cup Range(points_clouds_[k]) \cup RawsOf(raw_packet_queue_, k)
  BY DEF Lots, Tracked, Waiting, Packed
<1>4. ASSUME NEW k \in Lidar
      PROVE  Lots[k] = Range(published[k]) \cup Held(ring[k]) \cup WaitingIn(frame_, 0, k)
                       \cup Range(points_clouds_[k]) \cup RawsOf(raw_packet_queue_, k)
  BY DEF Lots, Tracked, Waiting
<1>5. \A k \in Lidar : k # l => Lots'[k] = Lots[k]
  BY <1>1, <1>3, <1>4
<1>6. F \in SUBSET Lots[l]
  BY <1>1, <1>4
<1>7. Lots'[l] = Lots[l] \ F
  <2> DEFINE A == Range(published[l])
             B == Held(ring[l])
             D == Range(points_clouds_[l])
             E == RawsOf(raw_packet_queue_, l)
  <2>1. Chained(A, B, F, D, E, sent)
    BY <1>1 DEF Chain, Linked, Waiting
  <2>2. Lots'[l] = A \cup B \cup D \cup E /\ Lots[l] = A \cup B \cup F \cup D \cup E
    BY <1>1, <1>3, <1>4
  <2> HIDE DEF A, B, D, E
  <2>3. (A \cup B \cup D \cup E) \cap F = {}
    BY <2>1, ChainDisjoint
  <2>4. QED
    BY <2>2, <2>3
<1> DEFINE T1 == Lots'
           T == Lots
<1>8. Accounted(T, dropped, sent) /\ l \in Lidar /\ F \in SUBSET T[l] /\ T1[l] = T[l] \ F
      /\ \A k \in Lidar : k # l => T1[k] = T[k]
  BY <1>1, <1>5, <1>6, <1>7 DEF Account
<1> HIDE DEF T1, T
<1>9. Accounted(T1, dropped \cup F, sent)
  BY <1>8, AccountDrops
<1>10. QED
  BY <1>2, <1>9 DEF Account, T1, Packed

LEMMA PushAccount ==
  ASSUME Shape, Room, Strong, Chain, Account, QueuePushAny
  PROVE  Account'
<1> DEFINE l == Entry.lidar
<1>1. UNCHANGED <<Packed, published, dropped, frame_>>
  BY DEF QueuePushAny, inVars, pollVars, Packed
<1>2. /\ l \in Lidar /\ Skip = 0 /\ Skip' = 1
      /\ Range(Entry.points) = Waiting(l)
      /\ WaitingIn(frame_, 1, l) = {}
      /\ \A m : m # l => WaitingIn(frame_, 1, m) = WaitingIn(frame_, 0, m)
      /\ Held(ring'[l]) = Held(ring[l]) \cup Range(Entry.points)
  BY PushHeld
<1>3. \A m \in Lidar : m # l => ring'[m] = ring[m]
  BY PushRing
<1> HIDE DEF l
<1>4. ASSUME NEW m \in Lidar
      PROVE  Held(ring'[m]) \cup WaitingIn(frame_', Skip', m) = Held(ring[m]) \cup Waiting(m)
  <2>1. CASE m = l
    BY <1>1, <1>2, <2>1
  <2>2. CASE m # l
    BY <1>1, <1>2, <1>3, <2>2 DEF Waiting
  <2>3. QED
    BY <2>1, <2>2
<1>5. ASSUME NEW m \in Lidar PROVE Tracked(m)' = Tracked(m)
  <2> DEFINE H == Held(ring'[m])
             W == WaitingIn(frame_', Skip', m)
  <2>1. Tracked(m)' = Range(published[m]) \cup H \cup W
                      \cup Range(points_clouds_[m]) \cup RawsOf(raw_packet_queue_, m)
    BY <1>1 DEF Tracked, Waiting, Packed
  <2>2. H \cup W = Held(ring[m]) \cup Waiting(m)
    BY <1>4
  <2> HIDE DEF H, W
  <2>3. QED
    BY <2>1, <2>2 DEF Tracked
<1>6. QED
  BY <1>1, <1>5, AccountStays DEF Packed

LEMMA PopAccount ==
  ASSUME Shape, Room, Strong, Chain, Account, QueuePopUpdate
  PROVE  Account'
<1>1. UNCHANGED <<Packed, dropped, frame_, ppc>>
  BY DEF QueuePopUpdate, inVars, procVars, Packed
<1>2. at \in Lidar /\ Held(ring[at]) = Range(FrameAt(ring[at], 0)) \cup Held(ring'[at])
  BY PopHeld
<1>3. \A m \in Lidar : m # at => ring'[m] = ring[m]
  BY PopRing
<1>4. /\ Range(published'[at]) = Range(published[at]) \cup Range(FrameAt(ring[at], 0))
      /\ \A m \in Lidar : m # at => published'[m] = published[m]
  BY PopPublished
<1>5. ASSUME NEW m \in Lidar
      PROVE  Range(published'[m]) \cup Held(ring'[m]) = Range(published[m]) \cup Held(ring[m])
  <2>1. CASE m = at
    BY <1>2, <1>4, <2>1
  <2>2. CASE m # at
    BY <1>3, <1>4, <2>2
  <2>3. QED
    BY <2>1, <2>2
<1>6. ASSUME NEW m \in Lidar PROVE Tracked(m)' = Tracked(m)
  <2> DEFINE P == Range(published'[m])
             H == Held(ring'[m])
  <2>1. Tracked(m)' = P \cup H \cup Waiting(m)
                      \cup Range(points_clouds_[m]) \cup RawsOf(raw_packet_queue_, m)
    BY <1>1 DEF Tracked, Waiting, Skip, Packed
  <2>2. P \cup H = Range(published[m]) \cup Held(ring[m])
    BY <1>5
  <2> HIDE DEF P, H
  <2>3. QED
    BY <2>1, <2>2 DEF Tracked
<1>7. QED
  BY <1>1, <1>6, AccountStays DEF Packed

LEMMA InitAccount == Init => Account
<1> SUFFICES ASSUME Init PROVE Account
  OBVIOUS
<1>1. ASSUME NEW l \in Lidar PROVE Lots[l] = {}
  <2>1. ring[l] = NoStorage /\ NoStorage.wr = NoStorage.rd_idx
    BY DEF Init, NoStorage
  <2>2. Held(ring[l]) = {}
    BY <2>1, NoStorageQueue, HeldNone
  <2>3. RawsOf(raw_packet_queue_, l) = {} /\ Waiting(l) = {}
    BY DEF Init, RawsOf, Waiting, WaitingIn, EntriesOf
  <2>4. Range(published[l]) = {} /\ Range(points_clouds_[l]) = {}
    BY RangeOfNone DEF Init
  <2>5. QED
    BY <2>2, <2>3, <2>4 DEF Lots, Tracked
<1>2. dropped = {} /\ 1 .. sent = {}
  BY DEF Init
<1>3. UNION {Lots[l] : l \in Lidar} = {}
  BY <1>1
<1>4. QED
  BY <1>1, <1>2, <1>3 DEF Account, Accounted

LEMMA NextAccount == IInv /\ Account /\ [Next]_vars => Account'
<1> SUFFICES ASSUME Shape, Room, Strong, Chain, ImuShape, Account, [Next]_vars PROVE Account'
  BY DEF IInv
<1> USE DEF Packed
<1>0. /\ ppc \in {"write"} \cup Parked => frame_ # <<>>
      /\ frame_ # <<>> => \A l : WaitingIn(Tail(frame_), 0, l) = WaitingIn(frame_, 1, l)
  <2>1. ppc \in {"write"} \cup Parked => frame_ # <<>>
    BY DEF Shape, FrameShape
  <2> DEFINE E == [lidar : Lidar, points : Frames]
  <2>2. frame_ \in Seq(E)
    BY DEF Strong
  <2> HIDE DEF E
  <2>3. frame_ # <<>> => \A l : WaitingIn(Tail(frame_), 0, l) = WaitingIn(frame_, 1, l)
    BY <2>2, TailWaits
  <2>4. QED
    BY <2>1, <2>3
<1>1. ASSUME NEW l \in Lidar, OnPointCloud(l) PROVE Account'
  BY <1>1, ArrivalAccount
<1>2. CASE RawDataProcess
  BY <1>2, ProcessAccount
<1>3. ASSUME UNCHANGED <<Packed, published, dropped, frame_, ring>>, Skip' = Skip PROVE Account'
  BY <1>3, StayTracked
<1>4. ASSUME NEW l \in Lidar, AddIndex(l) \/ StartSampling(l) PROVE Account'
  <2>1. UNCHANGED <<Packed, published, dropped, frame_, ring, ppc>>
    BY <1>4 DEF AddIndex, StartSampling, inVars, procVars, pollVars
  <2>2. Skip' = Skip
    BY <2>1 DEF Skip
  <2>3. QED
    BY <1>3, <2>1, <2>2
<1>5. CASE StoreDone \/ ProcessExit
  <2>1. UNCHANGED <<Packed, published, dropped, frame_, ring>>
    BY <1>5 DEF StoreDone, ProcessExit, inVars, pollVars
  <2>2. Skip' = Skip
    BY <1>5 DEF StoreDone, ProcessExit, Skip, Parked
  <2>3. QED
    BY <1>3, <2>1, <2>2
<1>6. CASE StoreUnknown
  <2>1. /\ UNCHANGED <<Packed, published, ring>> /\ frame_ # <<>> /\ Drop
        /\ frame_' = Tail(frame_) /\ Skip = 0 /\ Skip' = 0
    BY <1>6 DEF StoreUnknown, NextEntry, inVars, pollVars, Skip, Parked
  <2>2. \A l \in Lidar : Held(ring'[l]) = Held(ring[l])
    BY <2>1
  <2>3. \A l \in Lidar : WaitingIn(frame_', Skip', l) = WaitingIn(frame_, 1, l)
    BY <1>0, <2>1
  <2>4. QED
    BY <2>1, <2>2, <2>3, DropAccount
<1>7. CASE PushCheck
  <2>1. /\ UNCHANGED <<Packed, published, frame_>> /\ frame_ # <<>> /\ Skip = 0
        /\ \/ ppc' = "getcount" /\ Drop
           \/ ppc' = "write" /\ UNCHANGED dropped
    BY <1>7 DEF PushCheck, inVars, pollVars, Skip, Parked
  <2>2. \A l \in Lidar : Held(ring'[l]) = Held(ring[l])
    BY <1>7, AllocHeld
  <2>3. CASE ppc' = "getcount" /\ Drop
    <3>1. Skip' = 1
      BY <2>3 DEF Skip, Parked
    <3>2. \A l \in Lidar : WaitingIn(frame_', Skip', l) = WaitingIn(frame_, 1, l)
      BY <2>1, <3>1
    <3>3. QED
      BY <2>1, <2>2, <2>3, <3>2, DropAccount
  <2>4. CASE ppc' = "write" /\ UNCHANGED dropped
    <3>1. Skip' = Skip
      BY <2>1, <2>4 DEF Skip, Parked
    <3>2. \A l \in Lidar : WaitingIn(frame_', Skip', l) = WaitingIn(frame_, Skip, l)
      BY <2>1, <3>1
    <3>3. QED
      BY <2>1, <2>2, <2>4, <3>2, StayTracked
  <2>5. QED
    BY <2>1, <2>3, <2>4
<1>8. CASE QueuePushAny
  BY <1>8, PushAccount
<1>9. CASE PushedCheck \/ GetCount \/ Signal
  <2>1. /\ UNCHANGED <<Packed, published, dropped, ring>> /\ ppc \in Parked /\ frame_ # <<>>
        /\ \/ frame_' = frame_ /\ ppc' \in Parked
           \/ frame_' = Tail(frame_) /\ ppc' = "store"
    BY <1>0, <1>9 DEF PushedCheck, GetCount, Signal, NextEntry, Parked, inVars, pollVars
  <2>2. CASE frame_' = frame_ /\ ppc' \in Parked
    <3>1. Skip' = Skip
      BY <2>1, <2>2 DEF Skip
    <3>2. QED
      BY <1>3, <2>1, <2>2, <3>1
  <2>3. CASE frame_' = Tail(frame_) /\ ppc' = "store"
    <3>1. Skip = 1 /\ Skip' = 0
      BY <2>1, <2>3 DEF Skip, Parked
    <3>2. \A l \in Lidar : WaitingIn(frame_', Skip', l) = WaitingIn(frame_, Skip, l)
      BY <1>0, <2>1, <2>3, <3>1
    <3>3. \A l \in Lidar : Held(ring'[l]) = Held(ring[l])
      BY <2>1
    <3>4. QED
      BY <2>1, <3>2, <3>3, StayTracked
  <2>4. QED
    BY <2>1, <2>2, <2>3
<1>10. ASSUME NEW l \in Lidar, StoreVisible(l) PROVE Account'
  <2>1. UNCHANGED <<Packed, published, dropped, frame_, ppc>>
    BY <1>10 DEF StoreVisible, inVars, procVars, pollVars
  <2>2. /\ \A m \in Lidar : m # l => ring'[m] = ring[m]
        /\ ring'[l].storage_packet = ring[l].storage_packet
        /\ ring'[l].wr = ring[l].wr /\ ring'[l].rd_idx = ring[l].rd_idx
    BY <1>10, StoreVisibleRing DEF Shape
  <2>3. Held(ring'[l]) = Held(ring[l])
    BY <2>2, HeldSame
  <2>4. \A m \in Lidar : Held(ring'[m]) = Held(ring[m])
    BY <2>2, <2>3
  <2>5. Skip' = Skip
    BY <2>1 DEF Skip
  <2>6. QED
    BY <2>1, <2>4, <2>5, StayTracked
<1>11. CASE DistributeEnter \/ Wait \/ PollNext \/ PublishEnter \/ PublishLeave \/ QueuePrePop \/ PollStatus
  <2>1. UNCHANGED <<Packed, published, dropped, frame_, ring, ppc>>
    BY <1>11 DEF DistributeEnter, Wait, PollNext, PublishEnter, PublishLeave, QueuePrePop, PollStatus,
                 inVars, procVars
  <2>2. Skip' = Skip
    BY <2>1 DEF Skip
  <2>3. QED
    BY <1>3, <2>1, <2>2
<1>12. CASE QueuePopUpdate
  BY <1>12, PopAccount
<1>13. CASE Main \/ UNCHANGED pcdVars
  <2>1. UNCHANGED <<Packed, published, dropped, frame_, ring, ppc>>
    BY <1>13 DEF Main, Exit, RequestExit, ExitSignal, Joined, ProcessJoined, MainStep,
                 pcdVars, inVars, procVars, pollVars
  <2>2. Skip' = Skip
    BY <2>1 DEF Skip
  <2>3. QED
    BY <1>3, <2>1, <2>2
<1>14. QED
  BY <1>1, <1>2, <1>4, <1>5, <1>6, <1>7, <1>8, <1>9, <1>10, <1>11, <1>12, <1>13, ImuAside
     DEF Next, Sdk, Process, Visible, Poll

\* The stages of the property are those of the chain.
LEMMA RingStage ==
  ASSUME NEW q \in Queue
  PROVE  /\ DOMAIN FramesTo(q, q.wr) = 1 .. Used(q.wr, q.rd_idx)
         /\ \A k \in DOMAIN FramesTo(q, q.wr) :
              k - 1 \in Places(q) /\ FramesTo(q, q.wr)[k] = FrameAt(q, k - 1)
         /\ UNION {Range(f) : f \in Range(FramesTo(q, q.wr))} = Held(q)
<1> DEFINE u == Used(q.wr, q.rd_idx)
           fs == FramesTo(q, q.wr)
<1>1. u \in Nat /\ q.rd_idx \in Nat
  BY QueueNumbers
<1>2. DOMAIN fs = 1 .. u
  BY DEF FramesTo
<1>3. ASSUME NEW k \in 1 .. u PROVE k - 1 \in Places(q) /\ fs[k] = FrameAt(q, k - 1)
  <2>1. fs[k] = q.storage_packet[Masked(q.rd_idx + k - 1)]
    BY DEF FramesTo
  <2> HIDE DEF u, fs
  <2>2. q.rd_idx + k - 1 = q.rd_idx + (k - 1) /\ k - 1 \in Nat /\ k - 1 < u
    BY <1>1
  <2>3. QED
    BY <2>1, <2>2 DEF Places, FrameAt, u
<1>4. ASSUME NEW k \in Places(q) PROVE k + 1 \in 1 .. u /\ fs[k + 1] = FrameAt(q, k)
  <2>1. k + 1 \in 1 .. u /\ (k + 1) - 1 = k
    BY <1>1 DEF Places
  <2>2. QED
    BY <1>3, <2>1
<1> HIDE DEF u, fs
<1>5. ASSUME NEW f \in Range(fs) PROVE Range(f) \subseteq Held(q)
  <2>1. PICK k \in 1 .. u : fs[k] = f
    BY <1>2 DEF Range
  <2>2. QED
    BY <1>3, <2>1 DEF Held
<1>6. ASSUME NEW k \in Places(q) PROVE FrameAt(q, k) \in Range(fs)
  BY <1>2, <1>4 DEF Range
<1>7. UNION {Range(f) : f \in Range(fs)} = Held(q)
  <2>1. UNION {Range(f) : f \in Range(fs)} \subseteq Held(q)
    BY <1>5
  <2>2. Held(q) \subseteq UNION {Range(f) : f \in Range(fs)}
    BY <1>6 DEF Held
  <2>3. QED
    BY <2>1, <2>2
<1>8. QED
  BY <1>2, <1>3, <1>7 DEF u, fs

LEMMA StagesAre ==
  ASSUME Shape, Strong, NEW l \in Lidar
  PROVE  /\ Stages(l) = <<Range(published[l]), Held(ring[l]), Waiting(l),
                          Range(points_clouds_[l]), RawsOf(raw_packet_queue_, l)>>
         /\ Unstored(l) = EntriesOf(frame_, Skip, l)
         /\ PacketsOf(l) = Tracked(l)
<1>1. ring[l] \in Queue
  BY DEF Shape, RingShape
<1>2. UNION {Range(f) : f \in Range(FramesTo(ring[l], ring[l].wr))} = Held(ring[l])
  BY <1>1, RingStage
<1>3. Unstored(l) = EntriesOf(frame_, Skip, l)
  <2> DEFINE E == [lidar : Lidar, points : Frames]
  <2>1. frame_ \in Seq(E)
    BY DEF Strong
  <2> HIDE DEF E
  <2>2. \A m \in DOMAIN frame_ : m > 0
    BY <2>1
  <2>3. QED
    BY <2>2 DEF Unstored, EntriesOf, Skip, Parked
<1>4. UNION {Range(frame_[m].points) : m \in Unstored(l)} = Waiting(l)
  BY <1>3 DEF Waiting, WaitingIn
<1>5. {raw.n : raw \in {r \in Range(raw_packet_queue_) : r.lidar = l}} = RawsOf(raw_packet_queue_, l)
  BY DEF RawsOf, Range
<1> DEFINE A == Range(published[l])
           B == Held(ring[l])
           C == Waiting(l)
           D == Range(points_clouds_[l])
           E == RawsOf(raw_packet_queue_, l)
<1>6. Stages(l) = <<A, B, C, D, E>>
  BY <1>2, <1>4, <1>5 DEF Stages
<1>7. Tracked(l) = A \cup B \cup C \cup D \cup E
  BY DEF Tracked
<1> HIDE DEF A, B, C, D, E
<1>8. Range(<<A, B, C, D, E>>) = {A, B, C, D, E}
  BY DEF Range
<1>9. PacketsOf(l) = Tracked(l)
  BY <1>6, <1>7, <1>8 DEF PacketsOf
<1>10. QED
  BY <1>3, <1>6, <1>9 DEF A, B, C, D, E

LEMMA StagesInOrder ==
  ASSUME Shape, Strong, Chain, NEW l \in Lidar
  PROVE  InOrder(l)
<1> DEFINE q == ring[l]
           fs == FramesTo(q, q.wr)
<1>1. Increasing(published[l]) /\ Increasing(points_clouds_[l])
  <2>1. published[l] \in Points /\ points_clouds_[l] \in Points
    BY DEF Strong
  <2>2. QED
    BY <2>1, PointsAre
<1>2. q \in Queue /\ Arranged(q)
  BY DEF Shape, RingShape, Chain
<1>3. /\ DOMAIN fs = 1 .. Used(q.wr, q.rd_idx) /\ Used(q.wr, q.rd_idx) \in Nat
      /\ \A k \in DOMAIN fs : k - 1 \in Places(q) /\ fs[k] = FrameAt(q, k - 1)
  BY <1>2, RingStage, QueueNumbers
<1> HIDE DEF q, fs
<1>4. \A f \in Range(fs) : Increasing(f)
  <2> SUFFICES ASSUME NEW k \in DOMAIN fs PROVE Increasing(fs[k])
    BY DEF Range
  <2>1. fs[k] \in Points
    BY <1>2, <1>3 DEF Arranged, Points
  <2>2. QED
    BY <2>1, PointsAre
<1>5. \A i, j \in DOMAIN fs : i < j => Before(Range(fs[i]), Range(fs[j]))
  <2> SUFFICES ASSUME NEW i \in DOMAIN fs, NEW j \in DOMAIN fs, i < j
               PROVE  Before(Range(fs[i]), Range(fs[j]))
    OBVIOUS
  <2>1. i - 1 < j - 1
    BY <1>3
  <2>2. QED
    BY <1>2, <1>3, <2>1 DEF Arranged
<1>6. \A m, n \in Unstored(l) : m = n /\ Increasing(frame_[m].points)
  <2> SUFFICES ASSUME NEW m \in Unstored(l), NEW n \in Unstored(l)
               PROVE  m = n /\ Increasing(frame_[m].points)
    OBVIOUS
  <2> DEFINE E == [lidar : Lidar, points : Frames]
  <2>0. frame_ \in Seq(E)
    BY DEF Strong
  <2> HIDE DEF E
  <2>1. m \in DOMAIN frame_ /\ n \in DOMAIN frame_ /\ m \in Int /\ n \in Int
    BY <2>0 DEF Unstored
  <2>2. frame_[m].lidar = l /\ frame_[n].lidar = l /\ l \in Int
    BY DEF Unstored, Lidar
  <2>3. m = n
    <3>1. m < n \/ n < m \/ m = n
      BY <2>1
    <3>2. ~(l < l)
      BY <2>2
    <3>3. QED
      BY <2>1, <2>2, <3>1, <3>2 DEF Chain, InMapOrder
  <2>4. frame_[m].points \in Points
    BY <2>1, FrameFacts DEF Points
  <2>5. QED
    BY <2>3, <2>4, PointsAre
<1>7. \A i, j \in DOMAIN Stages(l) : i < j => Before(Stages(l)[i], Stages(l)[j])
  <2> DEFINE A == Range(published[l])
             B == Held(ring[l])
             C == Waiting(l)
             D == Range(points_clouds_[l])
             E == RawsOf(raw_packet_queue_, l)
  <2>1. Stages(l) = <<A, B, C, D, E>>
    BY StagesAre
  <2>2. Chained(A, B, C, D, E, sent)
    BY DEF Chain, Linked
  <2> HIDE DEF A, B, C, D, E
  <2>3. /\ Before(A, B) /\ Before(A, C) /\ Before(A, D) /\ Before(A, E) /\ Before(B, C)
        /\ Before(B, D) /\ Before(B, E) /\ Before(C, D) /\ Before(C, E) /\ Before(D, E)
    BY <2>2 DEF Chained, Before
  <2> DEFINE s == <<A, B, C, D, E>>
  <2>4. /\ DOMAIN s = 1 .. 5
        /\ s[1] = A /\ s[2] = B /\ s[3] = C /\ s[4] = D /\ s[5] = E
    OBVIOUS
  <2> HIDE DEF s
  <2>5. \A i, j \in 1 .. 5 : i < j =>
          \/ i = 1 /\ j \in 2 .. 5
          \/ i = 2 /\ j \in 3 .. 5
          \/ i = 3 /\ j \in 4 .. 5
          \/ i = 4 /\ j = 5
    OBVIOUS
  <2>6. \A i, j \in 1 .. 5 : i < j => Before(s[i], s[j])
    <3> SUFFICES ASSUME NEW i \in 1 .. 5, NEW j \in 1 .. 5, i < j PROVE Before(s[i], s[j])
      OBVIOUS
    <3>1. CASE i = 1
      <4>1. j = 2 \/ j = 3 \/ j = 4 \/ j = 5
        BY <3>1
      <4>2. QED
        BY <2>3, <2>4, <3>1, <4>1
    <3>2. CASE i = 2
      <4>1. j = 3 \/ j = 4 \/ j = 5
        BY <3>2
      <4>2. QED
        BY <2>3, <2>4, <3>2, <4>1
    <3>3. CASE i = 3
      <4>1. j = 4 \/ j = 5
        BY <3>3
      <4>2. QED
        BY <2>3, <2>4, <3>3, <4>1
    <3>4. CASE i = 4
      <4>1. j = 5
        BY <3>4
      <4>2. QED
        BY <2>3, <2>4, <3>4, <4>1
    <3>5. QED
      BY <3>1, <3>2, <3>3, <3>4
  <2>7. QED
    BY <2>1, <2>4, <2>6 DEF s
<1>8. QED
  BY <1>1, <1>4, <1>5, <1>6, <1>7 DEF InOrder, fs, q

\* Every packet the SDK delivered is published, on its way in the order of arrival, or
\* was dropped with its frame, whatever the timing of the threads, the size of the rings
\* and the number of lidars.
THEOREM PacketsKept == Spec => []NothingLostOrReordered
<1>1. IInv /\ Account => NothingLostOrReordered
  <2> SUFFICES ASSUME Shape, Strong, Chain, Account PROVE NothingLostOrReordered
    BY DEF IInv
  <2>1. \A l \in Lidar : InOrder(l)
    BY StagesInOrder
  <2>2. Increasing([m \in DOMAIN raw_packet_queue_ |-> raw_packet_queue_[m].n])
    BY DEF Chain, InArrivalOrder, Increasing
  <2>3. \A l \in Lidar : PacketsOf(l) = Lots[l]
    BY StagesAre DEF Lots
  <2>4. /\ \A k, l \in Lidar : k # l => Lots[k] \cap Lots[l] = {}
        /\ \A l \in Lidar : Lots[l] \cap dropped = {}
        /\ (UNION {Lots[l] : l \in Lidar}) \cup dropped = 1 .. sent
    BY DEF Account, Accounted
  <2>5. UNION {PacketsOf(l) : l \in Lidar} = UNION {Lots[l] : l \in Lidar}
    BY <2>3
  <2>6. QED
    BY <2>1, <2>2, <2>3, <2>4, <2>5 DEF NothingLostOrReordered
<1>2. Init => IInv /\ Account
  BY InitIInv, InitAccount
<1>3. (IInv /\ Account) /\ [Next]_vars => (IInv /\ Account)'
  BY NextIInv, NextAccount
<1>4. QED
  BY <1>1, <1>2, <1>3, PTL DEF Spec

-----------------------------------------------------------------------------
(* Refinement *)

\* The poll thread lags behind by one frame at most, and that frame's lidar has no
\* other in hand: the process thread does not begin a frame before its stores are
\* visible.
Lags ==
  \A l \in Lidar :
    Lagging(l) => /\ ring[l].wr = Next1(ring[l].wr_idx)
                  /\ EntriesOf(frame_, Skip, l) = {}

LEMMA InitLags == Init => Lags
BY DEF Init, Lags, Lagging, NoStorage

\* No entry is added to a frame, and no ring changes but by a store becoming visible.
LEMMA LagsKept ==
  ASSUME Lags,
         \A l \in Lidar : /\ ring'[l].wr = ring[l].wr
                          /\ ring'[l].wr_idx \in {ring[l].wr_idx, ring[l].wr}
                          /\ Lagging(l) /\ EntriesOf(frame_, Skip, l) = {}
                               => EntriesOf(frame_', Skip', l) = {}
  PROVE  Lags'
BY DEF Lags, Lagging

LEMMA NextLags == IInv /\ Lags /\ [Next]_vars => Lags'
<1> SUFFICES ASSUME IInv, Lags, [Next]_vars PROVE Lags'
  OBVIOUS
<1> USE DEF IInv
<1> DEFINE E == [lidar : Lidar, points : Frames]
<1>0. /\ ppc \in {"write"} \cup Parked => frame_ # <<>>
      /\ frame_ \in Seq(E) /\ Skip \in {0, 1}
  BY DEF Shape, FrameShape, Strong, Skip
<1> HIDE DEF E
<1>1. \A l : EntriesOf(frame_, 0, l) = {} => EntriesOf(frame_, 1, l) = {}
  <2>1. \A m \in DOMAIN frame_ : m \in Int
    BY <1>0
  <2>2. \A m \in DOMAIN frame_ : m > 1 => m > 0
    BY <2>1
  <2>3. QED
    BY <2>2 DEF EntriesOf
<1>2. ASSUME frame_ # <<>>, frame_' = Tail(frame_), Skip' = 0
      PROVE  \A l : EntriesOf(frame_, Skip, l) = {} => EntriesOf(frame_', Skip', l) = {}
  <2>1. \A l : EntriesOf(frame_, 1, l) = {} => EntriesOf(Tail(frame_), 0, l) = {}
    BY <1>0, <1>2, TailWaits
  <2>2. QED
    BY <1>0, <1>1, <1>2, <2>1
<1>3. CASE RawDataProcess
  <2>1. ring' = ring /\ \A l \in Lidar : ~Lagging(l)
    BY <1>3 DEF RawDataProcess, Drained, Lagging
  <2>2. QED
    BY <2>1 DEF Lags, Lagging
<1>4. CASE StoreUnknown \/ PushedCheck \/ GetCount \/ Signal
  <2>1. /\ ring' = ring /\ frame_ # <<>>
        /\ \/ frame_' = frame_ /\ ppc \in Parked /\ ppc' \in Parked
           \/ frame_' = Tail(frame_) /\ ppc' = "store"
    BY <1>0, <1>4 DEF StoreUnknown, PushedCheck, GetCount, Signal, NextEntry, Parked
  <2>2. \A l : EntriesOf(frame_, Skip, l) = {} => EntriesOf(frame_', Skip', l) = {}
    <3>1. CASE frame_' = frame_ /\ ppc \in Parked /\ ppc' \in Parked
      <4>1. Skip' = Skip
        BY <3>1 DEF Skip
      <4>2. QED
        BY <3>1, <4>1
    <3>2. CASE frame_' = Tail(frame_) /\ ppc' = "store"
      <4>1. Skip' = 0
        BY <3>2 DEF Skip, Parked
      <4>2. QED
        BY <1>2, <2>1, <3>2, <4>1
    <3>3. QED
      BY <2>1, <3>1, <3>2
  <2>3. QED
    BY <2>1, <2>2, LagsKept
<1>5. CASE PushCheck
  <2>1. /\ frame_' = frame_ /\ ppc = "store"
        /\ \A m \in Lidar : ring'[m].wr_idx = ring[m].wr_idx /\ ring'[m].wr = ring[m].wr
    BY <1>5, PushCheckRing DEF PushCheck
  <2>2. Skip = 0 /\ Skip' \in {0, 1}
    BY <2>1 DEF Skip, Parked
  <2>3. \A l : EntriesOf(frame_, Skip, l) = {} => EntriesOf(frame_', Skip', l) = {}
    BY <1>1, <2>1, <2>2
  <2>4. QED
    BY <2>1, <2>3, LagsKept
<1>6. CASE QueuePushAny
  <2> DEFINE l == Entry.lidar
  <2>1. /\ l \in Lidar /\ frame_' = frame_
        /\ \A m \in Lidar : m # l => ring'[m] = ring[m]
        /\ ring'[l].wr_idx = ring[l].wr_idx /\ ring'[l].wr = Next1(ring[l].wr)
    BY <1>6, PushRing DEF QueuePushAny
  <2>2. /\ Skip = 0 /\ Skip' = 1 /\ EntriesOf(frame_, 1, l) = {} /\ 1 \in EntriesOf(frame_, 0, l)
    BY <1>6, PushHeld
  <2> HIDE DEF l
  <2>3. ~Lagging(l)
    BY <2>1, <2>2 DEF Lags
  <2>4. ring'[l].wr = Next1(ring'[l].wr_idx) /\ EntriesOf(frame_', Skip', l) = {}
    BY <2>1, <2>2, <2>3 DEF Lagging
  <2>5. ASSUME NEW m \in Lidar, m # l, Lagging(m)'
        PROVE  ring'[m].wr = Next1(ring'[m].wr_idx) /\ EntriesOf(frame_', Skip', m) = {}
    <3>1. Lagging(m) /\ ring'[m] = ring[m]
      BY <2>1, <2>5 DEF Lagging
    <3>2. ring[m].wr = Next1(ring[m].wr_idx) /\ EntriesOf(frame_, 0, m) = {}
      BY <2>2, <3>1 DEF Lags
    <3>3. QED
      BY <1>1, <2>1, <2>2, <3>1, <3>2
  <2>6. QED
    BY <2>4, <2>5 DEF Lags
<1>7. ASSUME NEW l \in Lidar, StoreVisible(l) PROVE Lags'
  <2>1. /\ UNCHANGED <<frame_, ppc>>
        /\ \A m \in Lidar : m # l => ring'[m] = ring[m]
        /\ ring'[l].wr_idx = ring[l].wr /\ ring'[l].wr = ring[l].wr
    BY <1>7, StoreVisibleRing DEF StoreVisible, procVars, Shape
  <2>2. Skip' = Skip
    BY <2>1 DEF Skip
  <2>3. QED
    BY <2>1, <2>2, LagsKept
<1>8. CASE QueuePopUpdate
  <2>1. /\ UNCHANGED <<frame_, ppc>>
        /\ \A m \in Lidar : m # at => ring'[m] = ring[m]
        /\ ring'[at].wr_idx = ring[at].wr_idx /\ ring'[at].wr = ring[at].wr
    BY <1>8, PopRing DEF QueuePopUpdate, procVars
  <2>2. Skip' = Skip
    BY <2>1 DEF Skip
  <2>3. \A m \in Lidar : ring'[m].wr_idx = ring[m].wr_idx /\ ring'[m].wr = ring[m].wr
    BY <2>1
  <2>4. QED
    BY <2>1, <2>2, <2>3, LagsKept
<1>9. CASE StoreDone \/ ProcessExit
  <2>1. UNCHANGED <<frame_, ring>> /\ ppc \in {"store", "idle"} /\ ppc' \in {"idle", "off"}
    BY <1>9 DEF StoreDone, ProcessExit
  <2>2. Skip' = Skip
    BY <2>1 DEF Skip, Parked
  <2>3. QED
    BY <2>1, <2>2, LagsKept
<1>10. CASE UNCHANGED <<frame_, ring, ppc>>
  <2>1. Skip' = Skip
    BY <1>10 DEF Skip
  <2>2. QED
    BY <1>10, <2>1, LagsKept
<1>11. CASE Sdk \/ Main \/ UNCHANGED pcdVars
  BY <1>10, <1>11 DEF Sdk, OnPointCloud, AddIndex, StartSampling, Main, Exit, RequestExit, ExitSignal,
                      Joined, ProcessJoined, MainStep, pcdVars, procVars
<1>12. CASE DistributeEnter \/ Wait \/ PollNext \/ PublishEnter \/ PublishLeave \/ QueuePrePop \/ PollStatus
  BY <1>10, <1>12 DEF DistributeEnter, Wait, PollNext, PublishEnter, PublishLeave, QueuePrePop,
                      PollStatus, procVars
<1>13. QED
  BY <1>3, <1>4, <1>5, <1>6, <1>7, <1>8, <1>9, <1>11, <1>12, ImuAside DEF Next, Process, Visible, Poll

LEMMA FifoStarts == Init => \A l \in Lidar : Fifo(l)!FifoInit
<1> SUFFICES ASSUME Init, NEW l \in Lidar PROVE Fifo(l)!FifoInit
  OBVIOUS
<1>1. ring[l].storage_packet = <<>> /\ pkg[l] = <<>>
  BY DEF Init, NoStorage
<1>2. QED
  BY <1>1 DEF Fifo!FifoInit

\* The queue that a ring stands for, as the poll thread sees it.
Seen(q) == IF q.storage_packet = <<>> THEN <<>> ELSE Contents(q)

LEMMA ContentsAre ==
  ASSUME NEW q \in Queue, Fits(q), Arranged(q)
  PROVE  /\ Contents(q) \in Seq(Frames)
         /\ Len(Contents(q)) = Used(q.wr_idx, q.rd_idx) /\ Used(q.wr_idx, q.rd_idx) \in Nat
         /\ DOMAIN Contents(q) = 1 .. Used(q.wr_idx, q.rd_idx)
         /\ \A k \in 1 .. Used(q.wr_idx, q.rd_idx) :
              k - 1 \in Places(q) /\ Contents(q)[k] = FrameAt(q, k - 1)
<1> DEFINE n == Used(q.wr_idx, q.rd_idx)
           c == Contents(q)
<1>1. n \in Nat /\ q.rd_idx \in Nat /\ n <= Used(q.wr, q.rd_idx) /\ Used(q.wr, q.rd_idx) \in Nat
  BY QueueNumbers DEF Fits
<1>2. c = [k \in 1 .. n |-> q.storage_packet[Masked(q.rd_idx + k - 1)]]
  BY DEF Contents, FramesTo
<1> HIDE DEF n, c
<1>3. ASSUME NEW k \in 1 .. n PROVE k - 1 \in Places(q) /\ c[k] = FrameAt(q, k - 1)
  <2>1. k - 1 \in Nat /\ k - 1 < Used(q.wr, q.rd_idx) /\ q.rd_idx + k - 1 = q.rd_idx + (k - 1)
    BY <1>1
  <2>2. QED
    BY <1>2, <2>1 DEF Places, FrameAt
<1>4. DOMAIN c = 1 .. n /\ c = [k \in 1 .. n |-> c[k]]
  BY <1>2
<1>5. \A k \in 1 .. n : c[k] \in Frames
  BY <1>3 DEF Arranged
<1>6. c \in Seq(Frames) /\ Len(c) = n
  <2>1. c \in [1 .. n -> Frames]
    BY <1>4, <1>5
  <2>2. QED
    BY <1>1, <2>1
<1>7. QED
  BY <1>1, <1>3, <1>4, <1>6 DEF n, c

\* Rings that show the same number of frames, the same ones.
LEMMA SameContents ==
  ASSUME NEW q \in Queue, NEW p \in Queue, Fits(q), Fits(p), Arranged(q), Arranged(p),
         Used(p.wr_idx, p.rd_idx) = Used(q.wr_idx, q.rd_idx),
         \A k \in Places(q) : FrameAt(p, k) = FrameAt(q, k)
  PROVE  Contents(p) = Contents(q)
<1> DEFINE n == Used(q.wr_idx, q.rd_idx)
<1>1. /\ Contents(q) \in Seq(Frames) /\ Len(Contents(q)) = n /\ n \in Nat
      /\ Contents(p) \in Seq(Frames) /\ Len(Contents(p)) = n
      /\ \A k \in 1 .. n : k - 1 \in Places(q) /\ Contents(q)[k] = FrameAt(q, k - 1)
      /\ \A k \in 1 .. n : Contents(p)[k] = FrameAt(p, k - 1)
  BY ContentsAre
<1>2. \A k \in 1 .. n : Contents(p)[k] = Contents(q)[k]
  BY <1>1
<1> HIDE DEF n
<1>3. QED
  BY <1>1, <1>2

LEMMA ContentsEmpty ==
  ASSUME NEW q \in Queue, q.wr = q.rd_idx, q.wr_idx = q.rd_idx
  PROVE  Contents(q) = <<>>
<1>1. Used(q.wr_idx, q.rd_idx) = 0
  BY UsedNext, QueueNumbers
<1>2. QED
  BY <1>1 DEF Contents, FramesTo

\* A store that becomes visible shows one frame more, at the end.
LEMMA VisibleGrows ==
  ASSUME NEW q \in Queue, NEW p \in Queue, Fits(q), Arranged(q), q.wr = Next1(q.wr_idx),
         p.storage_packet = q.storage_packet,
         p.wr_idx = q.wr, p.wr = q.wr, p.rd_idx = q.rd_idx
  PROVE  \E f \in Frames : /\ Contents(p) = Append(Contents(q), f)
                           /\ Contents(q) \in Seq(Frames) /\ Len(Contents(q)) < Size
<1> DEFINE n == Used(q.wr_idx, q.rd_idx)
           u == Used(q.wr, q.rd_idx)
           f == FrameAt(q, n)
<1>1. /\ n \in Nat /\ u \in Nat /\ n <= u /\ u <= Size /\ Size \in Nat \ {0} /\ IndexRange \in Nat
      /\ Size < IndexRange /\ q.wr_idx \in Index /\ q.rd_idx \in Index
  BY QueueNumbers, Sizes DEF Fits
<1>2. /\ n + 1 < IndexRange => u = n + 1
      /\ n + 1 >= IndexRange => u = 0
  BY <1>1, UsedNext
<1> HIDE DEF n, u
<1>3. u = n + 1 /\ n < Size
  BY <1>1, <1>2
<1>4. n \in Places(q) /\ f \in Frames
  BY <1>1, <1>3 DEF Places, u, Arranged
<1>5. Fits(p) /\ Arranged(p)
  BY FitsVisible, HeldSame
<1>6. /\ Contents(q) \in Seq(Frames) /\ Len(Contents(q)) = n
      /\ \A k \in 1 .. n : Contents(q)[k] = FrameAt(q, k - 1)
  BY ContentsAre DEF n
<1>7. /\ Contents(p) \in Seq(Frames) /\ Len(Contents(p)) = n + 1
      /\ \A k \in 1 .. (n + 1) : Contents(p)[k] = FrameAt(q, k - 1)
  <2>1. Used(p.wr_idx, p.rd_idx) = n + 1
    BY <1>3 DEF u
  <2>2. \A k : FrameAt(p, k) = FrameAt(q, k)
    BY DEF FrameAt
  <2>3. QED
    BY <1>5, <2>1, <2>2, ContentsAre
<1>8. Contents(p) = Append(Contents(q), f)
  <2> DEFINE c == Contents(q)
             d == Contents(p)
             e == Append(c, f)
  <2> HIDE DEF c, d, f
  <2>1. e \in Seq(Frames) /\ Len(e) = n + 1 /\ e[n + 1] = f /\ \A k \in 1 .. n : e[k] = c[k]
    BY <1>1, <1>4, <1>6 DEF c
  <2>2. d[n + 1] = f
    <3>1. n + 1 \in 1 .. (n + 1) /\ (n + 1) - 1 = n
      BY <1>1
    <3>2. QED
      BY <1>7, <3>1 DEF d, f
  <2>3. \A k \in 1 .. (n + 1) : d[k] = e[k]
    <3>1. ASSUME NEW k \in 1 .. (n + 1) PROVE d[k] = e[k]
      <4>1. CASE k = n + 1
        BY <2>1, <2>2, <4>1
      <4>2. CASE k # n + 1
        <5>1. k \in 1 .. n
          BY <1>1, <4>2
        <5>2. QED
          BY <1>6, <1>7, <2>1, <5>1 DEF c, d
      <4>3. QED
        BY <4>1, <4>2
    <3>2. QED
      BY <3>1
  <2> HIDE DEF e
  <2>4. d = e
    BY <1>1, <1>7, <2>1, <2>3 DEF d
  <2>5. QED
    BY <2>4 DEF c, d, e
<1>9. QED
  BY <1>3, <1>4, <1>6, <1>8

\* What is popped is the first frame shown.
LEMMA PopShrinks ==
  ASSUME NEW q \in Queue, NEW p \in Queue, Fits(q), Arranged(q), q.rd_idx # q.wr_idx,
         p.storage_packet = q.storage_packet,
         p.wr_idx = q.wr_idx, p.wr = q.wr, p.rd_idx = Next1(q.rd_idx)
  PROVE  /\ Contents(q) \in Seq(Frames) /\ 1 \in 0 .. Len(Contents(q))
         /\ <<FrameAt(q, 0)>> = SubSeq(Contents(q), 1, 1)
         /\ Contents(p) = SubSeq(Contents(q), 1 + 1, Len(Contents(q)))
<1> DEFINE n == Used(q.wr_idx, q.rd_idx)
           c == Contents(q)
           d == Contents(p)
<1>1. Fits(p) /\ Used(p.wr_idx, p.rd_idx) = n - 1 /\ n > 0
  BY FitsPop
<1>2. Arranged(p) /\ \A k \in Places(p) : FrameAt(p, k) = FrameAt(q, k + 1)
  BY HeldPop
<1>3. /\ c \in Seq(Frames) /\ Len(c) = n /\ n \in Nat
      /\ \A k \in 1 .. n : c[k] = FrameAt(q, k - 1)
  BY ContentsAre
<1>4. /\ d \in Seq(Frames) /\ Len(d) = n - 1
      /\ \A k \in 1 .. (n - 1) : k - 1 \in Places(p) /\ d[k] = FrameAt(p, k - 1)
  BY <1>1, <1>2, ContentsAre
<1> HIDE DEF n, c, d
<1>5. 1 \in 0 .. Len(c) /\ c[1] = FrameAt(q, 0)
  <2>1. 1 \in 1 .. n /\ 1 - 1 = 0
    BY <1>1, <1>3
  <2>2. QED
    BY <1>3, <2>1
<1>6. <<FrameAt(q, 0)>> = SubSeq(c, 1, 1)
  BY <1>1, <1>3, <1>5
<1>7. ASSUME NEW k \in 1 .. (n - 1) PROVE d[k] = c[k + 1]
  <2>1. k + 1 \in 1 .. n /\ (k + 1) - 1 = (k - 1) + 1
    BY <1>3
  <2>2. d[k] = FrameAt(q, (k - 1) + 1)
    BY <1>2, <1>4
  <2>3. QED
    BY <1>3, <2>1, <2>2
<1>8. d = SubSeq(c, 1 + 1, Len(c))
  <2> DEFINE e == SubSeq(c, 2, n)
  <2>1. e \in Seq(Frames) /\ Len(e) = n - 1 /\ \A k \in 1 .. (n - 1) : e[k] = c[k + 1]
    BY <1>1, <1>3
  <2> HIDE DEF e
  <2>2. d = e
    BY <1>1, <1>3, <1>4, <1>7, <2>1
  <2>3. QED
    BY <1>3, <2>2 DEF e
<1>9. QED
  BY <1>3, <1>5, <1>6, <1>8 DEF c, d

Batch(f) == IF f = <<>> THEN <<>> ELSE <<f>>

\* A step that leaves what the ring shows, and what was popped last.
LEMMA FifoStutters ==
  ASSUME NEW l \in Lidar, Seen(ring'[l]) = Seen(ring[l]), pkg'[l] = pkg[l]
  PROVE  [Fifo(l)!FifoNext]_(Fifo(l)!fifoVars)
<1>1. Seen(ring[l])' = Seen(ring[l])
  OBVIOUS
<1>2. QED
  BY <1>1 DEF Fifo!fifoVars, Seen

LEMMA FifoStep ==
  ASSUME IInv, Lags, [Next]_vars, NEW l \in Lidar
  PROVE  [Fifo(l)!FifoNext]_(Fifo(l)!fifoVars)
<1> USE DEF IInv
<1>0. /\ ring[l] \in Queue /\ Fits(ring[l]) /\ Arranged(ring[l])
      /\ Shape' /\ Room' /\ Chain'
      /\ ring'[l] \in Queue /\ Fits(ring'[l]) /\ Arranged(ring'[l])
  <2>1. IInv'
    BY NextIInv
  <2>2. QED
    BY <2>1 DEF Shape, RingShape, Room, Chain
<1>1. CASE PushCheck
  <2> DEFINE e == Entry.lidar
  <2>1. /\ e \in Lidar /\ pkg' = pkg
        /\ \A m \in Lidar : m # e => ring'[m] = ring[m]
        /\ ring'[e] = IF Stored(ring[e]) THEN ring[e] ELSE InitQueue(ring[e])
    BY <1>1, PushCheckRing DEF PushCheck, pollVars
  <2>2. CASE ring'[l] = ring[l]
    BY <2>1, <2>2, FifoStutters
  <2>3. CASE l = e /\ ~Stored(ring[l])
    <3>1. ring[l] = NoStorage /\ ring'[l] = InitQueue(NoStorage)
      BY <2>1, <2>3 DEF Shape, RingShape
    <3>2. Seen(ring[l]) = <<>>
      BY <3>1 DEF Seen, NoStorage
    <3>3. InitQueue(NoStorage) \in Queue /\ InitQueue(NoStorage).wr = InitQueue(NoStorage).rd_idx
          /\ InitQueue(NoStorage).wr_idx = InitQueue(NoStorage).rd_idx
      BY NoStorageQueue, InitQueueShape DEF NoStorage
    <3>4. Seen(ring'[l]) = <<>>
      BY <3>1, <3>3, ContentsEmpty DEF Seen
    <3>5. QED
      BY <2>1, <3>2, <3>4, FifoStutters
  <2>4. QED
    BY <2>1, <2>2, <2>3
<1>2. CASE QueuePushAny
  <2> DEFINE e == Entry.lidar
  <2>1. /\ e \in Lidar /\ pkg' = pkg
        /\ \A m \in Lidar : m # e => ring'[m] = ring[m]
        /\ ring'[e].wr_idx = ring[e].wr_idx /\ ring'[e].rd_idx = ring[e].rd_idx
        /\ Stored(ring'[e]) /\ ring[e].storage_packet \in [Slot -> Numbers]
    BY <1>2, PushRing DEF QueuePushAny, pollVars
  <2>2. \A k \in Places(ring[e]) : FrameAt(ring'[e], k) = FrameAt(ring[e], k)
    BY <1>2, PushHeld
  <2> HIDE DEF e
  <2>3. CASE l # e
    BY <2>1, <2>3, FifoStutters
  <2>4. CASE l = e
    <3>1. Contents(ring'[l]) = Contents(ring[l])
      BY <1>0, <2>1, <2>2, <2>4, SameContents
    <3>2. Stored(ring[l]) /\ Stored(ring'[l])
      BY <2>1, <2>4, SlotInhabited DEF Stored
    <3>3. Seen(ring'[l]) = Seen(ring[l])
      BY <3>1, <3>2 DEF Seen, Stored
    <3>4. QED
      BY <2>1, <3>3, FifoStutters
  <2>5. QED
    BY <2>3, <2>4
<1>3. ASSUME NEW e \in Lidar, StoreVisible(e) PROVE [Fifo(l)!FifoNext]_(Fifo(l)!fifoVars)
  <2>1. /\ pkg' = pkg /\ Lagging(e)
        /\ \A m \in Lidar : m # e => ring'[m] = ring[m]
        /\ ring'[e].storage_packet = ring[e].storage_packet
        /\ ring'[e].wr_idx = ring[e].wr /\ ring'[e].wr = ring[e].wr
        /\ ring'[e].rd_idx = ring[e].rd_idx
    BY <1>3, StoreVisibleRing DEF StoreVisible, Lagging, pollVars, Shape
  <2>2. CASE l # e
    BY <2>1, <2>2, FifoStutters
  <2>3. CASE l = e
    <3>1. ring[l].wr = Next1(ring[l].wr_idx)
      BY <2>1, <2>3 DEF Lags
    <3>2. PICK f \in Frames : /\ Contents(ring'[l]) = Append(Contents(ring[l]), f)
                              /\ Contents(ring[l]) \in Seq(Frames) /\ Len(Contents(ring[l])) < Size
      BY <1>0, <2>1, <2>3, <3>1, VisibleGrows
    <3>3. Stored(ring[l]) /\ Stored(ring'[l])
      <4>1. ring[l] # NoStorage
        BY <2>1, <2>3 DEF Lagging, NoStorage
      <4>2. QED
        BY <2>1, <2>3, <4>1 DEF Shape, RingShape, Stored
    <3>4. /\ Seen(ring[l])' = Append(Seen(ring[l]), f) /\ Len(Seen(ring[l])) < Size
      BY <3>2, <3>3 DEF Seen, Stored
    <3>5. Fifo(l)!Put(f)
      BY <2>1, <3>4 DEF Fifo!Put, Seen
    <3>6. QED
      BY <3>5 DEF Fifo!FifoNext
  <2>4. QED
    BY <2>2, <2>3
<1>4. CASE QueuePopUpdate
  <2>1. /\ at \in Lidar
        /\ \A m \in Lidar : m # at => ring'[m] = ring[m]
        /\ ring'[at].storage_packet = ring[at].storage_packet
        /\ ring'[at].wr_idx = ring[at].wr_idx /\ ring'[at].wr = ring[at].wr
        /\ ring'[at].rd_idx = Next1(ring[at].rd_idx)
        /\ Stored(ring[at]) /\ Stored(ring'[at])
    BY <1>4, PopRing
  <2>2. /\ ring[at].rd_idx # ring[at].wr_idx
        /\ pkg' = [pkg EXCEPT ![at] = FrameAt(ring[at], 0)]
        /\ FrameAt(ring[at], 0) \in Frames
    BY <1>4, PopHeld
  <2>3. CASE l # at
    <3>1. pkg'[l] = pkg[l]
      BY <2>2, <2>3 DEF Strong
    <3>2. QED
      BY <2>1, <2>3, <3>1, FifoStutters
  <2>4. CASE l = at
    <3>1. /\ Contents(ring[l]) \in Seq(Frames) /\ 1 \in 0 .. Len(Contents(ring[l]))
          /\ <<FrameAt(ring[l], 0)>> = SubSeq(Contents(ring[l]), 1, 1)
          /\ Contents(ring'[l]) = SubSeq(Contents(ring[l]), 1 + 1, Len(Contents(ring[l])))
      BY <1>0, <2>1, <2>2, <2>4, PopShrinks
    <3>2. /\ Seen(ring[l]) = Contents(ring[l]) /\ Seen(ring[l])' = Contents(ring'[l])
      BY <2>1, <2>4 DEF Seen, Stored
    <3>3. Batch(pkg[l])' = <<FrameAt(ring[l], 0)>>
      <4>1. pkg'[l] = FrameAt(ring[l], 0) /\ pkg'[l] # <<>>
        BY <2>2, <2>4, FrameNotEmpty DEF Strong
      <4>2. QED
        BY <4>1 DEF Batch
    <3>4. /\ 1 \in 0 .. Len(Seen(ring[l]))
          /\ Batch(pkg[l])' = SubSeq(Seen(ring[l]), 1, 1)
          /\ Seen(ring[l])' = SubSeq(Seen(ring[l]), 1 + 1, Len(Seen(ring[l])))
      BY <3>1, <3>2, <3>3
    <3>5. Fifo(l)!Take(1)
      BY <3>4 DEF Fifo!Take, Seen, Batch
    <3>6. QED
      BY <3>4, <3>5 DEF Fifo!FifoNext, Seen
  <2>5. QED
    BY <2>3, <2>4
<1>5. CASE UNCHANGED <<ring, pkg>>
  <2>1. Seen(ring'[l]) = Seen(ring[l]) /\ pkg'[l] = pkg[l]
    BY <1>5
  <2>2. QED
    BY <2>1, FifoStutters
<1>6. CASE Sdk \/ Main \/ UNCHANGED pcdVars
  BY <1>5, <1>6 DEF Sdk, OnPointCloud, AddIndex, StartSampling, Main, Exit, RequestExit, ExitSignal,
                    Joined, ProcessJoined, MainStep, pcdVars, pollVars
<1>7. CASE DistributeEnter \/ Wait \/ PollNext \/ PublishEnter \/ PublishLeave \/ QueuePrePop \/ PollStatus
  BY <1>5, <1>7 DEF DistributeEnter, Wait, PollNext, PublishEnter, PublishLeave, QueuePrePop, PollStatus
<1>8. CASE RawDataProcess \/ StoreDone \/ StoreUnknown \/ PushedCheck \/ GetCount \/ Signal \/ ProcessExit
  BY <1>5, <1>8 DEF RawDataProcess, StoreDone, StoreUnknown, PushedCheck, GetCount, Signal,
                    ProcessExit, pollVars
<1>9. QED
  BY <1>1, <1>2, <1>3, <1>4, <1>6, <1>7, <1>8, ImuAside DEF Next, Process, Visible, Poll

\* Each lidar's ring is a first-in first-out queue of Size frames between the process
\* thread and the poll thread.
THEOREM RingsAreFifos == Spec => RingImplementsFifo
<1>1. Init => \A l \in Lidar : Fifo(l)!FifoInit
  BY FifoStarts
<1>2. IInv /\ Lags /\ [Next]_vars
        => [\A l \in Lidar : [Fifo(l)!FifoNext]_(Fifo(l)!fifoVars)]_vars
  BY FifoStep
<1>3. Init => IInv /\ Lags
  BY InitIInv, InitLags
<1>4. IInv /\ Lags /\ [Next]_vars => (IInv /\ Lags)'
  BY NextIInv, NextLags
<1>5. QED
  BY <1>1, <1>2, <1>3, <1>4, PTL DEF Spec, RingImplementsFifo
=============================================================================
