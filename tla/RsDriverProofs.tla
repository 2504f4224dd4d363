--------------------------- MODULE RsDriverProofs ---------------------------
(***************************************************************************)
(* Proofs about RsDriver, for rings of any capacity, batches of any size   *)
(* and any number of datagrams and sessions, and, in the second part,      *)
(* about RsFrontEnd, for every lidar type, setting, length of a frame and  *)
(* number of packets.                                                      *)
(*                                                                         *)
(* RsDriver.  The inductive invariants:                                    *)
(*   Typed    types, the agreement of the three threads' places, and that  *)
(*            the buffers in use are fewer than the datagrams and sessions *)
(*            they were allocated for;                                     *)
(*   Session  outside a session no point is left in the cloud;             *)
(*   DecodedHere  what is in the cloud was decoded in this session;        *)
(*   Whole    until a clear() races with a popBatch: the ring keeps what   *)
(*            each thread checked (RingIntact), a buffer is at one place   *)
(*            (Apart) and datagrams are in order along the way from the    *)
(*            socket through queue and batch to the decoder (InOrder).     *)
(* What a step does to the buffers on their way is a lemma about sequences *)
(* (Dropped, Taken, Allocated, Written, Published, Popped, Decoded); that  *)
(* every step of the program is one of these is proved after them.         *)
(*                                                                         *)
(* RsFrontEnd.  The inductive invariant is FrontInv: the bounds on packets *)
(* and trouble, and of the sensor, its decoder and the point cloud one of  *)
(*   MechInv  a mechanical lidar: the decoder is typed, no packet bears a  *)
(*            frame, and the count of blocks of a turn is that of the      *)
(*            speed and the returns once a DIFOP packet told them;         *)
(*   SeqInv   a lidar that numbers its packets: all is typed, and while    *)
(*            packets come fewer than SplitStrategyBySeq::RANGE numbers    *)
(*            late the split remembers the newest packet (Tracks) and the  *)
(*            cloud holds points of its frame only (FramesApart).          *)
(* With it goes PaceInv, of the lidars that number their packets: the      *)
(* split that paces a replayed file keeps up with the decoder's own.       *)
(* The lemmas follow a packet through the program: clouds, the decoders of *)
(* RsDecoders one by one, the split strategies, one datagram, one packet   *)
(* through Decoder and LidarDriverImpl, the decoders as the factory makes  *)
(* them, the sensor, and then the steps of RsFrontEnd.                     *)
(***************************************************************************)
EXTENDS RsDriver, RsFrontEnd, NumberLemmas, SequenceTheorems, FiniteSetTheorems, TLAPS

-----------------------------------------------------------------------------
(* The three threads' control states *)

\* push() and clear() run only while the receiving thread is inside packetPut, on
\* the buffer it holds; it holds none after it has ended, and it has ended when the
\* caller is outside a session or waits for the handling thread.
Control ==
  /\ rpc = "pushing" <=> ppc # "idle"
  /\ ppc # "idle" => pvalue = rbuf
  /\ rpc \in {"recv", "push", "pushing"} => rbuf \in Buffers
  /\ rpc = "off" => rbuf = NoBuffer
  /\ mpc \in {"new", "failed", "ready", "join_handle"} => rpc = "off"

\* A buffer the receiving thread will need before the next datagram: it has none, or
\* is about to give the one it has away.
Owed == IF (rbuf = NoBuffer /\ rpc # "off") \/ rpc \in {"push", "pushing"} THEN 1 ELSE 0

\* Every buffer was allocated for a datagram or as the spare one of a session, so
\* there is always one left to allocate.
Supply == Cardinality(Referenced \ {NoBuffer}) + Owed <= received + sessions

Typed == TypeOK /\ Control /\ Supply

LEMMA ReferencedTyped ==
  ASSUME TypeOK
  PROVE  /\ Referenced \ {NoBuffer} \subseteq Buffers
         /\ IsFiniteSet(Buffers) /\ Cardinality(Buffers) = MaxPackets + MaxSessions
<1>1. /\ Range(buffer_) \subseteq Buffers \cup {NoBuffer}
      /\ rbuf \in Buffers \cup {NoBuffer}
  BY DEF TypeOK, Pkt!TypeOK, Range
<1>2. /\ Range(todo) \subseteq Buffers \cup {NoBuffer}
      /\ Range(copied) \subseteq Buffers \cup {NoBuffer}
      /\ Range(result) \subseteq Buffers \cup {NoBuffer}
      /\ Range(free) \subseteq Buffers
  BY RangeOfSeq DEF TypeOK, Pkt!TypeOK
<1>3. Referenced \ {NoBuffer} \subseteq Buffers
  BY <1>1, <1>2 DEF Referenced
<1>4. MaxPackets + MaxSessions \in Nat
  BY DriverAssumption
<1>5. IsFiniteSet(Buffers) /\ Cardinality(Buffers) = MaxPackets + MaxSessions
  BY <1>4, FS_Interval DEF Buffers
<1>6. QED
  BY <1>3, <1>5

\* A step that refers to no new buffer keeps the supply when what is owed (q after
\* the step) grows no faster than what may be allocated (m after the step).
LEMMA SupplyKept ==
  ASSUME Typed, Referenced' \subseteq Referenced \cup {NoBuffer},
         NEW q \in Nat, NEW m \in Nat, q + received + sessions <= Owed + m
  PROVE  Cardinality(Referenced' \ {NoBuffer}) + q <= m
<1>1. /\ IsFiniteSet(Referenced \ {NoBuffer})
      /\ Referenced' \ {NoBuffer} \in SUBSET (Referenced \ {NoBuffer})
  BY ReferencedTyped, FS_Subset DEF Typed
<1>2. /\ Cardinality(Referenced' \ {NoBuffer}) <= Cardinality(Referenced \ {NoBuffer})
      /\ IsFiniteSet(Referenced' \ {NoBuffer})
  BY <1>1, FS_Subset
<1>3. PICK c \in Nat, d \in Nat : /\ c = Cardinality(Referenced \ {NoBuffer})
                                   /\ d = Cardinality(Referenced' \ {NoBuffer})
  BY <1>1, <1>2, FS_CardinalityType
<1>4. received \in Nat /\ sessions \in Nat /\ Owed \in Nat
  BY DriverAssumption DEF Typed, TypeOK, Owed
<1>5. d <= c /\ c + Owed <= received + sessions
  BY <1>2, <1>3 DEF Typed, Supply
<1>6. d + q <= m
  BY <1>4, <1>5
<1>7. QED
  BY <1>3, <1>6

\* packetGet finds a buffer that nobody refers to.
LEMMA NewBuffer ==
  ASSUME Typed, rbuf = NoBuffer, rpc # "off"
  PROVE  /\ (CHOOSE b \in Buffers : b \notin Referenced) \in Buffers
         /\ (CHOOSE b \in Buffers : b \notin Referenced) \notin Referenced
         /\ Cardinality(Referenced \ {NoBuffer}) + 1 <= received + sessions
         /\ Cardinality(Referenced \ {NoBuffer}) \in Nat
         /\ IsFiniteSet(Referenced \ {NoBuffer})
<1>1. /\ Referenced \ {NoBuffer} \in SUBSET Buffers
      /\ IsFiniteSet(Buffers) /\ Cardinality(Buffers) = MaxPackets + MaxSessions
  BY ReferencedTyped DEF Typed
<1>2. IsFiniteSet(Referenced \ {NoBuffer}) /\ Cardinality(Referenced \ {NoBuffer}) \in Nat
  BY <1>1, FS_Subset, FS_CardinalityType
<1>3. received <= MaxPackets /\ sessions <= MaxSessions /\ received \in Nat /\ sessions \in Nat
  BY DriverAssumption DEF Typed, TypeOK
<1>4. Cardinality(Referenced \ {NoBuffer}) + 1 <= received + sessions
  BY DEF Typed, Supply, Owed
<1>5. Cardinality(Referenced \ {NoBuffer}) # Cardinality(Buffers)
  BY <1>1, <1>2, <1>3, <1>4, DriverAssumption
<1>6. \E b \in Buffers : b \notin Referenced
  <2>1. Referenced \ {NoBuffer} # Buffers
    BY <1>5
  <2>2. QED
    BY <1>1, <2>1, DriverAssumption
<1>7. QED
  BY <1>2, <1>4, <1>6

\* Steps of push and clear.
PutRing == Pkt!PushFull(rbuf) \/ Pkt!PushLoad(rbuf) \/ Pkt!PushWrite \/ Pkt!PushPublish
           \/ Pkt!ClearHead \/ Pkt!ClearTail

\* The ring itself stays well typed whatever races run on it.
LEMMA RingTyped ==
  ASSUME Pkt!TypeOK, rbuf \in Buffers \cup {NoBuffer},
         \/ PutRing
         \/ Pkt!PopLoadHead \/ Pkt!PopEmpty \/ Pkt!BatchReady \/ Pkt!BatchReloadHead
         \/ Pkt!BatchCount \/ Pkt!CopyOne \/ Pkt!PopAdvance
  PROVE  Pkt!TypeOK'
<1> USE DEF Pkt!TypeOK, Pkt!ring, Pkt!producer, Pkt!consumer, Pkt!Index,
            Pkt!ProducerPlaces, Pkt!ConsumerPlaces
<1>0. /\ Capacity \in Nat /\ Capacity >= 2 /\ MaxCount \in Nat
      /\ \A n \in Nat : n % Capacity \in 0 .. (Capacity - 1)
  BY DriverAssumption
<1>1. CASE Pkt!PushFull(rbuf)
  BY <1>1 DEF Pkt!PushFull
<1>2. CASE Pkt!PushLoad(rbuf)
  BY <1>2 DEF Pkt!PushLoad
<1>3. CASE Pkt!PushWrite
  BY <1>3 DEF Pkt!PushWrite
<1>4. CASE Pkt!PushPublish
  <2>1. ptail + 1 \in Nat
    BY <1>0
  <2>2. Pkt!Advance(ptail, 1) \in 0 .. (Capacity - 1)
    BY <1>0, <2>1 DEF Pkt!Advance
  <2>3. QED
    BY <1>4, <2>2 DEF Pkt!PushPublish
<1>5. CASE Pkt!ClearHead \/ Pkt!ClearTail
  <2>1. 0 \in 0 .. (Capacity - 1)
    BY <1>0
  <2>2. QED
    BY <1>5, <2>1 DEF Pkt!ClearHead, Pkt!ClearTail
<1>6. CASE Pkt!PopLoadHead \/ Pkt!BatchReady \/ Pkt!BatchReloadHead
  BY <1>6 DEF Pkt!PopLoadHead, Pkt!BatchReady, Pkt!BatchReloadHead
<1>7. CASE Pkt!PopEmpty
  BY <1>7 DEF Pkt!PopEmpty
<1>8. CASE Pkt!BatchCount
  <2>1. Pkt!Available(chead, tail_) \in Nat
    BY <1>0 DEF Pkt!Available
  <2>2. count' \in Nat
    BY <1>0, <1>8, <2>1 DEF Pkt!BatchCount
  <2>3. QED
    BY <1>8, <2>2 DEF Pkt!BatchCount
<1>9. CASE Pkt!CopyOne
  <2> chead + Len(copied) \in Nat
    BY <1>0
  <2>1. Pkt!Advance(chead, Len(copied)) \in 0 .. (Capacity - 1)
    BY <1>0 DEF Pkt!Advance
  <2>2. buffer_[Pkt!Advance(chead, Len(copied))] \in Buffers \cup {NoBuffer}
    BY <2>1
  <2>3. copied' \in Seq(Buffers \cup {NoBuffer})
    BY <1>9, <2>2 DEF Pkt!CopyOne
  <2>4. QED
    BY <1>9, <2>3 DEF Pkt!CopyOne
<1>10. CASE Pkt!PopAdvance
  <2> chead + count \in Nat
    BY <1>0
  <2>1. Pkt!Advance(chead, count) \in 0 .. (Capacity - 1)
    BY <1>0 DEF Pkt!Advance
  <2>2. QED
    BY <1>10, <2>1 DEF Pkt!PopAdvance
<1>11. QED
  BY <1>1, <1>2, <1>3, <1>4, <1>5, <1>6, <1>7, <1>8, <1>9, <1>10 DEF PutRing

\* The same for a step that allocates nothing and owes no more than before.
LEMMA SupplyStill ==
  ASSUME Typed, Referenced' \subseteq Referenced \cup {NoBuffer},
         UNCHANGED <<received, sessions>>, Owed' = Owed \/ Owed' = 0
  PROVE  Supply'
<1>1. received \in Nat /\ sessions \in Nat /\ Owed \in Nat
  BY DriverAssumption DEF Typed, TypeOK, Owed
<1>2. CASE Owed' = Owed
  <2>1. Cardinality(Referenced' \ {NoBuffer}) + Owed <= received + sessions
    BY <1>1, SupplyKept
  <2>2. QED
    BY <1>2, <2>1 DEF Supply
<1>3. CASE Owed' = 0
  <2>1. Cardinality(Referenced' \ {NoBuffer}) + 0 <= received + sessions
    BY <1>1, SupplyKept
  <2>2. QED
    BY <1>3, <2>1 DEF Supply
<1>4. QED
  BY <1>2, <1>3

\* The caller's steps.
LEMMA CallerTyped == Typed /\ Caller => Typed'
<1> SUFFICES ASSUME Typed, Caller PROVE Typed'
  OBVIOUS
<1>1. UNCHANGED <<pktVars, free, rbuf, received, todo>>
  BY DEF Caller, DriverInit, Start, StopInput, JoinRecv, JoinHandle, recvVars, handleVars
<1>2. Referenced' \subseteq Referenced \cup {NoBuffer}
  BY <1>1 DEF Referenced, pktVars
<1>3. Pkt!TypeOK'
  BY <1>1 DEF Typed, TypeOK, Pkt!TypeOK, pktVars
<1>4. CASE Start
  <2>1. rbuf = NoBuffer /\ rpc = "off" /\ ppc = "idle"
    BY <1>4 DEF Typed, Control, Start
  <2>2. Owed = 0 /\ Owed' = 1
    BY <1>4, <2>1 DEF Owed, Start
  <2>3. received \in Nat /\ sessions \in Nat /\ sessions + 1 \in 0 .. MaxSessions
    BY <1>4, DriverAssumption DEF Start, Typed, TypeOK
  <2>4. Cardinality(Referenced' \ {NoBuffer}) + 1 <= received + (sessions + 1)
    BY <1>2, <2>2, <2>3, SupplyKept
  <2>5. Supply'
    BY <1>4, <2>2, <2>4 DEF Supply, Start
  <2>6. TypeOK'
    BY <1>3, <1>4, <2>3 DEF Typed, TypeOK, Start
  <2>7. Control'
    BY <1>4, <2>1 DEF Control, Start, pktVars
  <2>8. QED
    BY <2>5, <2>6, <2>7 DEF Typed
<1>5. CASE DriverInit \/ StopInput \/ JoinRecv \/ JoinHandle
  <2>1. UNCHANGED <<rpc, sessions, content, handled>>
    BY <1>5 DEF DriverInit, StopInput, JoinRecv, JoinHandle, recvVars, handleVars, mainVars
  <2>2. Supply'
    BY <1>1, <1>2, <2>1, SupplyStill DEF Owed
  <2>3. TypeOK'
    BY <1>1, <1>3, <1>5, <2>1 DEF Typed, TypeOK, DriverInit, StopInput, JoinRecv, JoinHandle, handleVars
  <2>4. Control'
    BY <1>1, <1>5, <2>1 DEF Typed, Control, DriverInit, StopInput, JoinRecv, JoinHandle, pktVars
  <2>5. QED
    BY <2>2, <2>3, <2>4 DEF Typed
<1>6. QED
  BY <1>4, <1>5 DEF Caller

\* The receiving thread's steps outside the queue.
LEMMA SelectTyped == Typed /\ RecvSelect => Typed'
<1> SUFFICES ASSUME Typed, RecvSelect PROVE Typed'
  OBVIOUS
<1>0. /\ rpc = "loop" /\ rpc' = "recv" /\ ppc = "idle" /\ cpc' = cpc
      /\ UNCHANGED <<pktVars, received, handleVars, mainVars>>
      /\ mpc \notin {"new", "failed", "ready", "join_handle"}
  BY DEF RecvSelect, Typed, Control, pktVars
<1>1. Pkt!TypeOK'
  BY <1>0 DEF Typed, TypeOK, Pkt!TypeOK, pktVars
<1>2. ASSUME rbuf' \in Buffers PROVE Control' /\ Owed' = 0
  BY <1>0, <1>2, DriverAssumption DEF Control, Owed, pktVars, mainVars
<1>3. ASSUME rbuf' \in Buffers, free' \in Seq(Buffers), content' \in [Buffers -> 0 .. MaxPackets]
      PROVE  TypeOK'
  BY <1>0, <1>1, <1>3 DEF Typed, TypeOK, handleVars, mainVars
<1>4. CASE rbuf # NoBuffer
  <2>1. UNCHANGED <<rbuf, free, content>> /\ rbuf' \in Buffers
    BY <1>4 DEF RecvSelect, Typed, TypeOK
  <2>2. TypeOK'
    BY <1>3, <2>1 DEF Typed, TypeOK
  <2>3. Referenced' \subseteq Referenced \cup {NoBuffer}
    BY <1>0, <2>1 DEF Referenced, pktVars, handleVars
  <2>4. Supply'
    BY <1>0, <1>2, <2>1, <2>3, SupplyStill DEF mainVars
  <2>5. QED
    BY <1>2, <2>1, <2>2, <2>4 DEF Typed
<1>5. CASE rbuf = NoBuffer /\ free # <<>>
  <2>1. rbuf' = Head(free) /\ free' = Tail(free) /\ UNCHANGED content
    BY <1>5 DEF RecvSelect, PacketGet
  <2>2. free \in Seq(Buffers) /\ content \in [Buffers -> 0 .. MaxPackets]
    BY DEF Typed, TypeOK
  <2>3. rbuf' \in Buffers /\ free' \in Seq(Buffers)
    BY <1>5, <2>1, <2>2
  <2>4. TypeOK'
    BY <1>3, <2>1, <2>2, <2>3
  <2>5. rbuf' \in Range(free) /\ Range(free') \subseteq Range(free)
    BY <1>5, <2>1, <2>2, HeadTailRange
  <2>6. Referenced' \subseteq Referenced \cup {NoBuffer}
    BY <1>0, <2>5 DEF Referenced, pktVars, handleVars
  <2>7. Supply'
    BY <1>0, <1>2, <2>3, <2>6, SupplyStill DEF mainVars
  <2>8. QED
    BY <1>2, <2>3, <2>4, <2>7 DEF Typed
<1>6. CASE rbuf = NoBuffer /\ free = <<>>
  <2>1. PICK b \in Buffers : b = rbuf'
    BY <1>0, <1>6, NewBuffer DEF RecvSelect, PacketGet
  <2>2. free' = free /\ content' = [content EXCEPT ![b] = 0]
    BY <1>6, <2>1 DEF RecvSelect, PacketGet
  <2>3. content \in [Buffers -> 0 .. MaxPackets] /\ 0 \in 0 .. MaxPackets /\ free \in Seq(Buffers)
    BY DriverAssumption DEF Typed, TypeOK
  <2>4. TypeOK'
    BY <1>3, <2>1, <2>2, <2>3
  <2>5. /\ Cardinality(Referenced \ {NoBuffer}) + 1 <= received + sessions
        /\ IsFiniteSet(Referenced \ {NoBuffer})
    BY <1>0, <1>6, NewBuffer
  <2>6. Referenced' \ {NoBuffer} \in SUBSET ((Referenced \ {NoBuffer}) \cup {b})
    BY <1>0, <2>1, <2>2 DEF Referenced, pktVars, handleVars
  <2>7. /\ IsFiniteSet((Referenced \ {NoBuffer}) \cup {b})
        /\ Cardinality((Referenced \ {NoBuffer}) \cup {b}) <= Cardinality(Referenced \ {NoBuffer}) + 1
    <3>1. Cardinality(Referenced \ {NoBuffer}) \in Nat
      BY <2>5, FS_CardinalityType
    <3>2. /\ IsFiniteSet((Referenced \ {NoBuffer}) \cup {b})
          /\ \/ Cardinality((Referenced \ {NoBuffer}) \cup {b}) = Cardinality(Referenced \ {NoBuffer})
             \/ Cardinality((Referenced \ {NoBuffer}) \cup {b}) = Cardinality(Referenced \ {NoBuffer}) + 1
      BY <2>5, FS_AddElement, Zenon
    <3>3. QED
      BY <3>1, <3>2
  <2>8. /\ Cardinality(Referenced' \ {NoBuffer}) <= Cardinality((Referenced \ {NoBuffer}) \cup {b})
        /\ IsFiniteSet(Referenced' \ {NoBuffer})
    BY <2>6, <2>7, FS_Subset
  <2>9. PICK c \in Nat, d \in Nat, e \in Nat :
           /\ c = Cardinality(Referenced \ {NoBuffer})
           /\ d = Cardinality((Referenced \ {NoBuffer}) \cup {b})
           /\ e = Cardinality(Referenced' \ {NoBuffer})
    BY <2>5, <2>7, <2>8, FS_CardinalityType
  <2>10. received \in Nat /\ sessions \in Nat
    BY DriverAssumption DEF Typed, TypeOK
  <2>11. e + 0 <= received + sessions
    BY <2>5, <2>7, <2>8, <2>9, <2>10
  <2>12. Supply'
    BY <1>0, <1>2, <2>1, <2>9, <2>11 DEF Supply, mainVars
  <2>13. QED
    BY <1>2, <2>1, <2>4, <2>12 DEF Typed
<1>7. QED
  BY <1>4, <1>5, <1>6

LEMMA StuffTyped == Typed /\ RecvStuff => Typed'
<1> SUFFICES ASSUME Typed, RecvStuff PROVE Typed'
  OBVIOUS
<1>0. /\ rpc = "recv" /\ ppc = "idle" /\ rbuf \in Buffers /\ rpc' \in {"loop", "push"}
      /\ mpc \notin {"new", "failed", "ready", "join_handle"}
      /\ UNCHANGED <<pktVars, free, rbuf, handleVars, mainVars>>
      /\ received' = received + 1
      /\ content' = [content EXCEPT ![rbuf] = received + 1]
  BY DEF RecvStuff, Typed, Control
<1>1. /\ received + 1 \in 0 .. MaxPackets /\ received \in Nat /\ sessions \in Nat
      /\ content \in [Buffers -> 0 .. MaxPackets]
  BY DriverAssumption DEF RecvStuff, Typed, TypeOK
<1>2. Pkt!TypeOK'
  BY <1>0 DEF Typed, TypeOK, Pkt!TypeOK, pktVars
<1>3. TypeOK'
  <2>1. content' \in [Buffers -> 0 .. MaxPackets]
    BY <1>0, <1>1
  <2>2. received' \in 0 .. MaxPackets
    BY <1>0, <1>1
  <2>3. QED
    BY <1>0, <1>2, <2>1, <2>2 DEF Typed, TypeOK, handleVars, mainVars
<1>4. Control'
  BY <1>0 DEF Control, pktVars, mainVars
<1>5. Referenced' \subseteq Referenced \cup {NoBuffer}
  BY <1>0 DEF Referenced, pktVars, handleVars
<1>6. Owed \in Nat /\ Owed = 0 /\ Owed' \in {0, 1}
  BY <1>0, DriverAssumption DEF Owed
<1>7. ASSUME NEW q \in {0, 1}
      PROVE  Cardinality(Referenced' \ {NoBuffer}) + q <= (received + 1) + sessions
  BY <1>1, <1>5, <1>6, SupplyKept
<1>8. Supply'
  BY <1>0, <1>6, <1>7 DEF Supply, mainVars
<1>9. QED
  BY <1>3, <1>4, <1>8 DEF Typed

\* Steps of the receiving thread that leave the buffers alone or drop the one it holds.
LEMMA RecvEndTyped == Typed /\ (RecvNothing \/ RecvExit \/ RecvFail) => Typed'
<1> SUFFICES ASSUME Typed, RecvNothing \/ RecvExit \/ RecvFail PROVE Typed'
  OBVIOUS
<1>0. /\ ppc = "idle" /\ UNCHANGED <<pktVars, free, content, received, handleVars, mainVars>>
      /\ \/ rpc = "recv" /\ rpc' = "loop" /\ rbuf' = rbuf /\ rbuf \in Buffers
         \/ rpc = "loop" /\ rpc' = "off" /\ rbuf' = NoBuffer
  BY DEF RecvNothing, RecvExit, RecvFail, RecvEnd, Typed, Control
<1>1. Pkt!TypeOK'
  BY <1>0 DEF Typed, TypeOK, Pkt!TypeOK, pktVars
<1>2. TypeOK'
  BY <1>0, <1>1 DEF Typed, TypeOK, handleVars, mainVars
<1>3. Control'
  BY <1>0 DEF Typed, Control, pktVars, mainVars
<1>4. Owed' = 0
  BY <1>0, DriverAssumption DEF Owed
<1>5. Referenced' \subseteq Referenced \cup {NoBuffer}
  BY <1>0 DEF Referenced, pktVars, handleVars
<1>6. Supply'
  BY <1>0, <1>4, <1>5, SupplyStill DEF mainVars
<1>7. QED
  BY <1>2, <1>3, <1>6 DEF Typed

\* The steps of push and clear.
LEMMA PutTyped == Typed /\ PutSteps => Typed'
<1> SUFFICES ASSUME Typed, PutSteps PROVE Typed'
  OBVIOUS
<1>1. /\ rpc \in {"push", "pushing"} /\ rbuf \in Buffers
      /\ mpc \notin {"new", "failed", "ready", "join_handle"}
  BY DEF PutSteps, RecvPushBegin, RecvPushWrite, RecvPushEnd, RecvOverflow, RecvCleared,
         Pkt!PushWrite, Pkt!PushPublish, Pkt!ClearHead, Pkt!ClearTail, Typed, Control
<1>2. PutRing /\ UNCHANGED <<free, content, received, handleVars, mainVars>>
  BY DEF PutSteps, RecvPushBegin, RecvPushWrite, RecvPushEnd, RecvOverflow, RecvCleared,
         PutRing, recvVars
<1>3. UNCHANGED <<copied, result>>
  BY <1>2 DEF PutRing, Pkt!PushFull, Pkt!PushLoad, Pkt!PushWrite, Pkt!PushPublish,
              Pkt!ClearHead, Pkt!ClearTail, Pkt!consumer
<1>4. /\ \/ rpc' = "pushing" /\ ppc' # "idle" /\ pvalue' = rbuf /\ rbuf' = rbuf
         \/ rpc' = "loop" /\ ppc' = "idle" /\ rbuf' = NoBuffer
  <2>1. CASE RecvPushBegin
    BY <2>1 DEF RecvPushBegin, Pkt!PushFull, Pkt!PushLoad
  <2>2. CASE RecvPushWrite \/ RecvOverflow
    BY <2>2 DEF RecvPushWrite, RecvOverflow, Pkt!PushWrite, Pkt!ClearHead, Typed, Control, recvVars
  <2>3. CASE RecvPushEnd \/ RecvCleared
    BY <2>3 DEF RecvPushEnd, RecvCleared, Pkt!PushPublish, Pkt!ClearTail
  <2>4. QED
    BY <2>1, <2>2, <2>3 DEF PutSteps
<1>5. Pkt!TypeOK'
  BY <1>1, <1>2, RingTyped DEF Typed, TypeOK
<1>6. TypeOK'
  BY <1>1, <1>2, <1>4, <1>5 DEF Typed, TypeOK, handleVars, mainVars
<1>7. Control'
  BY <1>1, <1>2, <1>4, DriverAssumption DEF Control, mainVars
<1>8. Range(buffer_') \subseteq Range(buffer_) \cup {rbuf}
  <2>1. CASE UNCHANGED buffer_
    BY <2>1
  <2>2. CASE Pkt!PushWrite
    <3>1. /\ buffer_' = [buffer_ EXCEPT ![ptail] = rbuf]
          /\ buffer_ \in [Pkt!Index -> Buffers \cup {NoBuffer}]
      BY <2>2 DEF Pkt!PushWrite, Typed, TypeOK, Pkt!TypeOK, Control
    <3>2. QED
      BY <3>1 DEF Range
  <2>3. QED
    BY <1>2, <2>1, <2>2 DEF PutRing, Pkt!PushFull, Pkt!PushLoad, Pkt!PushPublish,
                            Pkt!ClearHead, Pkt!ClearTail, Pkt!ring
<1>9. Referenced' \subseteq Referenced \cup {NoBuffer}
  BY <1>2, <1>3, <1>4, <1>8 DEF Referenced, handleVars
<1>10. Owed = 1 /\ Owed' = 1
  BY <1>1, <1>4, DriverAssumption DEF Owed
<1>11. Supply'
  BY <1>2, <1>9, <1>10, SupplyStill DEF mainVars
<1>12. QED
  BY <1>6, <1>7, <1>11 DEF Typed

\* The handling thread's steps.
LEMMA HandlerTyped == Typed /\ Handler => Typed'
<1> SUFFICES ASSUME Typed, Handler PROVE Typed'
  OBVIOUS
<1>1. /\ UNCHANGED <<rpc, rbuf, received, content, ppc, pvalue>>
      /\ UNCHANGED <<mpc, sessions, begin, left>>
  BY DEF Handler, HandlePop, HandleBatch, HandleOne, HandleNull, HandleBatchDone, HandleExit,
         Pkt!PopLoadHead, Pkt!PopEmpty, Pkt!BatchReady, Pkt!BatchReloadHead, Pkt!BatchCount,
         Pkt!CopyOne, Pkt!PopAdvance, Pkt!producer, recvVars, mainVars, pktVars
<1>2. Control' /\ Owed' = Owed
  BY <1>1 DEF Typed, Control, Owed
<1>3. TypeOK' /\ Referenced' \subseteq Referenced \cup {NoBuffer} => Typed'
  BY <1>1, <1>2, SupplyStill DEF Typed
<1>4. CASE HandlePop
  <2>1. /\ UNCHANGED <<buffer_, free, hpc, todo, handled, cloud>>
        /\ \/ Pkt!PopLoadHead \/ Pkt!PopEmpty \/ Pkt!BatchReady \/ Pkt!BatchReloadHead
           \/ Pkt!BatchCount \/ Pkt!CopyOne
    BY <1>4 DEF HandlePop, handleVars, Pkt!PopLoadHead, Pkt!PopEmpty, Pkt!BatchReady,
                Pkt!BatchReloadHead, Pkt!BatchCount, Pkt!CopyOne, Pkt!ring
  <2>2. Pkt!TypeOK'
    BY <2>1, RingTyped DEF Typed, TypeOK
  <2>3. TypeOK'
    BY <1>1, <2>1, <2>2 DEF Typed, TypeOK
  <2>4. /\ buffer_ \in [Pkt!Index -> Buffers \cup {NoBuffer}]
        /\ copied \in Seq(Buffers \cup {NoBuffer}) /\ chead \in Pkt!Index
    BY DEF Typed, TypeOK, Pkt!TypeOK
  <2>5. /\ Range(copied') \subseteq Range(copied) \cup Range(buffer_)
        /\ Range(result') \subseteq Range(result)
    <3>1. CASE Pkt!CopyOne
      <4>1. /\ Capacity \in Nat /\ Capacity >= 2
            /\ \A n \in Nat : n % Capacity \in 0 .. (Capacity - 1)
        BY DriverAssumption
      <4>2. chead + Len(copied) \in Nat
        BY <2>4, <4>1 DEF Pkt!Index
      <4>3. Pkt!Advance(chead, Len(copied)) \in Pkt!Index
        BY <4>1, <4>2 DEF Pkt!Advance, Pkt!Index
      <4>4. buffer_[Pkt!Advance(chead, Len(copied))] \in Range(buffer_)
        BY <2>4, <4>3 DEF Range
      <4>5. Range(copied') = Range(copied) \cup {buffer_[Pkt!Advance(chead, Len(copied))]}
        BY <2>4, <3>1, AppendRange DEF Pkt!CopyOne
      <4>6. QED
        BY <3>1, <4>4, <4>5 DEF Pkt!CopyOne
    <3>2. CASE UNCHANGED copied \/ copied' = <<>>
      BY <2>1, <3>2 DEF Range, Pkt!PopLoadHead, Pkt!PopEmpty, Pkt!BatchReady,
                        Pkt!BatchReloadHead, Pkt!BatchCount, Pkt!CopyOne
    <3>3. QED
      BY <2>1, <3>1, <3>2 DEF Pkt!PopLoadHead, Pkt!PopEmpty, Pkt!BatchReady,
                              Pkt!BatchReloadHead, Pkt!BatchCount
  <2>6. Referenced' \subseteq Referenced \cup {NoBuffer}
    BY <1>1, <2>1, <2>5 DEF Referenced
  <2>7. QED
    BY <1>3, <2>3, <2>6
<1>5. CASE HandleBatch
  <2>1. /\ UNCHANGED <<buffer_, copied, free, handled, cloud>>
        /\ Pkt!PopAdvance /\ result' = copied /\ todo' = copied /\ hpc' = "decode"
    BY <1>5 DEF HandleBatch, Pkt!PopAdvance
  <2>2. Pkt!TypeOK'
    BY <2>1, RingTyped DEF Typed, TypeOK
  <2>3. TypeOK'
    BY <1>1, <2>1, <2>2 DEF Typed, TypeOK, Pkt!TypeOK
  <2>4. Referenced' \subseteq Referenced \cup {NoBuffer}
    BY <1>1, <2>1 DEF Referenced
  <2>5. QED
    BY <1>3, <2>3, <2>4
<1>6. CASE HandleOne
  <2>1. /\ todo \in Seq(Buffers \cup {NoBuffer}) /\ todo # <<>> /\ Head(todo) # NoBuffer
        /\ free \in Seq(Buffers) /\ handled \in Seq(0 .. MaxPackets)
        /\ cloud \subseteq 0 .. MaxPackets
        /\ content \in [Buffers -> 0 .. MaxPackets]
    BY <1>6 DEF HandleOne, Typed, TypeOK
  <2>2. PICK b \in Buffers : b = Head(todo)
    BY <2>1
  <2>3. /\ handled' = Append(handled, content[b])
        /\ cloud' \subseteq cloud \cup {content[b]}
        /\ free' = free \/ free' = Append(free, b)
        /\ todo' = Tail(todo) /\ hpc' = hpc /\ UNCHANGED pktVars
    BY <1>6, <2>2 DEF HandleOne
  <2>4. Pkt!TypeOK'
    BY <2>3 DEF Typed, TypeOK, Pkt!TypeOK, pktVars
  <2>5. content[b] \in 0 .. MaxPackets
    BY <2>1
  <2>6. handled' \in Seq(0 .. MaxPackets) /\ cloud' \subseteq 0 .. MaxPackets
    BY <2>1, <2>3, <2>5
  <2>7. free' \in Seq(Buffers) /\ todo' \in Seq(Buffers \cup {NoBuffer})
    <3>1. Append(free, b) \in Seq(Buffers)
      BY <2>1
    <3>2. Tail(todo) \in Seq(Buffers \cup {NoBuffer})
      BY <2>1, HeadTailProperties
    <3>3. QED
      BY <2>1, <2>3, <3>1, <3>2
  <2>8. TypeOK'
    BY <1>1, <2>3, <2>4, <2>6, <2>7 DEF Typed, TypeOK
  <2>9. Range(todo') \subseteq Range(todo) /\ b \in Range(todo)
    BY <2>1, <2>2, <2>3, HeadTailRange
  <2>10. Range(free') \subseteq Range(free) \cup {b}
    BY <2>1, <2>3, AppendRange
  <2>11. Referenced' \subseteq Referenced \cup {NoBuffer}
    BY <1>1, <2>3, <2>9, <2>10 DEF Referenced, pktVars
  <2>12. QED
    BY <1>3, <2>8, <2>11
<1>7. CASE HandleNull \/ HandleBatchDone \/ HandleExit
  <2>1. /\ UNCHANGED <<pktVars, free, todo, handled, cloud>>
        /\ hpc' \in {"off", "loop", "crashed"}
    BY <1>7 DEF HandleNull, HandleBatchDone, HandleExit
  <2>2. TypeOK'
    BY <1>1, <2>1 DEF Typed, TypeOK, Pkt!TypeOK, pktVars
  <2>3. Referenced' \subseteq Referenced \cup {NoBuffer}
    BY <1>1, <2>1 DEF Referenced, pktVars
  <2>4. QED
    BY <1>3, <2>2, <2>3
<1>8. QED
  BY <1>4, <1>5, <1>6, <1>7 DEF Handler

\* Initially nothing is referred to.
LEMMA InitTyped == Init => Typed
<1> SUFFICES ASSUME Init PROVE Typed
  OBVIOUS
<1>1. /\ Capacity \in Nat /\ Capacity >= 2 /\ 0 \in 0 .. MaxPackets /\ 0 \in 0 .. MaxSessions
  BY DriverAssumption
<1>2. 0 \in Pkt!Index
  BY <1>1 DEF Pkt!Index
<1>3. Pkt!TypeOK
  BY <1>2 DEF Init, Pkt!Init, Pkt!TypeOK, Pkt!ProducerPlaces, Pkt!ConsumerPlaces
<1>4. TypeOK
  BY <1>1, <1>3 DEF Init, TypeOK
<1>5. Control
  BY DEF Init, Pkt!Init, Control
<1>6. Referenced \ {NoBuffer} = {}
  BY DEF Init, Pkt!Init, Referenced, Range
<1>7. Cardinality(Referenced \ {NoBuffer}) = 0
  BY <1>6, FS_EmptySet
<1>8. Supply
  BY <1>7 DEF Init, Supply, Owed
<1>9. QED
  BY <1>4, <1>5, <1>8 DEF Typed

LEMMA NextTyped == Typed /\ [Next]_vars => Typed'
<1> SUFFICES ASSUME Typed, [Next]_vars PROVE Typed'
  OBVIOUS
<1>1. CASE Receiver
  BY <1>1, SelectTyped, StuffTyped, PutTyped, RecvEndTyped DEF Receiver
<1>2. CASE UNCHANGED vars
  BY <1>2 DEF vars, pktVars, recvVars, handleVars, mainVars, Typed, TypeOK, Pkt!TypeOK,
              Control, Supply, Owed, Referenced
<1>3. QED
  BY <1>1, <1>2, CallerTyped, HandlerTyped DEF Next

\* Every variable keeps its type, in races too: the indices of pkt_queue_ stay below
\* Capacity, and the free queue holds buffers only, never the null one that a raced
\* popBatch may return.
THEOREM TypeCorrect == Spec => []TypeOK
<1>1. Typed => TypeOK
  BY DEF Typed
<1>2. QED
  BY <1>1, InitTyped, NextTyped, PTL DEF Spec

-----------------------------------------------------------------------------
(* The point cloud under construction *)

\* base was a length of handled and begin a number received, and outside a session no point is left over and
\* nobody decodes.
Session ==
  /\ base \in 0 .. Len(handled) /\ begin \in 0 .. received
  /\ mpc \in {"new", "failed", "ready"} => cloud = {} /\ hpc = "off"

\* What is in the cloud was decoded in this session.
DecodedHere == mpc # "ready" => cloud \subseteq {handled[i] : i \in (base + 1) .. Len(handled)}

LEMMA InitSession == Init => Session /\ DecodedHere
BY DEF Init, Session, DecodedHere

\* Decoding adds the new last element of handled to the cloud; starting a session
\* moves base while the cloud is empty.
LEMMA NextSession ==
  TypeOK /\ Session /\ DecodedHere /\ [Next]_vars => (Session /\ DecodedHere)'
<1> SUFFICES ASSUME TypeOK, Session, DecodedHere, [Next]_vars PROVE (Session /\ DecodedHere)'
  OBVIOUS
<1> USE DEF Session, DecodedHere
<1>0. handled \in Seq(0 .. MaxPackets) /\ received \in Nat
  BY DriverAssumption DEF TypeOK
<1>1. CASE DriverInit \/ StopInput \/ JoinRecv
  BY <1>1 DEF DriverInit, StopInput, JoinRecv, handleVars, recvVars
<1>2. CASE Start
  BY <1>0, <1>2 DEF Start
<1>3. CASE JoinHandle
  BY <1>3 DEF JoinHandle, recvVars
<1>4. CASE Receiver
  <2>1. UNCHANGED <<handleVars, mainVars>> /\ received' \in {received, received + 1}
    BY <1>4 DEF Receiver, RecvSelect, RecvStuff, RecvNothing, PutSteps, RecvPushBegin, recvVars,
                RecvPushWrite, RecvPushEnd, RecvOverflow, RecvCleared, RecvExit, RecvFail, RecvEnd
  <2>2. QED
    BY <1>0, <2>1 DEF handleVars, mainVars
<1>5. CASE HandlePop \/ HandleBatch \/ HandleNull \/ HandleBatchDone \/ HandleExit
  BY <1>5 DEF HandlePop, HandleBatch, HandleNull, HandleBatchDone, HandleExit,
              handleVars, mainVars, recvVars
<1>6. CASE HandleOne
  <2>1. PICK x : /\ handled' = Append(handled, x)
                 /\ cloud' \subseteq cloud \cup {x}
                 /\ hpc = "decode" /\ UNCHANGED <<base, mainVars>>
    BY <1>6 DEF HandleOne
  <2>2. /\ Len(handled') = Len(handled) + 1
        /\ handled'[Len(handled) + 1] = x
        /\ \A i \in 1 .. Len(handled) : handled'[i] = handled[i]
        /\ Len(handled) \in Nat
    BY <1>0, <2>1
  <2>3. mpc \notin {"new", "failed", "ready"}
    BY <2>1
  <2>4. base' \in 0 .. Len(handled')
    BY <2>1, <2>2
  <2>5. PICK n \in Nat : n = Len(handled)
    BY <2>2
  <2>6. {handled[i] : i \in (base + 1) .. n} \cup {x}
          \subseteq {handled'[i] : i \in (base + 1) .. (n + 1)}
    BY <2>2, <2>5
  <2>7. cloud \subseteq {handled[i] : i \in (base + 1) .. n}
    BY <2>3, <2>5
  <2>8. cloud' \subseteq {handled'[i] : i \in (base' + 1) .. Len(handled')}
    BY <2>1, <2>2, <2>5, <2>6, <2>7
  <2>9. received' = received
    BY <1>6 DEF HandleOne, recvVars
  <2>10. QED
    BY <2>1, <2>3, <2>4, <2>8, <2>9 DEF mainVars
<1>7. CASE UNCHANGED vars
  BY <1>7 DEF vars, handleVars, mainVars, recvVars
<1>8. QED
  BY <1>1, <1>2, <1>3, <1>4, <1>5, <1>6, <1>7 DEF Next, Caller, Handler

-----------------------------------------------------------------------------
(* The ring, as long as no clear() ran during a popBatch *)

Ring == INSTANCE SyncQueueProofs WITH Value <- Buffers, NoValue <- NoBuffer

\* The index lemmas of SyncQueueProofs, for pkt_queue_.
LEMMA AdvanceValue ==
  ASSUME NEW i \in Pkt!Index, NEW k \in 0 .. Capacity
  PROVE  /\ Pkt!Advance(i, k) = IF i + k < Capacity THEN i + k ELSE i + k - Capacity
         /\ Pkt!Advance(i, k) \in Pkt!Index
<1>1. Ring!CapacityAssumption
  BY DriverAssumption DEF Ring!CapacityAssumption
<1>2. QED
  BY <1>1, Ring!AdvanceValue DEF Pkt!Advance, Pkt!Index, Ring!Advance, Ring!Index

LEMMA AvailableBound ==
  ASSUME NEW h \in Pkt!Index, NEW t \in Pkt!Index
  PROVE  Pkt!Available(h, t) \in 0 .. (Capacity - 1)
<1>1. Ring!CapacityAssumption
  BY DriverAssumption DEF Ring!CapacityAssumption
<1>2. QED
  BY <1>1, Ring!AvailableBound DEF Pkt!Available, Pkt!Index, Ring!Available, Ring!Index

LEMMA TailNotFilled ==
  ASSUME NEW h \in Pkt!Index, NEW t \in Pkt!Index, NEW k \in 0 .. (Pkt!Available(h, t) - 1)
  PROVE  Pkt!Advance(h, k) # t
<1>1. Ring!CapacityAssumption
  BY DriverAssumption DEF Ring!CapacityAssumption
<1>2. QED
  BY <1>1, Ring!TailNotFilled DEF Pkt!Available, Pkt!Advance, Pkt!Index,
                                  Ring!Available, Ring!Advance, Ring!Index

LEMMA PublishGrows ==
  ASSUME NEW h \in Pkt!Index, NEW t \in Pkt!Index, Pkt!Advance(t, 1) # h
  PROVE  /\ Pkt!Advance(t, 1) \in Pkt!Index
         /\ Pkt!Available(h, Pkt!Advance(t, 1)) = Pkt!Available(h, t) + 1
         /\ Pkt!Advance(h, Pkt!Available(h, t)) = t
<1>1. Ring!CapacityAssumption
  BY DriverAssumption DEF Ring!CapacityAssumption
<1>2. QED
  BY <1>1, Ring!PublishGrows DEF Pkt!Available, Pkt!Advance, Pkt!Index,
                                 Ring!Available, Ring!Advance, Ring!Index

LEMMA TakeShrinks ==
  ASSUME NEW h \in Pkt!Index, NEW t \in Pkt!Index, NEW n \in 0 .. Pkt!Available(h, t)
  PROVE  /\ Pkt!Advance(h, n) \in Pkt!Index
         /\ Pkt!Available(Pkt!Advance(h, n), t) = Pkt!Available(h, t) - n
         /\ \A k \in 0 .. (Pkt!Available(h, t) - n) :
              Pkt!Advance(Pkt!Advance(h, n), k) = Pkt!Advance(h, n + k)
<1>1. Ring!CapacityAssumption
  BY DriverAssumption DEF Ring!CapacityAssumption
<1>2. QED
  BY <1>1, Ring!TakeShrinks DEF Pkt!Available, Pkt!Advance, Pkt!Index,
                                Ring!Available, Ring!Advance, Ring!Index

LEMMA RoomStays ==
  ASSUME NEW h \in Pkt!Index, NEW t \in Pkt!Index, NEW n \in 0 .. Pkt!Available(h, t),
         Pkt!Advance(t, 1) # h
  PROVE  Pkt!Advance(t, 1) # Pkt!Advance(h, n)
<1>1. Ring!CapacityAssumption
  BY DriverAssumption DEF Ring!CapacityAssumption
<1>2. QED
  BY <1>1, Ring!RoomStays DEF Pkt!Available, Pkt!Advance, Pkt!Index,
                              Ring!Available, Ring!Advance, Ring!Index

\* What each thread learned from its loads stays true until it acts on it.  In the
\* middle of clear() the handling thread is outside popBatch.
RingIntact ==
  /\ ppc \in {"write", "publish"} => ptail = tail_ /\ Pkt!Advance(tail_, 1) # head_
  /\ ppc = "publish" => buffer_[ptail] = pvalue
  /\ ppc = "clear" => cpc = "idle" /\ head_ = 0
  /\ cpc # "idle" => hpc = "loop"
  /\ hpc \notin {"decode", "crashed"} => todo = <<>>
  /\ cpc \in {"loaded", "reloadtail"} => chead = head_
  /\ cpc = "copy" =>
       /\ chead = head_
       /\ count <= Pkt!Available(head_, tail_)
       /\ Len(copied) <= count
       /\ \A k \in 1 .. Len(copied) : copied[k] = buffer_[Pkt!Advance(head_, k - 1)]

\* The producer's steps.
LEMMA PutRingIntact ==
  ASSUME Typed, RingIntact, PutSteps, ~raced'
  PROVE  RingIntact'
<1> USE DEF RingIntact
<1>1. /\ UNCHANGED <<hpc, todo, cpc, chead, count, copied, result>> /\ ~(ppc' = "clear" /\ cpc' # "idle")
      /\ head_ \in Pkt!Index /\ tail_ \in Pkt!Index /\ ptail \in Pkt!Index
      /\ count \in Nat /\ copied \in Seq(Buffers \cup {NoBuffer})
      /\ buffer_ \in [Pkt!Index -> Buffers \cup {NoBuffer}]
  <2>1. UNCHANGED <<hpc, todo>> /\ TrackRace
    BY DEF PutSteps, RecvPushBegin, RecvPushWrite, RecvPushEnd, RecvOverflow, RecvCleared,
           handleVars
  <2>2. UNCHANGED <<cpc, chead, count, copied, result>>
    BY DEF PutSteps, RecvPushBegin, RecvPushWrite, RecvPushEnd, RecvOverflow, RecvCleared,
           Pkt!PushFull, Pkt!PushLoad, Pkt!PushWrite, Pkt!PushPublish,
           Pkt!ClearHead, Pkt!ClearTail, Pkt!consumer
  <2>3. QED
    BY <2>1, <2>2 DEF TrackRace, Typed, TypeOK, Pkt!TypeOK
<1>2. CASE RecvPushBegin
  BY <1>1, <1>2 DEF RecvPushBegin, Pkt!PushFull, Pkt!PushLoad, Pkt!ring
<1>3. CASE RecvPushWrite
  <2>1. /\ ppc = "write" /\ ppc' = "publish" /\ ptail = tail_
        /\ buffer_' = [buffer_ EXCEPT ![tail_] = pvalue]
        /\ UNCHANGED <<head_, tail_, pvalue, ptail>>
    BY <1>3 DEF RecvPushWrite, Pkt!PushWrite
  <2>2. ASSUME cpc = "copy", NEW k \in 1 .. Len(copied)
        PROVE  buffer_'[Pkt!Advance(head_, k - 1)] = buffer_[Pkt!Advance(head_, k - 1)]
    <3>1. Pkt!Available(head_, tail_) \in 0 .. (Capacity - 1)
      BY <1>1, AvailableBound
    <3>2. k - 1 \in 0 .. (Pkt!Available(head_, tail_) - 1) /\ k - 1 \in 0 .. Capacity
      BY <1>1, <2>2, <3>1, DriverAssumption
    <3>3. /\ Pkt!Advance(head_, k - 1) # tail_
          /\ Pkt!Advance(head_, k - 1) \in Pkt!Index
      BY <1>1, <3>2, TailNotFilled, AdvanceValue
    <3>4. QED
      BY <1>1, <2>1, <3>3
  <2>3. buffer_'[ptail'] = pvalue'
    BY <1>1, <2>1
  <2>4. QED
    BY <1>1, <2>1, <2>2, <2>3
<1>4. CASE RecvPushEnd
  <2>1. /\ ppc = "publish" /\ ppc' = "idle" /\ ptail = tail_
        /\ tail_' = Pkt!Advance(tail_, 1) /\ UNCHANGED <<buffer_, head_>>
        /\ Pkt!Advance(tail_, 1) # head_
    BY <1>4 DEF RecvPushEnd, Pkt!PushPublish
  <2>2. Pkt!Available(head_, Pkt!Advance(tail_, 1)) = Pkt!Available(head_, tail_) + 1
    BY <1>1, <2>1, PublishGrows
  <2>3. Pkt!Available(head_, tail_) \in Nat
    BY <1>1, AvailableBound, DriverAssumption
  <2>4. cpc = "copy" => count <= Pkt!Available(head_, Pkt!Advance(tail_, 1))
    BY <1>1, <2>2, <2>3
  <2>5. cpc' = "copy" => count' <= Pkt!Available(head_', tail_')
    BY <1>1, <2>1, <2>4
  <2>6. QED
    BY <1>1, <2>1, <2>5
<1>5. CASE RecvOverflow
  BY <1>1, <1>5 DEF RecvOverflow, Pkt!ClearHead
<1>6. CASE RecvCleared
  BY <1>1, <1>6 DEF RecvCleared, Pkt!ClearTail
<1>7. QED
  BY <1>2, <1>3, <1>4, <1>5, <1>6 DEF PutSteps

\* The consumer's steps.
LEMMA PopRingIntact ==
  ASSUME Typed, RingIntact, HandlePop \/ HandleBatch, ~raced'
  PROVE  RingIntact'
<1> USE DEF RingIntact
<1>1. /\ ~(ppc' = "clear" /\ cpc' # "idle") /\ hpc = "loop" /\ todo = <<>>
      /\ UNCHANGED <<buffer_, tail_, ppc, pvalue, ptail>>
      /\ head_ \in Pkt!Index /\ tail_ \in Pkt!Index /\ chead \in Pkt!Index
      /\ count \in Nat /\ copied \in Seq(Buffers \cup {NoBuffer})
  BY DEF HandlePop, HandleBatch, Pkt!PopLoadHead, Pkt!PopEmpty, Pkt!BatchReady,
         Pkt!BatchReloadHead, Pkt!BatchCount, Pkt!CopyOne, Pkt!PopAdvance, Pkt!ring,
         Pkt!producer, TrackRace, Typed, TypeOK, Pkt!TypeOK
<1>2. ASSUME UNCHANGED <<head_, hpc, todo>>,
             Pkt!PopLoadHead \/ Pkt!PopEmpty \/ Pkt!BatchReady \/ Pkt!BatchReloadHead
      PROVE  RingIntact'
  BY <1>1, <1>2 DEF Pkt!PopLoadHead, Pkt!PopEmpty, Pkt!BatchReady, Pkt!BatchReloadHead
<1>3. ASSUME UNCHANGED <<head_, hpc, todo>>, Pkt!BatchCount PROVE RingIntact'
  <2>1. chead = head_ /\ chead' = head_ /\ cpc' = "copy" /\ copied' = <<>>
    BY <1>3 DEF Pkt!BatchCount
  <2>2. Pkt!Available(head_, tail_) \in Nat /\ MaxCount \in Nat
    BY <1>1, AvailableBound, DriverAssumption
  <2>3. PICK n \in Nat : n = count' /\ n <= Pkt!Available(head_, tail_)
    BY <1>3, <2>1, <2>2 DEF Pkt!BatchCount
  <2>4. count' <= Pkt!Available(head_', tail_')
    BY <1>1, <1>3, <2>3
  <2>5. Len(copied') <= count' /\ Len(copied') = 0
    BY <2>1, <2>3
  <2>6. QED
    BY <1>1, <1>3, <2>1, <2>4, <2>5
<1>4. ASSUME UNCHANGED <<head_, hpc, todo>>, Pkt!CopyOne PROVE RingIntact'
  <2>1. /\ cpc = "copy" /\ chead = head_ /\ Len(copied) < count
        /\ copied' = Append(copied, buffer_[Pkt!Advance(head_, Len(copied))])
        /\ UNCHANGED <<cpc, chead, count>>
    BY <1>4 DEF Pkt!CopyOne
  <2>2. PICK n \in Nat : n = Len(copied)
    BY <1>1
  <2>3. /\ Len(copied') = n + 1
        /\ copied'[n + 1] = buffer_[Pkt!Advance(head_, n)]
        /\ \A k \in 1 .. n : copied'[k] = copied[k]
    BY <1>1, <2>1, <2>2
  <2>4. n + 1 <= count
    BY <1>1, <2>1, <2>2
  <2>5. ASSUME NEW k \in 1 .. (n + 1)
        PROVE  copied'[k] = buffer_[Pkt!Advance(head_, k - 1)]
    <3>1. CASE k = n + 1
      BY <2>3, <3>1
    <3>2. CASE k # n + 1
      BY <2>1, <2>2, <2>3, <3>2
    <3>3. QED
      BY <3>1, <3>2
  <2>6. \A k \in 1 .. Len(copied') : copied'[k] = buffer_'[Pkt!Advance(head_', k - 1)]
    BY <1>1, <1>4, <2>3, <2>5
  <2>7. Len(copied') <= count'
    BY <2>1, <2>3, <2>4
  <2>8. count' <= Pkt!Available(head_', tail_') /\ chead' = head_'
    BY <1>1, <1>4, <2>1
  <2>9. QED
    BY <1>1, <1>4, <2>1, <2>6, <2>7, <2>8
<1>5. CASE HandleBatch
  <2>1. /\ cpc = "copy" /\ chead = head_ /\ count <= Pkt!Available(head_, tail_)
        /\ head_' = Pkt!Advance(head_, count) /\ cpc' = "idle" /\ hpc' = "decode"
    BY <1>5 DEF HandleBatch, Pkt!PopAdvance
  <2>2. count \in 0 .. Pkt!Available(head_, tail_)
    BY <1>1, <2>1, AvailableBound, DriverAssumption
  <2>3. Pkt!Advance(tail_, 1) # head_ => Pkt!Advance(tail_, 1) # head_'
    BY <1>1, <2>1, <2>2, RoomStays
  <2>4. QED
    BY <1>1, <2>1, <2>3
<1>6. CASE HandlePop
  BY <1>2, <1>3, <1>4, <1>6 DEF HandlePop, handleVars, Pkt!PopLoadHead, Pkt!PopEmpty,
     Pkt!BatchReady, Pkt!BatchReloadHead, Pkt!BatchCount, Pkt!CopyOne, Pkt!ring
<1>7. QED
  BY <1>5, <1>6

\* The steps outside the ring.
LEMMA NextRingIntact ==
  ASSUME Typed, Session, RingIntact, [Next]_vars, ~raced'
  PROVE  RingIntact'
<1>1. CASE PutSteps
  BY <1>1, PutRingIntact
<1>2. CASE HandlePop \/ HandleBatch
  BY <1>2, PopRingIntact
<1>3. CASE HandleOne \/ HandleNull \/ HandleBatchDone \/ HandleExit
  BY <1>3 DEF HandleOne, HandleNull, HandleBatchDone, HandleExit, pktVars, RingIntact
<1>4. CASE RecvSelect \/ RecvStuff \/ RecvNothing \/ RecvExit \/ RecvFail
  BY <1>4 DEF RecvSelect, RecvStuff, RecvNothing, RecvExit, RecvFail, RecvEnd, pktVars,
              handleVars, RingIntact
<1>5. CASE Caller
  BY <1>5 DEF Caller, DriverInit, Start, StopInput, JoinRecv, JoinHandle, pktVars,
              handleVars, RingIntact, Session
<1>6. CASE UNCHANGED vars
  BY <1>6 DEF vars, pktVars, handleVars, RingIntact
<1>7. QED
  BY <1>1, <1>2, <1>3, <1>4, <1>5, <1>6 DEF Next, Receiver, Handler

-----------------------------------------------------------------------------
(* The way of a buffer: rbuf, pkt_queue_ (q), pkt_batch (t), free_pkt_queue_ (f) *)

\* While the indices are between the two stores of clear(), the queue counts as empty.
Queued == IF ppc = "clear" THEN <<>> ELSE Pkt!Contents

\* The buffer whose datagram is about to be queued.
Stuffed == IF rpc \in {"push", "pushing"} THEN {rbuf} ELSE {}

\* No buffer is at two of these places, nor twice on the free queue.
Apart(q, t, f, r) ==
  /\ Range(q) \cup Range(t) \subseteq Buffers
  /\ \A i, j \in DOMAIN f : f[i] = f[j] => i = j
  /\ Range(f) \cap (Range(t) \cup Range(q)) = {}
  /\ r \notin Range(f) \cup Range(t) \cup Range(q)

\* Datagram numbers (c[b] for buffer b) grow along the way: decoded (h), popped, queued,
\* stuffed (s).  So no buffer is twice on its way either.  All come from K.
InOrder(q, t, w, c, h, n, K) ==
  /\ \A b \in Buffers : c[b] <= n
  /\ \A i \in DOMAIN h : h[i] <= n
  /\ \A i, j \in DOMAIN h : i < j => h[i] < h[j]
  /\ \A i \in DOMAIN h : \A b \in Range(t) \cup Range(q) \cup w : h[i] < c[b]
  /\ \A i, j \in DOMAIN t : i < j => c[t[i]] < c[t[j]]
  /\ \A i, j \in DOMAIN q : i < j => c[q[i]] < c[q[j]]
  /\ \A b \in Range(t), d \in Range(q) : c[b] < c[d]
  /\ \A b \in Range(t) \cup Range(q), d \in w : c[b] < c[d]
  /\ \A b \in Range(t) \cup Range(q) \cup w : c[b] \in K

\* A queue emptied by clear(), and a stuffed buffer that was dropped.
LEMMA Dropped ==
  ASSUME NEW q, NEW t, NEW f, NEW r, NEW w, NEW c, NEW h, NEW n, NEW K,
         Apart(q, t, f, r), InOrder(q, t, w, c, h, n, K),
         NEW qq \in {q, <<>>}, NEW rr \in {r, NoBuffer}, NEW ss \in SUBSET w,
         NoBuffer \notin Range(f)
  PROVE  Apart(qq, t, f, rr) /\ InOrder(qq, t, ss, c, h, n, K)
<1>1. Range(qq) \subseteq Range(q)
  BY DEF Range
<1>2. \A i, j \in DOMAIN qq : i < j => c[qq[i]] < c[qq[j]]
  BY DEF InOrder
<1>3. Apart(qq, t, f, rr)
  BY <1>1, DriverAssumption DEF Apart
<1>4. InOrder(qq, t, ss, c, h, n, K)
  BY <1>1, <1>2 DEF InOrder
<1>5. QED
  BY <1>3, <1>4

\* recvmmsg writes datagram n + 1 into r; it may be too short to be queued.
LEMMA Written ==
  ASSUME NEW q, NEW t, NEW f, NEW r \in Buffers, NEW c \in [Buffers -> Nat], NEW n \in Nat,
         NEW h \in Seq(Nat), NEW K, n + 1 \in K, Apart(q, t, f, r), InOrder(q, t, {}, c, h, n, K),
         NEW ss, ss = {} \/ ss = {r}, NEW d, NEW m, m = n + 1, d[r] = m,
         \A b \in Buffers \ {r} : d[b] = c[b]
  PROVE  InOrder(q, t, ss, d, h, m, K)
<1>1. d[r] = n + 1 /\ \A b \in Buffers \ {r} : d[b] = c[b] /\ c[b] <= n /\ c[b] \in Nat
  BY DEF InOrder
<1>2. /\ \A b \in Range(t) \cup Range(q) : b \in Buffers \ {r}
      /\ \A i \in DOMAIN t : t[i] \in Range(t)
      /\ \A i \in DOMAIN q : q[i] \in Range(q)
  BY DEF Apart, Range
<1>3. \A i \in DOMAIN h : h[i] \in Nat /\ h[i] <= n
  BY DEF InOrder
<1>4. \A b \in Buffers : d[b] <= n + 1
  BY <1>1
<1>5. \A i \in DOMAIN h : h[i] <= n + 1 /\ h[i] < n + 1
  BY <1>3
<1>6. \A i, j \in DOMAIN h : i < j => h[i] < h[j]
  BY DEF InOrder
<1>7. \A i \in DOMAIN h : \A b \in Range(t) \cup Range(q) \cup ss : h[i] < d[b]
  BY <1>1, <1>2, <1>5 DEF InOrder
<1>8. \A i, j \in DOMAIN t : i < j => d[t[i]] < d[t[j]]
  BY <1>1, <1>2 DEF InOrder
<1>9. \A i, j \in DOMAIN q : i < j => d[q[i]] < d[q[j]]
  BY <1>1, <1>2 DEF InOrder
<1>10. \A b \in Range(t), e \in Range(q) : d[b] < d[e]
  BY <1>1, <1>2 DEF InOrder
<1>11. \A b \in Range(t) \cup Range(q), e \in ss : d[b] < d[e]
  BY <1>1, <1>2
<1>12. \A b \in Range(t) \cup Range(q) \cup ss : d[b] \in K
  BY <1>1, <1>2 DEF InOrder
<1>13. QED
  BY <1>4, <1>5, <1>6, <1>7, <1>8, <1>9, <1>10, <1>11, <1>12 DEF InOrder

\* packetGet takes the front of the free queue, or a buffer b nobody refers to.
LEMMA Taken ==
  ASSUME NEW q, NEW t, NEW f \in Seq(Buffers), f # <<>>, Apart(q, t, f, NoBuffer)
  PROVE  Apart(q, t, Tail(f), Head(f))
<1>1. /\ Head(f) = f[1] /\ Len(f) \in Nat /\ Len(f) >= 1 /\ Tail(f) \in Seq(Buffers)
      /\ Len(Tail(f)) = Len(f) - 1
      /\ \A i \in 1 .. (Len(f) - 1) : Tail(f)[i] = f[i + 1]
      /\ DOMAIN f = 1 .. Len(f) /\ DOMAIN Tail(f) = 1 .. (Len(f) - 1)
  BY HeadTailProperties, EmptySeq, LenProperties
<1>2. Head(f) \in Range(f) /\ Range(Tail(f)) \subseteq Range(f)
  BY HeadTailRange
<1>3. \A i, j \in 1 .. (Len(f) - 1) : Tail(f)[i] = Tail(f)[j] => i = j
  BY <1>1 DEF Apart
<1>4. \A i \in 1 .. (Len(f) - 1) : Tail(f)[i] # Head(f)
  BY <1>1 DEF Apart
<1>5. Head(f) \notin Range(Tail(f))
  BY <1>1, <1>4 DEF Range
<1>6. QED
  BY <1>1, <1>2, <1>3, <1>5 DEF Apart

LEMMA Allocated ==
  ASSUME NEW q, NEW t, NEW f, NEW c \in [Buffers -> Nat], NEW h, NEW n \in Nat, NEW K,
         NEW b \in Buffers,
         b \notin Range(q) \cup Range(t) \cup Range(f),
         Apart(q, t, f, NoBuffer), InOrder(q, t, {}, c, h, n, K)
  PROVE  Apart(q, t, f, b) /\ InOrder(q, t, {}, [c EXCEPT ![b] = 0], h, n, K)
<1> DEFINE d == [c EXCEPT ![b] = 0]
<1>1. d[b] = 0 /\ \A a \in Buffers \ {b} : d[a] = c[a]
  OBVIOUS
<1>2. /\ \A a \in Range(t) \cup Range(q) : d[a] = c[a]
      /\ \A i \in DOMAIN t : t[i] \in Range(t)
      /\ \A i \in DOMAIN q : q[i] \in Range(q)
  BY <1>1 DEF Apart, Range
<1> HIDE DEF d
<1>3. InOrder(q, t, {}, d, h, n, K)
  BY <1>1, <1>2 DEF InOrder
<1>4. QED
  BY <1>3 DEF Apart, d

\* push appends the stuffed buffer.
LEMMA Published ==
  ASSUME NEW q \in Seq(Buffers \cup {NoBuffer}), NEW t, NEW f \in Seq(Buffers), NEW r \in Buffers,
         NEW c, NEW h, NEW n, NEW K, Apart(q, t, f, r), InOrder(q, t, {r}, c, h, n, K)
  PROVE  Apart(Append(q, r), t, f, NoBuffer) /\ InOrder(Append(q, r), t, {}, c, h, n, K)
<1> DEFINE p == Append(q, r)
<1>1. /\ DOMAIN p = 1 .. (Len(q) + 1) /\ Len(q) \in Nat /\ DOMAIN q = 1 .. Len(q)
      /\ p[Len(q) + 1] = r /\ \A i \in 1 .. Len(q) : p[i] = q[i] /\ q[i] \in Range(q)
  BY DEF Range
<1>2. Range(p) = Range(q) \cup {r}
  BY AppendRange
<1>3. NoBuffer \notin Range(f)
  BY RangeOfSeq, DriverAssumption
<1> HIDE DEF p
<1>4. Apart(p, t, f, NoBuffer)
  BY <1>2, <1>3, DriverAssumption DEF Apart
<1>5. ASSUME NEW i \in DOMAIN p, NEW j \in DOMAIN p, i < j PROVE c[p[i]] < c[p[j]]
  <2>1. i \in 1 .. Len(q)
    BY <1>1, <1>5
  <2>2. CASE j = Len(q) + 1
    BY <1>1, <2>1, <2>2 DEF InOrder
  <2>3. CASE j # Len(q) + 1
    <3>1. j \in 1 .. Len(q)
      BY <1>1, <2>3
    <3>2. QED
      BY <1>1, <1>5, <2>1, <3>1 DEF InOrder
  <2>4. QED
    BY <2>2, <2>3
<1>6. InOrder(p, t, {}, c, h, n, K)
  BY <1>2, <1>5 DEF InOrder
<1>7. QED
  BY <1>4, <1>6 DEF p

\* popBatch moves the first buffers of the queue to an empty batch.
LEMMA Popped ==
  ASSUME NEW q \in Seq(Buffers \cup {NoBuffer}), NEW f, NEW r, NEW w, NEW c, NEW h, NEW n, NEW K,
         NEW tt \in Seq(Buffers \cup {NoBuffer}), NEW qq \in Seq(Buffers \cup {NoBuffer}),
         Len(q) = Len(tt) + Len(qq),
         \A k \in 1 .. Len(tt) : tt[k] = q[k],
         \A k \in 1 .. Len(qq) : qq[k] = q[Len(tt) + k],
         Apart(q, <<>>, f, r), InOrder(q, <<>>, w, c, h, n, K)
  PROVE  Apart(qq, tt, f, r) /\ InOrder(qq, tt, w, c, h, n, K)
<1>1. /\ DOMAIN q = 1 .. Len(q) /\ DOMAIN tt = 1 .. Len(tt) /\ DOMAIN qq = 1 .. Len(qq)
      /\ Len(q) \in Nat /\ Len(tt) \in Nat /\ Len(qq) \in Nat
  OBVIOUS
<1>2. Range(tt) \subseteq Range(q)
  BY <1>1 DEF Range
<1>3. Range(qq) \subseteq Range(q)
  <2>1. ASSUME NEW k \in 1 .. Len(qq) PROVE qq[k] \in Range(q)
    <3>1. Len(tt) + k \in DOMAIN q
      BY <1>1
    <3>2. QED
      BY <3>1 DEF Range
  <2>2. QED
    BY <1>1, <2>1 DEF Range
<1>4. Apart(qq, tt, f, r)
  BY <1>2, <1>3 DEF Apart
<1>5. \A i, j \in 1 .. Len(q) : i < j => c[q[i]] < c[q[j]]
  BY <1>1 DEF InOrder
<1>6. \A i, j \in DOMAIN tt : i < j => c[tt[i]] < c[tt[j]]
  BY <1>1, <1>5
<1>7. ASSUME NEW i \in DOMAIN qq, NEW j \in DOMAIN qq, i < j PROVE c[qq[i]] < c[qq[j]]
  <2>1. Len(tt) + i \in 1 .. Len(q) /\ Len(tt) + j \in 1 .. Len(q) /\ Len(tt) + i < Len(tt) + j
    BY <1>1, <1>7
  <2>2. QED
    BY <1>1, <1>5, <2>1
<1>8. ASSUME NEW i \in DOMAIN tt, NEW j \in DOMAIN qq PROVE c[tt[i]] < c[qq[j]]
  <2>1. i \in 1 .. Len(q) /\ Len(tt) + j \in 1 .. Len(q) /\ i < Len(tt) + j
    BY <1>1
  <2>2. QED
    BY <1>1, <1>5, <2>1
<1>9. \A b \in Range(tt), d \in Range(qq) : c[b] < c[d]
  BY <1>8 DEF Range
<1>10. InOrder(qq, tt, w, c, h, n, K)
  BY <1>2, <1>3, <1>6, <1>7, <1>9 DEF InOrder
<1>11. QED
  BY <1>4, <1>10

\* One packet is decoded and its buffer freed, or dropped when the free queue is full.
LEMMA Decoded ==
  ASSUME NEW q, NEW t \in Seq(Buffers \cup {NoBuffer}), t # <<>>, NEW f \in Seq(Buffers),
         NEW r, NEW w, NEW c \in [Buffers -> Nat], NEW h \in Seq(Nat), NEW n, NEW K,
         NEW ff \in {f, Append(f, Head(t))},
         Apart(q, t, f, r), InOrder(q, t, w, c, h, n, K)
  PROVE  /\ Apart(q, Tail(t), ff, r)
         /\ InOrder(q, Tail(t), w, c, Append(h, c[Head(t)]), n, K)
<1> DEFINE b == Head(t)
           u == Tail(t)
           g == Append(h, c[b])
<1>1. /\ b = t[1] /\ Len(t) \in Nat /\ Len(t) >= 1 /\ DOMAIN t = 1 .. Len(t)
      /\ DOMAIN u = 1 .. (Len(t) - 1) /\ \A i \in 1 .. (Len(t) - 1) : u[i] = t[i + 1]
  BY HeadTailProperties, EmptySeq, LenProperties
<1>2. b \in Range(t) /\ Range(u) \subseteq Range(t) /\ b \in Buffers /\ c[b] \in Nat
  <2>1. b \in Range(t) /\ Range(u) \subseteq Range(t)
    BY HeadTailRange
  <2>2. QED
    BY <2>1 DEF Apart
<1>3. /\ DOMAIN g = 1 .. (Len(h) + 1) /\ Len(h) \in Nat /\ DOMAIN h = 1 .. Len(h)
      /\ g[Len(h) + 1] = c[b] /\ \A i \in 1 .. Len(h) : g[i] = h[i]
  BY <1>2
<1>4. Range(ff) \subseteq Range(f) \cup {b}
  BY AppendRange
<1>5. /\ Len(f) \in Nat /\ DOMAIN f = 1 .. Len(f) /\ \A i \in 1 .. Len(f) : f[i] \in Range(f)
      /\ DOMAIN Append(f, b) = 1 .. (Len(f) + 1)
      /\ Append(f, b)[Len(f) + 1] = b /\ \A i \in 1 .. Len(f) : Append(f, b)[i] = f[i]
  BY <1>2 DEF Range
<1> HIDE DEF b, u, g
<1>6. ASSUME NEW i \in DOMAIN u PROVE c[b] < c[u[i]]
  <2>1. 1 \in DOMAIN t /\ i + 1 \in DOMAIN t /\ 1 < i + 1
    BY <1>1
  <2>2. QED
    BY <1>1, <2>1 DEF InOrder
<1>7. \A d \in Range(u) : c[b] < c[d]
  BY <1>6 DEF Range
<1>8. \A d \in Range(q) : c[b] < c[d]
  BY <1>2 DEF InOrder
<1>9. b \notin Range(u) \cup Range(q) /\ b \notin Range(f)
  BY <1>2, <1>7, <1>8 DEF Apart
<1>10. \A i, j \in DOMAIN ff : ff[i] = ff[j] => i = j
  <2>1. CASE ff = f
    BY <2>1 DEF Apart
  <2>2. CASE ff = Append(f, b)
    <3>1. \A i \in 1 .. Len(f) : f[i] # b
      BY <1>5, <1>9
    <3>2. \A i, j \in 1 .. Len(f) : f[i] = f[j] => i = j
      BY <1>5 DEF Apart
    <3>3. \A i \in 1 .. (Len(f) + 1) : i \in 1 .. Len(f) \/ i = Len(f) + 1
      BY <1>5
    <3>4. ASSUME NEW i \in 1 .. (Len(f) + 1), NEW j \in 1 .. (Len(f) + 1),
                 Append(f, b)[i] = Append(f, b)[j]
          PROVE  i = j
      BY <1>5, <3>1, <3>2, <3>3, <3>4
    <3>5. QED
      BY <1>5, <2>2, <3>4
  <2>3. QED
    BY <2>1, <2>2 DEF b
<1>11. Apart(q, u, ff, r)
  BY <1>2, <1>4, <1>9, <1>10 DEF Apart
<1>12. \A i \in DOMAIN g : g[i] <= n
  <2>1. c[b] <= n /\ \A i \in 1 .. Len(h) : h[i] <= n
    BY <1>2, <1>3 DEF InOrder
  <2>2. \A i \in 1 .. (Len(h) + 1) : i \in 1 .. Len(h) \/ i = Len(h) + 1
    BY SMTT(30), <1>3
  <2>3. QED
    BY <1>3, <2>1, <2>2
<1>13. ASSUME NEW i \in DOMAIN g, NEW j \in DOMAIN g, i < j PROVE g[i] < g[j]
  <2>1. i \in 1 .. Len(h)
    BY <1>3, <1>13
  <2>2. CASE j = Len(h) + 1
    BY <1>2, <1>3, <2>1, <2>2 DEF InOrder
  <2>3. CASE j # Len(h) + 1
    <3>1. j \in 1 .. Len(h)
      BY SMTT(30), <1>3, <2>3
    <3>2. QED
      BY <1>3, <1>13, <2>1, <3>1 DEF InOrder
  <2>4. QED
    BY <2>2, <2>3
<1>14. ASSUME NEW i \in DOMAIN g, NEW d \in Range(u) \cup Range(q) \cup w PROVE g[i] < c[d]
  <2>1. CASE i = Len(h) + 1
    BY <1>2, <1>3, <1>7, <1>8, <2>1 DEF InOrder
  <2>2. CASE i # Len(h) + 1
    <3>1. i \in 1 .. Len(h)
      BY <1>3, <2>2
    <3>2. QED
      BY <1>2, <1>3, <3>1 DEF InOrder
  <2>3. QED
    BY <2>1, <2>2
<1>15. ASSUME NEW i \in DOMAIN u, NEW j \in DOMAIN u, i < j PROVE c[u[i]] < c[u[j]]
  <2>1. i + 1 \in DOMAIN t /\ j + 1 \in DOMAIN t /\ i + 1 < j + 1
    BY <1>1, <1>15
  <2>2. QED
    BY <1>1, <2>1 DEF InOrder
<1>16. InOrder(q, u, w, c, g, n, K)
  BY <1>2, <1>12, <1>13, <1>14, <1>15 DEF InOrder
<1>17. QED
  BY <1>11, <1>16 DEF b, u, g

-----------------------------------------------------------------------------
(* Every step of the program is one of the moves above *)

\* Where the datagrams of a session come from; between sessions nothing is under way
\* but on pkt_queue_, and whatever is there will be left for the next.
Origins == IF mpc \in {"new", "failed", "ready"} THEN Nat
           ELSE left \cup {n \in Nat : n > begin}

Flow == /\ Apart(Queued, todo, free, rbuf)
        /\ InOrder(Queued, todo, Stuffed, content, handled, received, Origins)

\* What the ring holds, as a sequence.
LEMMA ContentsSeq ==
  ASSUME TypeOK
  PROVE  /\ Pkt!Contents \in Seq(Buffers \cup {NoBuffer})
         /\ Len(Pkt!Contents) = Pkt!Available(head_, tail_)
         /\ Pkt!Available(head_, tail_) \in 0 .. (Capacity - 1)
         /\ \A k \in 1 .. Pkt!Available(head_, tail_) :
              Pkt!Contents[k] = buffer_[Pkt!Advance(head_, k - 1)]
         /\ Range(Pkt!Contents) \subseteq Range(buffer_)
<1>1. /\ head_ \in Pkt!Index /\ tail_ \in Pkt!Index
      /\ buffer_ \in [Pkt!Index -> Buffers \cup {NoBuffer}]
  BY DEF TypeOK, Pkt!TypeOK
<1>2. Pkt!Available(head_, tail_) \in 0 .. (Capacity - 1)
  BY <1>1, AvailableBound
<1>3. PICK n \in Nat : n = Pkt!Available(head_, tail_) /\ n <= Capacity - 1
  BY <1>2, DriverAssumption
<1>4. ASSUME NEW k \in 1 .. n PROVE Pkt!Advance(head_, k - 1) \in Pkt!Index
  <2>1. k - 1 \in 0 .. Capacity
    BY <1>3, DriverAssumption
  <2>2. QED
    BY <1>1, <2>1, AdvanceValue
<1>5. \A k \in 1 .. n : /\ buffer_[Pkt!Advance(head_, k - 1)] \in Buffers \cup {NoBuffer}
                        /\ buffer_[Pkt!Advance(head_, k - 1)] \in Range(buffer_)
  BY <1>1, <1>4 DEF Range
<1>6. Pkt!Contents = [k \in 1 .. n |-> buffer_[Pkt!Advance(head_, k - 1)]]
  BY <1>3 DEF Pkt!Contents
<1>7. Pkt!Contents \in Seq(Buffers \cup {NoBuffer}) /\ Len(Pkt!Contents) = n
  BY <1>3, <1>5, <1>6
<1>8. \A k \in 1 .. n : Pkt!Contents[k] = buffer_[Pkt!Advance(head_, k - 1)]
  BY <1>6
<1>9. Range(Pkt!Contents) \subseteq Range(buffer_)
  BY <1>5, <1>6 DEF Range
<1>10. QED
  BY <1>2, <1>3, <1>7, <1>8, <1>9

LEMMA FlowKept ==
  ASSUME NEW q, NEW t, NEW f, NEW r, NEW w, NEW c, NEW h, NEW n,
         q = Queued', t = todo', f = free', r = rbuf', w = Stuffed', c = content',
         h = handled', n = received', Origins' = Origins,
         Apart(q, t, f, r), InOrder(q, t, w, c, h, n, Origins)
  PROVE  Flow'
BY DEF Flow, Apart, InOrder

\* Steps that move no buffer but may empty the queue or drop the buffer held.
LEMMA FlowDropped ==
  ASSUME Typed, Flow, Origins' = Origins, UNCHANGED <<todo, free, content, handled, received>>,
         Queued' = Queued \/ Queued' = <<>>, rbuf' = rbuf \/ rbuf' = NoBuffer,
         Stuffed' \subseteq Stuffed
  PROVE  Flow'
<1>1. NoBuffer \notin Range(free)
  BY RangeOfSeq, DriverAssumption DEF Typed, TypeOK
<1>2. PICK q \in {Queued, <<>>}, r \in {rbuf, NoBuffer}, w \in SUBSET Stuffed :
         q = Queued' /\ r = rbuf' /\ w = Stuffed'
  OBVIOUS
<1>3. /\ Apart(q, todo, free, r)
      /\ InOrder(q, todo, w, content, handled, received, Origins)
  BY <1>1, Dropped DEF Flow
<1>4. QED
  BY <1>2, <1>3, FlowKept

LEMMA SelectFlow == Typed /\ Flow /\ RecvSelect => Flow'
<1> SUFFICES ASSUME Typed, Flow, RecvSelect PROVE Flow'
  OBVIOUS
<1>1. /\ rpc = "loop" /\ ppc = "idle" /\ rpc' = "recv" /\ Origins' = Origins
      /\ UNCHANGED <<pktVars, todo, handled, received>>
  BY DEF RecvSelect, Typed, Control, handleVars, mainVars, Origins
<1>2. Stuffed = {} /\ Stuffed' = {} /\ Queued' = Queued
  BY <1>1 DEF Stuffed, Queued, Pkt!Contents, pktVars
<1>3. /\ free \in Seq(Buffers) /\ content \in [Buffers -> Nat] /\ received \in Nat
      /\ TypeOK
  BY DriverAssumption DEF Typed, TypeOK
<1>4. CASE rbuf # NoBuffer
  <2>1. UNCHANGED <<rbuf, free, content>>
    BY <1>4 DEF RecvSelect
  <2>2. QED
    BY <1>1, <1>2, <2>1, FlowDropped
<1>5. CASE rbuf = NoBuffer /\ free # <<>>
  <2>1. rbuf' = Head(free) /\ free' = Tail(free) /\ UNCHANGED content
    BY <1>5 DEF RecvSelect, PacketGet
  <2>2. Apart(Queued, todo, Tail(free), Head(free))
    BY <1>3, <1>5, Taken DEF Flow
  <2>3. InOrder(Queued, todo, {}, content, handled, received, Origins)
    BY <1>2 DEF Flow
  <2>4. QED
    BY <1>1, <1>2, <2>1, <2>2, <2>3, FlowKept
<1>6. CASE rbuf = NoBuffer /\ free = <<>>
  <2>1. PICK b \in Buffers : b = rbuf' /\ b \notin Referenced
    BY <1>1, <1>6, NewBuffer DEF RecvSelect, PacketGet
  <2>2. free' = free /\ content' = [content EXCEPT ![b] = 0]
    BY <1>6, <2>1 DEF RecvSelect, PacketGet
  <2>3. Queued = Pkt!Contents
    BY <1>1 DEF Queued
  <2>4. b \notin Range(Queued) \cup Range(todo) \cup Range(free)
    BY <1>3, <2>1, <2>3, ContentsSeq DEF Referenced
  <2>5. /\ Apart(Queued, todo, free, b)
        /\ InOrder(Queued, todo, {}, [content EXCEPT ![b] = 0], handled, received, Origins)
    BY <1>2, <1>3, <1>6, <2>4, Allocated DEF Flow
  <2>6. QED
    BY <1>1, <1>2, <2>1, <2>2, <2>5, FlowKept
<1>7. QED
  BY <1>4, <1>5, <1>6

LEMMA StuffFlow == Typed /\ Session /\ Flow /\ RecvStuff => Flow'
<1> SUFFICES ASSUME Typed, Session, Flow, RecvStuff PROVE Flow'
  OBVIOUS
<1>1. /\ rpc = "recv" /\ rbuf \in Buffers /\ rpc' \in {"loop", "push"}
      /\ UNCHANGED <<pktVars, free, rbuf, todo, handled>>
      /\ received' = received + 1
      /\ content' = [content EXCEPT ![rbuf] = received + 1]
  BY DEF RecvStuff, Typed, Control, handleVars
<1>2. Stuffed = {} /\ Stuffed' \in {{}, {rbuf}} /\ Queued' = Queued
  BY <1>1 DEF Stuffed, Queued, Pkt!Contents, pktVars
<1>3. content \in [Buffers -> Nat] /\ received \in Nat /\ handled \in Seq(Nat)
  <2>1. 0 .. MaxPackets \subseteq Nat
    BY DriverAssumption
  <2>2. handled \in Seq(Nat)
    BY <2>1, SeqMonotonic DEF Typed, TypeOK
  <2>3. QED
    BY <2>1, <2>2 DEF Typed, TypeOK
<1>4. rbuf \in Buffers
  BY <1>1
<1>5. Apart(Queued, todo, free, rbuf)
  BY DEF Flow
<1>6. InOrder(Queued, todo, {}, content, handled, received, Origins)
  BY <1>2 DEF Flow
<1>7. PICK d, w : d = content' /\ w = Stuffed' /\ w \in {{}, {rbuf}}
  BY <1>2
<1>8. PICK m : m = received + 1
  OBVIOUS
<1>9. d[rbuf] = m /\ \A b \in Buffers \ {rbuf} : d[b] = content[b]
  BY <1>1, <1>3, <1>7, <1>8
<1>10. w = {} \/ w = {rbuf}
  BY <1>7
<1>11. received + 1 \in Origins /\ Origins' = Origins
  BY <1>3 DEF Session, Origins, RecvStuff, mainVars
<1>12. InOrder(Queued, todo, w, d, handled, m, Origins)
  BY <1>3, <1>4, <1>5, <1>6, <1>8, <1>9, <1>10, <1>11, Written
<1>13. QED
  BY <1>1, <1>2, <1>5, <1>7, <1>8, <1>11, <1>12, FlowKept

\* push: the slot written is not part of the queue before it is published.
LEMMA PutFlow ==
  ASSUME Typed, RingIntact, Flow, PutSteps
  PROVE  Flow'
<1>1. /\ UNCHANGED <<todo, free, content, handled, received>>
      /\ rpc \in {"push", "pushing"} /\ rbuf \in Buffers /\ Stuffed = {rbuf}
      /\ Origins' = Origins
  BY DEF mainVars, Origins, PutSteps, RecvPushBegin, RecvPushWrite, RecvPushEnd, RecvOverflow, RecvCleared,
         Pkt!PushWrite, Pkt!PushPublish, Pkt!ClearHead, Pkt!ClearTail, Typed, Control,
         handleVars, recvVars, Stuffed
<1>2. /\ TypeOK /\ head_ \in Pkt!Index /\ tail_ \in Pkt!Index
      /\ buffer_ \in [Pkt!Index -> Buffers \cup {NoBuffer}]
  BY DEF Typed, TypeOK, Pkt!TypeOK
<1>3. CASE RecvPushBegin
  <2>1. UNCHANGED <<buffer_, head_, tail_, rbuf>> /\ ppc = "idle" /\ ppc' # "clear" /\ rpc' = "pushing"
    BY <1>3 DEF RecvPushBegin, Pkt!PushFull, Pkt!PushLoad, Pkt!ring
  <2>2. Queued' = Queued /\ Stuffed' = Stuffed
    BY <1>1, <2>1 DEF Queued, Pkt!Contents, Stuffed
  <2>3. QED
    BY <1>1, <2>1, <2>2, FlowDropped
<1>4. CASE RecvPushWrite
  <2>1. /\ ppc = "write" /\ ppc' = "publish" /\ ptail = tail_
        /\ buffer_' = [buffer_ EXCEPT ![tail_] = pvalue]
        /\ UNCHANGED <<head_, tail_, rpc, rbuf>>
    BY <1>4 DEF RecvPushWrite, Pkt!PushWrite, RingIntact, recvVars
  <2>2. PICK n \in Nat : n = Pkt!Available(head_, tail_) /\ n <= Capacity - 1
    BY <1>2, AvailableBound, DriverAssumption
  <2>3. ASSUME NEW k \in 1 .. n
        PROVE  buffer_'[Pkt!Advance(head_, k - 1)] = buffer_[Pkt!Advance(head_, k - 1)]
    <3>1. k - 1 \in 0 .. Capacity /\ k - 1 \in 0 .. (Pkt!Available(head_, tail_) - 1)
      BY <2>2, DriverAssumption
    <3>2. /\ Pkt!Advance(head_, k - 1) # tail_
          /\ Pkt!Advance(head_, k - 1) \in Pkt!Index
      BY <1>2, <3>1, TailNotFilled, AdvanceValue
    <3>3. QED
      BY <1>2, <2>1, <3>2
  <2>4. [k \in 1 .. n |-> buffer_'[Pkt!Advance(head_, k - 1)]]
          = [k \in 1 .. n |-> buffer_[Pkt!Advance(head_, k - 1)]]
    BY <2>3
  <2>5. Queued' = Queued
    BY <2>1, <2>2, <2>4 DEF Queued, Pkt!Contents
  <2>6. Stuffed' = Stuffed
    BY <2>1 DEF Stuffed
  <2>7. QED
    BY <1>1, <2>1, <2>5, <2>6, FlowDropped
<1>5. CASE RecvPushEnd
  <2>1. /\ ppc = "publish" /\ ppc' = "idle" /\ ptail = tail_ /\ buffer_[tail_] = rbuf
        /\ tail_' = Pkt!Advance(tail_, 1) /\ UNCHANGED <<buffer_, head_>>
        /\ Pkt!Advance(tail_, 1) # head_ /\ rbuf' = NoBuffer /\ rpc' = "loop"
    BY <1>5 DEF RecvPushEnd, Pkt!PushPublish, RingIntact, Typed, Control
  <2>2. PICK n \in Nat : n = Pkt!Available(head_, tail_) /\ n <= Capacity - 1
    BY <1>2, AvailableBound, DriverAssumption
  <2>3. /\ Pkt!Available(head_, Pkt!Advance(tail_, 1)) = n + 1
        /\ Pkt!Advance(head_, n) = tail_
    BY <1>2, <2>1, <2>2, PublishGrows
  <2>4. PICK q : q = Pkt!Contents
    OBVIOUS
  <2>5. /\ q \in Seq(Buffers \cup {NoBuffer}) /\ Len(q) = n
        /\ \A k \in 1 .. n : q[k] = buffer_[Pkt!Advance(head_, k - 1)]
    BY <1>2, <2>2, <2>4, ContentsSeq
  <2>6. Append(q, rbuf) \in Seq(Buffers \cup {NoBuffer})
    BY <1>1, <2>5
  <2>7. /\ Len(Append(q, rbuf)) = n + 1 /\ Append(q, rbuf)[n + 1] = rbuf
        /\ \A k \in 1 .. n : Append(q, rbuf)[k] = q[k]
    BY <1>1, <2>5
  <2>8. ASSUME NEW k \in 1 .. (n + 1)
        PROVE  Append(q, rbuf)[k] = buffer_[Pkt!Advance(head_, k - 1)]
    <3>1. CASE k = n + 1
      BY <2>1, <2>2, <2>3, <2>7, <3>1
    <3>2. CASE k # n + 1
      BY <2>2, <2>5, <2>7, <3>2
    <3>3. QED
      BY <3>1, <3>2
  <2>9. Append(q, rbuf) = [k \in 1 .. (n + 1) |-> Append(q, rbuf)[k]]
    BY <2>2, <2>6, <2>7, LenProperties
  <2>10. Append(q, rbuf) = [k \in 1 .. (n + 1) |-> buffer_[Pkt!Advance(head_, k - 1)]]
    BY <2>8, <2>9
  <2>11. Queued' = Append(q, rbuf) /\ Queued = q /\ Stuffed' = {}
    BY <2>1, <2>3, <2>4, <2>10 DEF Queued, Pkt!Contents, Stuffed
  <2>12. free \in Seq(Buffers)
    BY DEF Typed, TypeOK
  <2>13. /\ Apart(Append(q, rbuf), todo, free, NoBuffer)
         /\ InOrder(Append(q, rbuf), todo, {}, content, handled, received, Origins)
    BY <1>1, <2>5, <2>11, <2>12, Published DEF Flow
  <2>14. QED
    BY <1>1, <2>1, <2>11, <2>13, FlowKept
<1>6. CASE RecvOverflow
  <2>1. ppc' = "clear" /\ UNCHANGED <<rpc, rbuf>>
    BY <1>6 DEF RecvOverflow, Pkt!ClearHead, recvVars
  <2>2. Queued' = <<>> /\ Stuffed' = Stuffed
    BY <2>1 DEF Queued, Stuffed
  <2>3. QED
    BY <1>1, <2>1, <2>2, FlowDropped
<1>7. CASE RecvCleared
  <2>1. /\ ppc = "clear" /\ ppc' = "idle" /\ head_' = 0 /\ tail_' = 0
        /\ rbuf' = NoBuffer /\ rpc' = "loop"
    BY <1>7 DEF RecvCleared, Pkt!ClearTail, RingIntact
  <2>2. Pkt!Available(0, 0) = 0
    BY DEF Pkt!Available
  <2>3. Queued' = <<>> /\ Stuffed' = {}
    BY <2>1, <2>2 DEF Queued, Pkt!Contents, Stuffed
  <2>4. QED
    BY <1>1, <2>1, <2>3, FlowDropped
<1>8. QED
  BY <1>3, <1>4, <1>5, <1>6, <1>7 DEF PutSteps

\* popBatch: the batch is the front of the queue, and head_ moves past it.
LEMMA BatchFlow == Typed /\ RingIntact /\ Flow /\ HandleBatch => Flow'
<1> SUFFICES ASSUME Typed, RingIntact, Flow, HandleBatch PROVE Flow'
  OBVIOUS
<1>1. /\ todo = <<>> /\ chead = head_ /\ count <= Pkt!Available(head_, tail_)
      /\ Len(copied) = count /\ ppc # "clear" /\ hpc = "loop"
      /\ \A k \in 1 .. Len(copied) : copied[k] = buffer_[Pkt!Advance(head_, k - 1)]
  BY DEF HandleBatch, Pkt!PopAdvance, RingIntact
<1>2. /\ head_' = Pkt!Advance(head_, count) /\ todo' = copied
      /\ UNCHANGED <<buffer_, tail_, ppc, rpc, rbuf, free, content, handled, received>>
      /\ Origins' = Origins
  BY <1>1 DEF HandleBatch, Pkt!PopAdvance, Pkt!producer, recvVars, mainVars, Origins
<1>3. /\ TypeOK /\ head_ \in Pkt!Index /\ tail_ \in Pkt!Index /\ count \in Nat
      /\ copied \in Seq(Buffers \cup {NoBuffer})
      /\ buffer_ \in [Pkt!Index -> Buffers \cup {NoBuffer}]
  BY DEF Typed, TypeOK, Pkt!TypeOK
<1>4. PICK n \in Nat : n = Pkt!Available(head_, tail_) /\ n <= Capacity - 1
  BY <1>3, AvailableBound, DriverAssumption
<1>5. PICK m \in Nat : m = count /\ m <= n
  BY <1>1, <1>3, <1>4
<1>6. m \in 0 .. Pkt!Available(head_, tail_)
  BY <1>4, <1>5
<1>7. /\ Pkt!Available(Pkt!Advance(head_, m), tail_) = n - m
      /\ Pkt!Advance(head_, m) \in Pkt!Index
      /\ \A k \in 0 .. (n - m) : Pkt!Advance(Pkt!Advance(head_, m), k) = Pkt!Advance(head_, m + k)
  BY <1>3, <1>4, <1>6, TakeShrinks
<1>8. PICK q : q = Pkt!Contents
  OBVIOUS
<1>9. /\ q \in Seq(Buffers \cup {NoBuffer}) /\ Len(q) = n
      /\ \A k \in 1 .. n : q[k] = buffer_[Pkt!Advance(head_, k - 1)]
  BY <1>3, <1>4, <1>8, ContentsSeq
<1>10. ASSUME NEW k \in 1 .. (n - m)
       PROVE  buffer_[Pkt!Advance(Pkt!Advance(head_, m), k - 1)] = q[m + k]
  <2>1. /\ k - 1 \in 0 .. (n - m) /\ m + k \in 1 .. n /\ m + (k - 1) = (m + k) - 1
    BY <1>4, <1>5
  <2>2. Pkt!Advance(Pkt!Advance(head_, m), k - 1) = Pkt!Advance(head_, m + (k - 1))
    BY <1>7, <2>1
  <2>3. q[m + k] = buffer_[Pkt!Advance(head_, (m + k) - 1)]
    BY <1>9, <2>1
  <2>4. QED
    BY <2>1, <2>2, <2>3
<1>11. PICK p : p = [k \in 1 .. (n - m) |-> buffer_[Pkt!Advance(Pkt!Advance(head_, m), k - 1)]]
  OBVIOUS
<1>12. Queued' = p /\ Queued = q /\ Stuffed' = Stuffed
  BY <1>1, <1>2, <1>5, <1>7, <1>8, <1>11 DEF Queued, Pkt!Contents, Stuffed
<1>13. \A k \in 1 .. (n - m) : p[k] = q[m + k]
  BY <1>10, <1>11
<1>14. \A k \in 1 .. (n - m) : p[k] \in Buffers \cup {NoBuffer}
  <2>1. \A k \in 1 .. (n - m) : m + k \in 1 .. Len(q)
    BY <1>5, <1>9
  <2>2. QED
    BY <1>9, <1>13, <2>1, ElementOfSeq
<1>15. p \in Seq(Buffers \cup {NoBuffer}) /\ Len(p) = n - m
  BY <1>5, <1>11, <1>14
<1>16. /\ Len(q) = Len(copied) + Len(p)
       /\ \A k \in 1 .. Len(copied) : copied[k] = q[k]
       /\ \A k \in 1 .. Len(p) : p[k] = q[Len(copied) + k]
  <2>1. Len(copied) = m
    BY <1>1, <1>5
  <2>2. Len(q) = Len(copied) + Len(p)
    BY <1>4, <1>5, <1>9, <1>15, <2>1
  <2>3. ASSUME NEW k \in 1 .. Len(copied) PROVE copied[k] = q[k]
    <3>1. k \in 1 .. n
      BY <1>4, <1>5, <2>1
    <3>2. QED
      BY <1>1, <1>9, <3>1
  <2>4. \A k \in 1 .. Len(p) : p[k] = q[Len(copied) + k]
    BY <1>13, <1>15, <2>1
  <2>5. QED
    BY <2>2, <2>3, <2>4
<1>17. Apart(q, <<>>, free, rbuf) /\ InOrder(q, <<>>, Stuffed, content, handled, received, Origins)
  BY <1>1, <1>12 DEF Flow
<1>18. Apart(p, copied, free, rbuf) /\ InOrder(p, copied, Stuffed, content, handled, received, Origins)
  BY <1>3, <1>9, <1>15, <1>16, <1>17, Popped
<1>19. QED
  BY <1>2, <1>12, <1>18, FlowKept

LEMMA DecodeFlow == Typed /\ Flow /\ HandleOne => Flow'
<1> SUFFICES ASSUME Typed, Flow, HandleOne PROVE Flow'
  OBVIOUS
<1>1. /\ todo # <<>> /\ handled' = Append(handled, content[Head(todo)])
      /\ free' = free \/ free' = Append(free, Head(todo))
      /\ todo' = Tail(todo)
      /\ UNCHANGED <<pktVars, content, rpc, rbuf, received>> /\ Origins' = Origins
  BY DEF HandleOne, recvVars, mainVars, Origins
<1>2. /\ todo \in Seq(Buffers \cup {NoBuffer}) /\ free \in Seq(Buffers)
      /\ content \in [Buffers -> Nat] /\ handled \in Seq(Nat)
  <2>1. 0 .. MaxPackets \subseteq Nat
    BY DriverAssumption
  <2>2. handled \in Seq(Nat)
    BY <2>1, SeqMonotonic DEF Typed, TypeOK
  <2>3. QED
    BY <2>1, <2>2 DEF Typed, TypeOK
<1>3. Queued' = Queued /\ Stuffed' = Stuffed
  BY <1>1 DEF Queued, Pkt!Contents, Stuffed, pktVars
<1>4. PICK f \in {free, Append(free, Head(todo))} : f = free'
  BY <1>1
<1>5. /\ Apart(Queued, Tail(todo), f, rbuf)
      /\ InOrder(Queued, Tail(todo), Stuffed, content, Append(handled, content[Head(todo)]), received, Origins)
  BY <1>1, <1>2, <1>4, Decoded DEF Flow
<1>6. QED
  BY <1>1, <1>3, <1>4, <1>5, FlowKept

\* The other steps.
LEMMA IdleFlow ==
  ASSUME Typed, Flow,
         \/ DriverInit \/ StopInput \/ JoinRecv \/ RecvNothing \/ RecvExit \/ RecvFail
         \/ HandlePop \/ HandleNull \/ HandleBatchDone \/ HandleExit
         \/ UNCHANGED vars
  PROVE  Flow'
<1>1. /\ UNCHANGED <<buffer_, head_, tail_, ppc, todo, free, content, handled, received>>
      /\ \/ UNCHANGED <<rpc, rbuf>>
         \/ rpc' = "loop" /\ UNCHANGED rbuf
         \/ rpc' = "off" /\ rbuf' = NoBuffer
      /\ Origins' = Origins
  BY DEF DriverInit, StopInput, JoinRecv, RecvNothing, RecvExit, mainVars, Origins,
         RecvFail, RecvEnd, HandlePop, HandleNull, HandleBatchDone, HandleExit,
         Pkt!PopLoadHead, Pkt!PopEmpty, Pkt!BatchReady, Pkt!BatchReloadHead, Pkt!BatchCount,
         Pkt!CopyOne, Pkt!ring, Pkt!producer, vars, pktVars, recvVars, handleVars
<1>2. Queued' = Queued
  BY <1>1 DEF Queued, Pkt!Contents
<1>3. Stuffed' \subseteq Stuffed /\ (rbuf' = rbuf \/ rbuf' = NoBuffer)
  <2>1. CASE RecvNothing \/ RecvExit \/ RecvFail
    BY <2>1 DEF RecvNothing, RecvExit, RecvFail, RecvEnd, Stuffed
  <2>2. CASE UNCHANGED <<rpc, rbuf>>
    BY <2>2 DEF Stuffed
  <2>3. QED
    BY <2>1, <2>2 DEF DriverInit, StopInput, JoinRecv, HandlePop,
         HandleNull, HandleBatchDone, HandleExit, vars, recvVars
<1>4. QED
  BY <1>1, <1>2, <1>3, FlowDropped

\* start() and the end of stop(): nothing moves, and what is under way is accounted for.
LEMMA SessionFlow ==
  ASSUME Typed, Session, RingIntact, Flow, Start \/ JoinHandle
  PROVE  Flow'
<1>1. /\ UNCHANGED <<buffer_, head_, tail_, ppc, todo, free, rbuf, content, handled, received>>
      /\ rpc = "off" /\ rpc' \in {"off", "loop"} /\ ppc = "idle"
  BY DEF Start, JoinHandle, pktVars, recvVars, Typed, Control
<1>2. /\ Queued' = Queued /\ Queued = Pkt!Contents /\ Stuffed = {} /\ Stuffed' = {}
  BY <1>1 DEF Queued, Pkt!Contents, Stuffed
<1>3. /\ Range(todo) \cup Range(Queued) \subseteq Buffers
      /\ \A b \in Buffers : content[b] \in Nat
  BY DriverAssumption DEF Flow, Apart, Typed, TypeOK
<1>4. \A b \in Range(todo) \cup Range(Queued) : content[b] \in Origins'
  <2>1. CASE JoinHandle
    BY <1>3, <2>1 DEF JoinHandle, Origins
  <2>2. CASE Start
    <3>1. todo = <<>> /\ Range(todo) = {}
      BY <2>2 DEF Start, Session, RingIntact, Range
    <3>2. /\ left' = {content[b] : b \in Range(Pkt!Contents) \cap Buffers}
          /\ left' \subseteq Origins'
      BY <2>2 DEF Start, Origins
    <3>3. \A b \in Range(Queued) : content[b] \in left'
      BY <1>2, <1>3, <3>2
    <3>4. QED
      BY <3>1, <3>2, <3>3
  <2>3. QED
    BY <2>1, <2>2
<1>5. PICK q, K : q = Queued /\ K = Origins'
  OBVIOUS
<1>6. /\ Apart(q, todo, free, rbuf)
      /\ InOrder(q, todo, {}, content, handled, received, K)
  BY <1>2, <1>4, <1>5 DEF Flow, InOrder
<1>7. QED
  BY <1>1, <1>2, <1>5, <1>6 DEF Flow, Apart, InOrder

-----------------------------------------------------------------------------
(* The result *)

Whole == ~raced => RingIntact /\ Flow /\ cloud \subseteq Origins

\* The points in the cloud have the same origins.
LEMMA CloudOrigins ==
  ASSUME Typed, Session, Flow, cloud \subseteq Origins, [Next]_vars
  PROVE  cloud' \subseteq Origins'
<1>1. CASE HandleOne
  <2>1. /\ todo # <<>> /\ cloud' \subseteq cloud \cup {content[Head(todo)]}
        /\ Origins' = Origins /\ todo \in Seq(Buffers \cup {NoBuffer})
    BY <1>1 DEF HandleOne, mainVars, Origins, Typed, TypeOK
  <2>2. Head(todo) \in Range(todo)
    BY <2>1, HeadTailRange
  <2>3. QED
    BY <2>1, <2>2 DEF Flow, InOrder
<1>2. CASE Start \/ JoinHandle
  BY <1>2 DEF Start, JoinHandle, Session
<1>3. CASE DriverInit \/ StopInput \/ JoinRecv
  BY <1>3 DEF DriverInit, StopInput, JoinRecv, handleVars, Origins
<1>4. CASE Receiver \/ HandlePop \/ HandleBatch \/ HandleNull \/ HandleBatchDone \/ HandleExit
           \/ UNCHANGED vars
  <2>1. UNCHANGED <<cloud, mpc, begin, left>>
    BY <1>4 DEF Receiver, RecvSelect, RecvStuff, RecvNothing, PutSteps, RecvPushBegin, RecvPushWrite,
         RecvPushEnd, RecvOverflow, RecvCleared, RecvExit, RecvFail, RecvEnd, HandlePop, HandleBatch,
         HandleNull, HandleBatchDone, HandleExit, vars, handleVars, mainVars
  <2>2. QED
    BY <2>1 DEF Origins
<1>5. QED
  BY <1>1, <1>2, <1>3, <1>4 DEF Next, Caller, Handler

LEMMA RacedStays == [Next]_vars /\ ~raced' => ~raced
BY DEF Next, Caller, DriverInit, Start, StopInput, JoinRecv, JoinHandle, Receiver, RecvSelect,
       RecvStuff, RecvNothing, PutSteps, RecvPushBegin, RecvPushWrite, RecvPushEnd, RecvOverflow,
       RecvCleared, RecvExit, RecvFail, RecvEnd, Handler, HandlePop, HandleBatch, HandleOne,
       HandleNull, HandleBatchDone, HandleExit, TrackRace, vars

LEMMA NextWhole == Typed /\ Session /\ Whole /\ [Next]_vars => Whole'
<1> SUFFICES ASSUME Typed, Session, Whole, [Next]_vars, ~raced'
             PROVE  RingIntact' /\ Flow' /\ cloud' \subseteq Origins'
  BY DEF Whole
<1>1. RingIntact /\ Flow /\ cloud \subseteq Origins
  BY RacedStays DEF Whole
<1>2. RingIntact'
  BY <1>1, NextRingIntact
<1>3. Flow'
  BY <1>1, SelectFlow, StuffFlow, PutFlow, BatchFlow, DecodeFlow, IdleFlow, SessionFlow
     DEF Next, Caller, Receiver, Handler
<1>4. QED
  BY <1>1, <1>2, <1>3, CloudOrigins

LEMMA InitWhole == Init => Whole
<1> SUFFICES ASSUME Init PROVE RingIntact /\ Flow
  BY DEF Whole, Init
<1>1. RingIntact
  BY DEF Init, Pkt!Init, RingIntact
<1>2. Pkt!Available(head_, tail_) = 0
  BY DEF Init, Pkt!Init, Pkt!Available
<1>3. Queued = <<>> /\ Stuffed = {} /\ todo = <<>> /\ free = <<>> /\ handled = <<>> /\ rbuf = NoBuffer
  BY <1>2 DEF Init, Queued, Pkt!Contents, Stuffed
<1>4. Apart(<<>>, <<>>, <<>>, NoBuffer)
  BY DEF Apart, Range
<1>5. content = [b \in Buffers |-> 0] /\ received = 0
  BY DEF Init
<1>6. InOrder(<<>>, <<>>, {}, content, <<>>, received, Origins)
  BY <1>5 DEF InOrder, Range
<1>7. QED
  BY <1>1, <1>3, <1>4, <1>6 DEF Flow

LEMMA FlowOwner == Typed /\ Flow => OneOwner
<1> SUFFICES ASSUME Typed, Flow, ppc # "clear", NEW b \in Buffers PROVE Places(b) <= 1
  BY DEF OneOwner
<1>1. Queued = Pkt!Contents
  BY DEF Queued
<1>2. /\ Queued \in Seq(Buffers \cup {NoBuffer}) /\ todo \in Seq(Buffers \cup {NoBuffer})
      /\ free \in Seq(Buffers) /\ content \in [Buffers -> Nat]
  BY <1>1, ContentsSeq, DriverAssumption DEF Typed, TypeOK
<1>3. Apart(Queued, todo, free, rbuf) /\ InOrder(Queued, todo, Stuffed, content, handled, received, Origins)
  BY DEF Flow
<1>4. /\ DOMAIN Queued = 1 .. Len(Queued) /\ Len(Queued) \in Nat
      /\ DOMAIN todo = 1 .. Len(todo) /\ Len(todo) \in Nat
      /\ \A i \in DOMAIN Queued : Queued[i] \in Buffers
      /\ \A i \in DOMAIN todo : todo[i] \in Buffers
  BY <1>2, <1>3 DEF Apart, Range
<1>5. \A i, j \in DOMAIN Queued : Queued[i] = Queued[j] => i = j
  <2>1. \A i, j \in DOMAIN Queued : i < j => content[Queued[i]] < content[Queued[j]]
    BY <1>3 DEF InOrder
  <2>2. \A i \in DOMAIN Queued : content[Queued[i]] \in Nat
    BY <1>2, <1>4
  <2>3. \A i, j \in DOMAIN Queued : i < j \/ j < i \/ i = j
    BY <1>4
  <2>4. QED
    BY <2>1, <2>2, <2>3
<1>6. \A i, j \in DOMAIN todo : todo[i] = todo[j] => i = j
  <2>1. \A i, j \in DOMAIN todo : i < j => content[todo[i]] < content[todo[j]]
    BY <1>3 DEF InOrder
  <2>2. \A i \in DOMAIN todo : content[todo[i]] \in Nat
    BY <1>2, <1>4
  <2>3. \A i, j \in DOMAIN todo : i < j \/ j < i \/ i = j
    BY <1>4
  <2>4. QED
    BY <2>1, <2>2, <2>3
<1>7. \A i, j \in DOMAIN free : free[i] = free[j] => i = j
  BY <1>3 DEF Apart
<1>8. Range(Queued) \cap Range(todo) = {}
  BY <1>2, <1>3 DEF Apart, InOrder
<1> DEFINE in(w) == Cardinality({i \in DOMAIN w : w[i] = b})
<1>9. /\ in(Queued) \in {0, 1} /\ (b \notin Range(Queued) => in(Queued) = 0)
      /\ in(todo) \in {0, 1} /\ (b \notin Range(todo) => in(todo) = 0)
      /\ in(free) \in {0, 1} /\ (b \notin Range(free) => in(free) = 0)
  <2>1. in(Queued) \in {0, 1} /\ (b \notin Range(Queued) => in(Queued) = 0)
    <3>1. Queued \in Seq(Buffers \cup {NoBuffer})
      BY <1>2
    <3>2. /\ Cardinality({i \in DOMAIN Queued : Queued[i] = b}) \in {0, 1}
          /\ b \notin Range(Queued) => Cardinality({i \in DOMAIN Queued : Queued[i] = b}) = 0
      BY <1>5, <3>1, AtMostOnce
    <3>3. QED
      BY <3>2
  <2>2. in(todo) \in {0, 1} /\ (b \notin Range(todo) => in(todo) = 0)
    <3>1. todo \in Seq(Buffers \cup {NoBuffer})
      BY <1>2
    <3>2. /\ Cardinality({i \in DOMAIN todo : todo[i] = b}) \in {0, 1}
          /\ b \notin Range(todo) => Cardinality({i \in DOMAIN todo : todo[i] = b}) = 0
      BY <1>6, <3>1, AtMostOnce
    <3>3. QED
      BY <3>2
  <2>3. in(free) \in {0, 1} /\ (b \notin Range(free) => in(free) = 0)
    <3>1. free \in Seq(Buffers)
      BY <1>2
    <3>2. /\ Cardinality({i \in DOMAIN free : free[i] = b}) \in {0, 1}
          /\ b \notin Range(free) => Cardinality({i \in DOMAIN free : free[i] = b}) = 0
      BY <1>7, <3>1, AtMostOnce
    <3>3. QED
      BY <3>2
  <2>4. QED
    BY <2>1, <2>2, <2>3
<1>10. Places(b) = (IF rbuf = b THEN 1 ELSE 0) + in(Queued) + in(todo) + in(free)
  BY <1>1 DEF Places
<1> HIDE DEF in
<1>11. QED
  BY <1>3, <1>8, <1>9, <1>10 DEF Apart

\* As long as no clear() ran during a popBatch, a buffer has one owner in every state,
\* across overflows, stop() and start(), and every datagram is decoded at most once, in
\* the order of reception.
THEOREM DecodedInOrder == Spec => []DecodedOnceUnlessRaced
<1>1. Typed /\ Whole => DecodedOnceUnlessRaced
  BY FlowOwner DEF Whole, Flow, InOrder, DecodedOnceUnlessRaced
<1>2. Typed => TypeOK
  BY DEF Typed
<1>3. QED
  BY <1>1, <1>2, InitTyped, NextTyped, InitSession, NextSession, InitWhole, NextWhole, PTL
     DEF Spec

\* A cloud is decoded in its session, because stop() joins both threads before it clears
\* the cloud and clears it before start() can run again; and its datagrams were received
\* in its session or were waiting on pkt_queue_ when it started.
THEOREM NoStalePoints == Spec => []FreshCloud
<1>1. Typed /\ Session /\ DecodedHere /\ Whole => FreshCloud
  <2> SUFFICES ASSUME Typed, Session, DecodedHere, Whole, mpc # "ready", ~raced, NEW n \in cloud
               PROVE  n > begin \/ n \in left
    BY DEF FreshCloud, DecodedHere
  <2>1. mpc \notin {"new", "failed", "ready"}
    BY DEF Session
  <2>2. QED
    BY <2>1 DEF Whole, Origins
<1>2. Typed => TypeOK
  BY DEF Typed
<1>3. QED
  BY <1>1, <1>2, InitTyped, NextTyped, InitSession, NextSession, InitWhole, NextWhole, PTL
     DEF Spec

-----------------------------------------------------------------------------
(* The states of a decoder *)

AllTypes == MechTypes \cup SeqTypes
Echoes == {"single", "dual"}
Consts ==
  [MSOP_LEN : Nat, DIFOP_LEN : Nat, IMU_LEN : Nat, LASER_NUM : Nat \ {0},
   BLOCKS_PER_PKT : Nat \ {0}, CHANNELS_PER_BLOCK : Nat \ {0},
   DISTANCE_MIN : Nat, DISTANCE_MAX : Nat, DISTANCE_RES : Nat,
   BLOCK_DURATION : Nat, LAST_TSS : Nat, MID_TSS : Nat]
Params ==
  [split_frame_mode : {"angle", "custom", "fixed"}, split_angle : Int, num_blks_split : Nat, ts_first_point : BOOLEAN,
   dense_points : BOOLEAN, wait_for_difop : BOOLEAN, config_from_file : BOOLEAN,
   angle_file_ok : BOOLEAN, use_lidar_clock : BOOLEAN, replay : BOOLEAN,
   min_distance : Nat, max_distance : Nat]
BlockSplits == [kind : {"angle"}, split_angle : Int, prev : Int] \cup [kind : {"num"}, blks : Nat]
SeqSplits == [kind : {"seq"}, prev : Nat, max : Nat, looped : BOOLEAN]
Splits == SeqSplits \cup BlockSplits
Decoders ==
  [type : AllTypes, const : Consts, param : Params, echo : Echoes, ready : BOOLEAN,
   packet_duration : Nat, prev_pkt_ts : Int, prev_point_ts : Nat, first_point_ts : Int,
   split : Splits, pre : Splits, rps : Nat, blks : Nat, split_blks : Nat, blind : Nat,
   model : Nat, init : BOOLEAN, install : Nat]
Clouds ==
  [points : Nat, from : Nat, to : Nat, opened : BOOLEAN, sure : BOOLEAN, frames : SUBSET Nat]
\* A cloud handed over: its header counts no more points than it has.
Outs ==
  {o \in [points : Nat, from : Nat, to : Nat, opened : BOOLEAN, sure : BOOLEAN,
          frames : SUBSET Nat, stamp : Int, height : Nat, width : Nat] :
     o.height * o.width <= o.points}
States ==
  [d : Decoders, cloud : Clouds, out : Outs, delivered : SUBSET Nat, imus : Nat, ret : BOOLEAN]

-----------------------------------------------------------------------------
(* Clouds *)

LEMMA CloudsTyped == EmptyCloud \in Clouds /\ NoCloud \in Outs
BY DEF EmptyCloud, NoCloud, withHeader, Clouds, Outs

\* The rows of a cloud times its columns are no more points than it has.
LEMMA HeaderTyped ==
  ASSUME NEW d, NEW c \in Clouds, NEW h \in Nat \ {0}, NEW ts \in Int
  PROVE  setPointCloudHeader(d, c, h, ts) \in Outs
<1>1. ASSUME NEW r \in Nat, NEW w \in Nat, r * w <= c.points
      PROVE  withHeader(c, ts, r, w) \in Outs
  BY <1>1 DEF withHeader, Outs, Clouds
<1>2. c.points \in Nat
  BY DEF Clouds
<1>3. 1 * c.points <= c.points
  BY <1>2
<1>4. h * (c.points \div h) <= c.points /\ c.points \div h \in Nat
  BY <1>2, Quotient
<1>5. QED
  BY <1>1, <1>2, <1>3, <1>4 DEF setPointCloudHeader

LEMMA SplitFrameTyped ==
  ASSUME NEW t \in States, NEW h \in Nat \ {0}
  PROVE  /\ splitFrame(t, h) \in States
         /\ splitFrame(t, h).d = t.d /\ splitFrame(t, h).imus = t.imus /\ splitFrame(t, h).ret = t.ret
         /\ splitFrame(t, h).delivered \subseteq t.delivered \cup t.cloud.frames
         /\ splitFrame(t, h).cloud \in {t.cloud, EmptyCloud}
<1>1. cloudTs(t.d) \in Int
  BY DEF cloudTs, States, Decoders, Params
<1>2. t.cloud \in Clouds /\ t.delivered \in SUBSET Nat /\ t.cloud.frames \in SUBSET Nat
  BY DEF States, Clouds
<1>3. setPointCloudHeader(t.d, t.cloud, h, cloudTs(t.d)) \in Outs
  BY <1>1, <1>2, HeaderTyped
<1>4. QED
  BY <1>2, <1>3, CloudsTyped DEF splitFrame, States

LEMMA BeginFrameTyped ==
  ASSUME NEW t \in States, NEW h \in Nat \ {0}, NEW ts \in Int
  PROVE  /\ beginFrame(t, h, ts) \in States
         /\ beginFrame(t, h, ts).d = [t.d EXCEPT !.first_point_ts = ts]
         /\ beginFrame(t, h, ts).imus = t.imus
         /\ beginFrame(t, h, ts).delivered \subseteq t.delivered \cup t.cloud.frames
         /\ beginFrame(t, h, ts).cloud.frames = {}
         /\ beginFrame(t, h, ts).ret
<1> DEFINE u == splitFrame(t, h)
<1>1. u \in States /\ u.d = t.d /\ u.imus = t.imus /\ u.delivered \subseteq t.delivered \cup t.cloud.frames
  BY SplitFrameTyped
<1>2. beginFrame(t, h, ts) = [u EXCEPT !.d.first_point_ts = ts, !.ret = TRUE,
                                       !.cloud = [EmptyCloud EXCEPT !.opened = TRUE]]
  BY DEF beginFrame
<1> HIDE DEF u
<1>3. [u.d EXCEPT !.first_point_ts = ts] \in Decoders
  BY <1>1 DEF States, Decoders
<1>4. [EmptyCloud EXCEPT !.opened = TRUE] \in Clouds /\ [EmptyCloud EXCEPT !.opened = TRUE].frames = {}
  BY DEF EmptyCloud, Clouds
<1>5. QED
  BY <1>1, <1>2, <1>3, <1>4 DEF States

\* What the blocks of a packet leave alone: all but the split and the stamps.
SameSettings(d, e) ==
  /\ e.type = d.type /\ e.const = d.const /\ e.param = d.param /\ e.echo = d.echo
  /\ e.ready = d.ready /\ e.packet_duration = d.packet_duration /\ e.pre = d.pre
  /\ e.rps = d.rps /\ e.blks = d.blks /\ e.split_blks = d.split_blks /\ e.blind = d.blind
  /\ e.model = d.model /\ e.init = d.init /\ e.install = d.install

LEMMA AddPointsTyped ==
  ASSUME NEW t \in States, NEW n \in Nat, NEW ts \in Nat, NEW from \in Nat, NEW to \in Nat,
         NEW sure
  PROVE  /\ addPoints(t, n, ts, from, to, sure) \in States
         /\ addPoints(t, n, ts, from, to, sure).d = [t.d EXCEPT !.prev_point_ts = ts]
         /\ addPoints(t, n, ts, from, to, sure).imus = t.imus
         /\ addPoints(t, n, ts, from, to, sure).ret = t.ret
         /\ addPoints(t, n, ts, from, to, sure).delivered = t.delivered
         /\ addPoints(t, n, ts, from, to, sure).cloud.frames = t.cloud.frames
         /\ addPoints(t, n, ts, from, to, sure).cloud.points = t.cloud.points + n
<1> DEFINE d == [t.d EXCEPT !.prev_point_ts = ts]
           c == [t.cloud EXCEPT !.points = t.cloud.points + n,
                                !.from = IF t.cloud.to = 0 THEN from ELSE t.cloud.from,
                                !.to = to, !.sure = t.cloud.sure /\ sure]
<1>1. t.d \in Decoders /\ t.cloud \in Clouds
  BY DEF States
<1>2. d \in Decoders
  BY <1>1 DEF Decoders
<1>3. c \in Clouds /\ c.frames = t.cloud.frames /\ c.points = t.cloud.points + n
  <2> DEFINE b == t.cloud.sure /\ sure
             f == IF t.cloud.to = 0 THEN from ELSE t.cloud.from
  <2>1. b \in BOOLEAN /\ f \in Nat /\ t.cloud.points + n \in Nat
    BY <1>1 DEF Clouds
  <2>2. c = [t.cloud EXCEPT !.points = t.cloud.points + n, !.from = f, !.to = to, !.sure = b]
    OBVIOUS
  <2> HIDE DEF b, f, c
  <2>3. QED
    BY <1>1, <2>1, <2>2 DEF Clouds
<1>4. addPoints(t, n, ts, from, to, sure) = [t EXCEPT !.d = d, !.cloud = c]
  BY <1>1 DEF addPoints, States, Clouds
<1> HIDE DEF d, c
<1>5. QED
  BY <1>2, <1>3, <1>4 DEF States, d

LEMMA NewBlockTyped ==
  ASSUME NEW sp \in BlockSplits, NEW angle \in Int, NEW m \in Nat
  PROVE  newBlock(sp, angle, m).state \in BlockSplits /\ newBlock(sp, angle, m).split \in BOOLEAN
<1>1. CASE sp.kind = "angle"
  <2>1. sp \in [kind : {"angle"}, split_angle : Int, prev : Int]
    BY <1>1 DEF BlockSplits
  <2>2. QED
    BY <1>1, <2>1 DEF BlockSplits, newBlock, ByAngle_newBlock
<1>2. CASE sp.kind # "angle"
  <2>1. sp \in [kind : {"num"}, blks : Nat]
    BY <1>2 DEF BlockSplits
  <2>2. QED
    BY <1>2, <2>1 DEF BlockSplits, newBlock, ByNum_newBlock
<1>3. QED
  BY <1>1, <1>2

\* One block of a mechanical lidar.
LEMMA DecodeBlockTyped ==
  ASSUME NEW t \in States, t.d.split \in BlockSplits, NEW p, NEW v, NEW k, NEW ts \in Nat,
         v.height \in Nat \ {0}, p.az[k] \in Int, p.fired[k] \in Nat
  PROVE  /\ decodeBlock(t, p, v, k, ts) \in States
         /\ decodeBlock(t, p, v, k, ts).d.split \in BlockSplits
         /\ SameSettings(t.d, decodeBlock(t, p, v, k, ts).d)
         /\ decodeBlock(t, p, v, k, ts).imus = t.imus
         /\ t.cloud.frames = {} /\ t.delivered = {} =>
              decodeBlock(t, p, v, k, ts).cloud.frames = {} /\ decodeBlock(t, p, v, k, ts).delivered = {}
<1> DEFINE new == newBlock(t.d.split, p.az[k], maxBlks(t.d))
           moved == [t EXCEPT !.d.split = new.state]
           last == IF v.paired /\ k % 2 = 1 THEN t.d.const.MID_TSS ELSE t.d.const.LAST_TSS
           n == t.d.const.CHANNELS_PER_BLOCK * pointsOfChannel(t.d, p.raw % 2 ^ v.bits)
           u == IF new.split THEN beginFrame(moved, v.height, ts) ELSE moved
<1>1. t.d \in Decoders /\ t.d.const \in Consts /\ t.d.param \in Params
  BY DEF States, Decoders
<1>2. maxBlks(t.d) \in Nat
  BY <1>1 DEF maxBlks, Decoders, Params
<1>3. new.state \in BlockSplits
  BY <1>2, NewBlockTyped
<1>4. last \in Nat
  BY <1>1 DEF Consts
<1>5. n \in Nat
  BY <1>1 DEF Consts, pointsOfChannel
<1>6. decodeBlock(t, p, v, k, ts) = addPoints(u, n, ts + last, p.fired[k], p.fired[k] + last, p.sure)
  BY DEF decodeBlock
<1> HIDE DEF new, last, n
<1>7. /\ moved \in States /\ moved.d = [t.d EXCEPT !.split = new.state] /\ moved.imus = t.imus
      /\ moved.cloud = t.cloud /\ moved.delivered = t.delivered
  <2>1. [t.d EXCEPT !.split = new.state] \in Decoders
    BY <1>1, <1>3 DEF Decoders, Splits
  <2>2. QED
    BY <2>1 DEF States
<1> HIDE DEF moved
<1>8. /\ u \in States /\ u.imus = t.imus
      /\ u.d.split = new.state /\ SameSettings(t.d, u.d)
      /\ t.cloud.frames = {} /\ t.delivered = {} => u.cloud.frames = {} /\ u.delivered = {}
  <2>1. CASE new.split
    <3> DEFINE h == v.height
               g == beginFrame(moved, h, ts)
    <3>0. h \in Nat \ {0} /\ ts \in Int /\ moved \in States
      BY <1>7
    <3> HIDE DEF h
    <3>1. /\ g \in States /\ g.d = [moved.d EXCEPT !.first_point_ts = ts] /\ g.imus = moved.imus
          /\ g.delivered \subseteq moved.delivered \cup moved.cloud.frames /\ g.cloud.frames = {}
      BY <3>0, BeginFrameTyped
    <3> HIDE DEF g
    <3>2. g.d.split = new.state /\ SameSettings(t.d, g.d)
      BY <1>1, <1>7, <3>1 DEF SameSettings, Decoders
    <3>3. u = g
      BY <2>1 DEF g, h
    <3> HIDE DEF u
    <3>4. QED
      BY <1>7, <3>1, <3>2, <3>3
  <2>2. CASE ~ new.split
    <3>1. moved.d.split = new.state /\ SameSettings(t.d, moved.d)
      BY <1>1, <1>7 DEF SameSettings, Decoders
    <3>2. QED
      BY <1>7, <2>2, <3>1
  <2>3. QED
    BY <2>1, <2>2
<1> HIDE DEF u
<1>10. ts + last \in Nat /\ p.fired[k] + last \in Nat
  BY <1>4
<1> DEFINE r == decodeBlock(t, p, v, k, ts)
<1>11. /\ r \in States /\ r.d = [u.d EXCEPT !.prev_point_ts = ts + last] /\ r.imus = u.imus
       /\ r.delivered = u.delivered /\ r.cloud.frames = u.cloud.frames
  <2> DEFINE at == ts + last
             from == p.fired[k]
             to == p.fired[k] + last
             sure == p.sure
             a == addPoints(u, n, at, from, to, sure)
  <2>0. at \in Nat /\ from \in Nat /\ to \in Nat /\ u \in States
    BY <1>8, <1>10
  <2> HIDE DEF at, from, to, sure
  <2>1. /\ a \in States /\ a.d = [u.d EXCEPT !.prev_point_ts = at] /\ a.imus = u.imus
        /\ a.delivered = u.delivered /\ a.cloud.frames = u.cloud.frames
    BY <1>5, <2>0, AddPointsTyped
  <2>2. r = a
    BY <1>6 DEF at, from, to, sure
  <2> HIDE DEF r, a
  <2>3. QED
    BY <2>1, <2>2 DEF at
<1> HIDE DEF r
<1>12. r.d.split = u.d.split /\ SameSettings(u.d, r.d)
  BY <1>8, <1>11 DEF SameSettings, States, Decoders
<1>13. QED
  BY <1>3, <1>8, <1>11, <1>12 DEF SameSettings, r
\* The blocks of a packet, one after another.
LEMMA BlocksOneByOne ==
  ASSUME NEW t, NEW p, NEW it, NEW v, NEW n \in Nat, n = blocksOf(t.d, p, v.ids),
         NEW ts, ts = pktTs(t.d, p),
         NEW off, off = Offsets(it, p.az, t.d.const.BLOCK_DURATION, t.d.blind)
  PROVE  \E g : /\ g[0] = [t EXCEPT !.ret = FALSE]
                /\ \A k \in 1 .. n : g[k] = decodeBlock(g[k - 1], p, v, k, ts + off[k])
                /\ internDecodeMsopPkt(t, p, it, v) = [g[n] EXCEPT !.d.prev_pkt_ts = ts]
<1> DEFINE F(f, k) == IF k = 0 THEN [t EXCEPT !.ret = FALSE]
                      ELSE decodeBlock(f[k - 1], p, v, k, ts + off[k])
           after == CHOOSE f : f = [k \in 0 .. n |-> F(f, k)]
           Has == {m \in Nat : \E f : f = [k \in 0 .. m |-> F(f, k)]}
<1>1. internDecodeMsopPkt(t, p, it, v) = [after[n] EXCEPT !.d.prev_pkt_ts = ts]
  BY DEF internDecodeMsopPkt
<1>2. 0 \in Has
  <2> DEFINE f == [k \in 0 .. 0 |-> [t EXCEPT !.ret = FALSE]]
  <2>1. f = [k \in 0 .. 0 |-> F(f, k)]
    OBVIOUS
  <2>2. QED
    BY <2>1
<1>3. ASSUME NEW m \in Nat, m \in Has PROVE m + 1 \in Has
  <2>1. PICK f : f = [k \in 0 .. m |-> F(f, k)]
    BY <1>3
  <2> DEFINE g == [k \in 0 .. (m + 1) |-> IF k = m + 1 THEN F(f, m + 1) ELSE f[k]]
  <2>2. ASSUME NEW k \in 0 .. (m + 1) PROVE g[k] = F(g, k)
    <3>1. CASE k = 0
      <4>1. f[0] = F(f, 0)
        BY <2>1
      <4>2. QED
        BY <3>1, <4>1
    <3>2. CASE k # 0
      <4>1. k - 1 \in 0 .. m /\ g[k - 1] = f[k - 1]
        BY <3>2
      <4>2. F(g, k) = F(f, k)
        BY <4>1
      <4>3. CASE k = m + 1
        BY <4>2, <4>3
      <4>4. CASE k # m + 1
        <5>1. k \in 0 .. m
          BY <4>4
        <5>2. f[k] = F(f, k)
          BY <2>1, <5>1
        <5>3. QED
          BY <4>2, <4>4, <5>2
      <4>5. QED
        BY <4>3, <4>4
    <3>3. QED
      BY <3>1, <3>2
  <2> HIDE DEF F
  <2>3. g = [k \in 0 .. (m + 1) |-> F(g, k)]
    <3>1. g = [k \in 0 .. (m + 1) |-> g[k]]
      OBVIOUS
    <3> HIDE DEF g
    <3>2. QED
      BY <2>2, <3>1
  <2> HIDE DEF g
  <2>4. \E x : x = [k \in 0 .. (m + 1) |-> F(x, k)]
    BY <2>3
  <2>5. QED
    BY <2>4
<1> HIDE DEF Has
<1>4. n \in Has
  BY <1>2, <1>3, SetInduction
<1> HIDE DEF F
<1>5. after = [k \in 0 .. n |-> F(after, k)]
  BY <1>4 DEF Has
<1> HIDE DEF after
<1>7. \A k \in 0 .. n : after[k] = F(after, k)
  BY <1>5
<1>8. after[0] = [t EXCEPT !.ret = FALSE]
  <2>1. after[0] = F(after, 0)
    BY <1>7
  <2>2. QED
    BY <2>1 DEF F
<1>9. ASSUME NEW k \in 1 .. n PROVE after[k] = decodeBlock(after[k - 1], p, v, k, ts + off[k])
  <2>1. after[k] = F(after, k) /\ k # 0
    BY <1>7
  <2>2. QED
    BY <2>1 DEF F
<1>10. QED
  BY <1>1, <1>8, <1>9

\* A whole packet of a mechanical lidar.
LEMMA InternTyped ==
  ASSUME NEW t \in States, t.d.split \in BlockSplits, NEW p, NEW it, NEW v,
         v.height \in Nat \ {0}, blocksOf(t.d, p, v.ids) \in Nat, pktTs(t.d, p) \in Nat,
         \A k \in 1 .. blocksOf(t.d, p, v.ids) :
           /\ p.az[k] \in Int /\ p.fired[k] \in Nat
           /\ Offsets(it, p.az, t.d.const.BLOCK_DURATION, t.d.blind)[k] \in Nat
  PROVE  LET r == internDecodeMsopPkt(t, p, it, v)
         IN /\ r \in States /\ r.d.split \in BlockSplits /\ SameSettings(t.d, r.d) /\ r.imus = t.imus
            /\ t.cloud.frames = {} /\ t.delivered = {} => r.cloud.frames = {} /\ r.delivered = {}
<1> DEFINE n == blocksOf(t.d, p, v.ids)
           ts == pktTs(t.d, p)
           off == Offsets(it, p.az, t.d.const.BLOCK_DURATION, t.d.blind)
           r == internDecodeMsopPkt(t, p, it, v)
           h == v.height
           Good(u) == /\ u \in States /\ u.d.split \in BlockSplits /\ SameSettings(t.d, u.d)
                      /\ u.imus = t.imus
                      /\ t.cloud.frames = {} /\ t.delivered = {} =>
                           u.cloud.frames = {} /\ u.delivered = {}
<1>2. /\ n \in Nat /\ ts \in Nat /\ h \in Nat \ {0}
      /\ \A k \in 1 .. n : p.az[k] \in Int /\ p.fired[k] \in Nat /\ off[k] \in Nat
  OBVIOUS
<1>0. n = blocksOf(t.d, p, v.ids) /\ ts = pktTs(t.d, p)
      /\ off = Offsets(it, p.az, t.d.const.BLOCK_DURATION, t.d.blind)
      /\ r = internDecodeMsopPkt(t, p, it, v)
  OBVIOUS
<1> HIDE DEF n, ts, off, r
<1>1. PICK g : /\ g[0] = [t EXCEPT !.ret = FALSE]
               /\ \A k \in 1 .. n : g[k] = decodeBlock(g[k - 1], p, v, k, ts + off[k])
               /\ r = [g[n] EXCEPT !.d.prev_pkt_ts = ts]
  BY <1>0, <1>2, BlocksOneByOne
<1> DEFINE Done == {k \in Nat : k <= n => Good(g[k])}
<1>3. 0 \in Done
  <2>1. g[0] \in States /\ g[0].d = t.d /\ g[0].imus = t.imus /\ g[0].cloud = t.cloud
        /\ g[0].delivered = t.delivered
    BY <1>1 DEF States
  <2>2. SameSettings(t.d, g[0].d)
    BY <2>1 DEF SameSettings
  <2>3. QED
    BY <2>1, <2>2
<1>4. ASSUME NEW k \in Nat, k \in Done PROVE k + 1 \in Done
  <2>1. SUFFICES ASSUME k + 1 <= n PROVE Good(g[k + 1])
    OBVIOUS
  <2>2. k + 1 \in 1 .. n /\ (k + 1) - 1 = k /\ k <= n
    BY <1>2, <2>1
  <2> DEFINE u == g[k]
             w == g[k + 1]
             at == ts + off[k + 1]
  <2>3. Good(u)
    BY <1>4, <2>2
  <2>4. w = decodeBlock(u, p, v, k + 1, at)
    BY <1>1, <2>2
  <2>5. at \in Nat /\ p.az[k + 1] \in Int /\ p.fired[k + 1] \in Nat
    BY <1>2, <2>2
  <2> HIDE DEF u, w, at
  <2>6. u \in States /\ u.d.split \in BlockSplits
    BY <2>3
  <2>7. /\ w \in States /\ w.d.split \in BlockSplits /\ SameSettings(u.d, w.d) /\ w.imus = u.imus
        /\ u.cloud.frames = {} /\ u.delivered = {} => w.cloud.frames = {} /\ w.delivered = {}
    BY <1>2, <2>4, <2>5, <2>6, DecodeBlockTyped
  <2>8. SameSettings(t.d, w.d)
    BY <2>3, <2>7 DEF SameSettings
  <2>9. QED
    BY <2>3, <2>7, <2>8 DEF w
<1> HIDE DEF Done
<1>5. Good(g[n])
  <2>1. n \in Done
    BY <1>2, <1>3, <1>4, SetInduction
  <2>2. QED
    BY <1>2, <2>1 DEF Done
<1> DEFINE u == g[n]
<1>6. Good(u) /\ r = [u EXCEPT !.d.prev_pkt_ts = ts]
  BY <1>1, <1>5
<1> HIDE DEF u
<1>7. /\ r \in States /\ r.d = [u.d EXCEPT !.prev_pkt_ts = ts] /\ r.imus = u.imus /\ r.cloud = u.cloud
      /\ r.delivered = u.delivered
  <2>1. [u.d EXCEPT !.prev_pkt_ts = ts] \in Decoders
    BY <1>2, <1>6 DEF States, Decoders
  <2>2. QED
    BY <1>6, <2>1 DEF States
<1>8. r.d.split = u.d.split /\ SameSettings(t.d, r.d)
  BY <1>6, <1>7 DEF SameSettings, States, Decoders
<1>9. QED
  BY <1>6, <1>7, <1>8 DEF r

\* The times of the blocks, counted from the first one, are natural numbers.
LEMMA OffsetsTyped ==
  ASSUME NEW it, NEW az, NEW D \in Nat, NEW blind \in Nat, NEW B \in Nat \ {0}, Len(az) = B,
         it.ab => B = 3,
         ~ it.ab => /\ it.group \in Nat \ {0} /\ B % it.group = 0 /\ it.scale \in Nat
  PROVE  \A k \in 1 .. B : Offsets(it, az, D, blind)[k] \in Nat
<1>0. ASSUME NEW a, NEW b, NEW st \in Nat PROVE Elapsed(a, b, st, blind) \in Nat
  BY <1>0 DEF Elapsed
<1>1. CASE it.ab
  <2> DEFINE later == Elapsed(az[1], az[3], D, blind)
  <2>1. later \in Nat
    BY <1>0
  <2> HIDE DEF later
  <2>2. Offsets(it, az, D, blind) \in {<<0, 0, later>>, <<0, later, later>>}
    BY <1>1 DEF Offsets, ABDualOffsets, later
  <2>3. QED
    BY <1>1, <2>1, <2>2
<1>2. CASE ~ it.ab
  <2> DEFINE N == (Len(az) \div it.group) - 1
             first(g) == az[g * it.group + 1]
             F(f, g) == IF g = 0 THEN 0
                        ELSE f[g - 1] + Elapsed(first(g - 1), first(g), it.scale * D, blind)
             at == CHOOSE f : f = [g \in 0 .. N |-> F(f, g)]
             Has == {m \in Nat : \E f \in [0 .. m -> Nat] : f = [g \in 0 .. m |-> F(f, g)]}
  <2>1. it.scale * D \in Nat
    BY <1>2
  <2>2. ASSUME NEW f, NEW g \in Nat, g # 0 => f[g - 1] \in Nat PROVE F(f, g) \in Nat
    <3>1. Elapsed(first(g - 1), first(g), it.scale * D, blind) \in Nat
      BY <1>0, <2>1
    <3>2. QED
      BY <2>2, <3>1
  <2>3. Offsets(it, az, D, blind) = [k \in 1 .. Len(az) |-> at[(k - 1) \div it.group]]
    BY <1>2 DEF Offsets, GroupOffsets
  <2>4. 0 \in Has
    <3> DEFINE f == [g \in 0 .. 0 |-> 0]
    <3>1. f = [g \in 0 .. 0 |-> F(f, g)] /\ f \in [0 .. 0 -> Nat]
      OBVIOUS
    <3>2. QED
      BY <3>1
  <2> HIDE DEF first
  <2>5. ASSUME NEW m \in Nat, m \in Has PROVE m + 1 \in Has
    <3>1. PICK f \in [0 .. m -> Nat] : f = [g \in 0 .. m |-> F(f, g)]
      BY <2>5
    <3> DEFINE h == [g \in 0 .. (m + 1) |-> IF g = m + 1 THEN F(f, m + 1) ELSE f[g]]
    <3>2. F(f, m + 1) \in Nat
      <4>1. (m + 1) - 1 \in 0 .. m
        OBVIOUS
      <4>2. f[(m + 1) - 1] \in Nat
        BY <4>1
      <4> HIDE DEF F
      <4>3. QED
        BY <2>2, <4>2
    <3>3. h \in [0 .. (m + 1) -> Nat]
      <4> HIDE DEF F
      <4>1. QED
        BY <3>2
    <3>4. ASSUME NEW g \in 0 .. (m + 1) PROVE h[g] = F(h, g)
      <4>1. CASE g = 0
        <5>1. f[0] = F(f, 0)
          BY <3>1
        <5>2. QED
          BY <4>1, <5>1
      <4>2. CASE g # 0
        <5>1. g - 1 \in 0 .. m /\ h[g - 1] = f[g - 1]
          BY <4>2
        <5>2. F(h, g) = F(f, g)
          BY <5>1
        <5>3. CASE g = m + 1
          BY <5>2, <5>3
        <5>4. CASE g # m + 1
          <6>1. g \in 0 .. m
            BY <5>4
          <6>2. f[g] = F(f, g)
            BY <3>1, <6>1
          <6>3. QED
            BY <5>2, <5>4, <6>2
        <5>5. QED
          BY <5>3, <5>4
      <4>3. QED
        BY <4>1, <4>2
    <3> HIDE DEF F
    <3>5. h = [g \in 0 .. (m + 1) |-> F(h, g)]
      <4>1. h = [g \in 0 .. (m + 1) |-> h[g]]
        OBVIOUS
      <4> HIDE DEF h
      <4>2. QED
        BY <3>4, <4>1
    <3> HIDE DEF h
    <3>6. \E x \in [0 .. (m + 1) -> Nat] : x = [g \in 0 .. (m + 1) |-> F(x, g)]
      BY <3>3, <3>5
    <3>7. QED
      BY <3>6
  <2> HIDE DEF Has
  <2>6. Nat \subseteq Has
    BY <2>4, <2>5, SetInduction
  <2> DEFINE q == B \div it.group
  <2>7. q \in Nat \ {0} /\ B = it.group * q
    <3> DEFINE m == it.group
    <3>1. m \in Nat \ {0} /\ B % m = 0
      BY <1>2
    <3> HIDE DEF m
    <3>0. B \div m \in Nat
      BY <3>1, Quotient
    <3>2. B = m * (B \div m)
      BY <3>0, <3>1, DivMod
    <3>3. B \div m # 0
      BY <3>1, <3>2, B # 0
    <3>4. QED
      BY <3>0, <3>2, <3>3 DEF m
  <2>8. N = q - 1
    OBVIOUS
  <2> HIDE DEF F, N
  <2>9. N \in Nat
    BY <2>7, <2>8
  <2>10. \E f : f = [g \in 0 .. N |-> F(f, g)]
    BY <2>6, <2>9 DEF Has
  <2>11. at = [g \in 0 .. N |-> F(at, g)]
    BY <2>10
  <2> HIDE DEF at
  <2>12. \A g \in 0 .. N : at[g] \in Nat
    <3> DEFINE Good == {g \in Nat : g <= N => at[g] \in Nat}
    <3>1. 0 \in Good
      <4>1. at[0] = F(at, 0)
        BY <2>9, <2>11
      <4>2. QED
        BY <4>1 DEF F
    <3>2. ASSUME NEW g \in Nat, g \in Good PROVE g + 1 \in Good
      <4>1. SUFFICES ASSUME g + 1 <= N PROVE at[g + 1] \in Nat
        OBVIOUS
      <4>2. at[g + 1] = F(at, g + 1)
        BY <2>9, <2>11, <4>1
      <4>3. at[(g + 1) - 1] \in Nat
        BY <2>9, <3>2, <4>1
      <4>4. QED
        BY <2>2, <4>2, <4>3
    <3> HIDE DEF Good
    <3>3. Nat \subseteq Good
      BY <3>1, <3>2, SetInduction
    <3>4. QED
      BY <2>9, <3>3 DEF Good
  <2>13. ASSUME NEW k \in 1 .. B PROVE (k - 1) \div it.group \in 0 .. N
    <3> DEFINE m == it.group
               x == (k - 1) \div m
    <3>1. m \in Nat \ {0} /\ k - 1 \in Nat /\ k - 1 < m * q
      BY <1>2, <2>7
    <3>2. x \in Nat /\ m * x <= k - 1
      BY <3>1, Quotient
    <3> HIDE DEF x, m, q
    <3>3. ASSUME x >= q PROVE FALSE
      <4> DEFINE mx == m * x
                 mq == m * q
      <4>1. mx >= mq /\ mx \in Int /\ mq \in Int
        BY <2>7, <3>1, <3>2, <3>3
      <4>2. mx <= k - 1 /\ k - 1 < mq /\ k - 1 \in Nat
        BY <3>1, <3>2
      <4> HIDE DEF mx, mq
      <4>3. QED
        BY <4>1, <4>2
    <3>4. x \in 0 .. N
      BY <2>7, <2>8, <3>2, <3>3
    <3>5. QED
      BY <3>4 DEF x, m
  <2>14. QED
    BY <2>3, <2>12, <2>13
<1>3. QED
  BY <1>1, <1>2

-----------------------------------------------------------------------------
(* The decoders of the mechanical lidars *)

\* decodeMsopPkt of each mechanical decoder keeps a decoder a decoder; it learns the
\* model and the durations it decodes with from the packets, never split_blks_.

BlockCount(type) ==
  CASE type \in {"RS128", "RSP128"} -> 3
    [] type \in {"RS80", "RSP80"} -> 4
    [] type \in {"RS48", "RSP48"} \cup AiryTypes -> 8
    [] type = "RSAIRYLITE" -> 16
    [] OTHER -> 12
\* The durations of a block: RSBP's second one is that of its version 4.
Durations(type) ==
  CASE type = "RS16" -> {55500}
    [] type = "RS32" -> {55520}
    [] type = "RSBP" -> {55520, 55560}
    [] type \in {"RS48", "RS80"} -> {55552}
    [] type = "RS128" -> {55550}
    [] type = "RSAIRY" -> {111080}
    [] type = "RSFAIRY" -> {69462}
    [] type = "RSAIRYLITE" -> {166667}
    [] OTHER -> {55560}
MechDecoder(d) ==
  /\ d \in Decoders /\ d.type \in MechTypes /\ d.split \in BlockSplits /\ d.pre \in BlockSplits
  /\ d.packet_duration <= 100000000
  /\ d.const.BLOCKS_PER_PKT = BlockCount(d.type)
  /\ d.const.BLOCK_DURATION \in Durations(d.type)
  /\ d.type = "RSFAIRY" /\ d.init => d.model \in {48, 96}

\* What the packets of a mechanical lidar hold.
MechPacket(type, p) ==
  /\ Len(p.az) = BlockCount(type)
  /\ \A k \in 1 .. BlockCount(type) : p.az[k] \in Int /\ p.fired[k] \in Nat
  /\ p.bad \in 0 .. BlockCount(type) /\ p.ts \in Nat /\ p.host \in Nat /\ p.host >= 100000000
  /\ p.model \in Nat
FitsIterator(it, B) ==
  /\ it.ab => B = 3
  /\ ~ it.ab => it.group \in Nat \ {0} /\ B % it.group = 0 /\ it.scale \in Nat

\* None of the frames that the lidars which number their packets keep count of.
NoFrames(t) == t.cloud.frames = {} /\ t.delivered = {}
\* What decoding a packet of points may do to a mechanical decoder, and to a
\* state of it.
Learnt(d, e) ==
  /\ MechDecoder(e) /\ e.type = d.type /\ e.rps = d.rps /\ e.blks = d.blks /\ e.pre = d.pre
  /\ e.param = d.param /\ e.ready = d.ready
  /\ d.type \notin AiryTypes => e.split_blks = d.split_blks /\ e.echo = d.echo
MechDecoded(t, r) ==
  r \in States /\ Learnt(t.d, r.d) /\ r.imus = t.imus /\ (NoFrames(t) => NoFrames(r))

LEMMA InternDecoded ==
  ASSUME NEW t \in States, MechDecoder(t.d), NEW p, MechPacket(t.d.type, p), NEW it,
         FitsIterator(it, BlockCount(t.d.type)), NEW v, v.height \in Nat \ {0}
  PROVE  /\ MechDecoded(t, internDecodeMsopPkt(t, p, it, v))
         /\ SameSettings(t.d, internDecodeMsopPkt(t, p, it, v).d)
<1> DEFINE B == BlockCount(t.d.type)
           n == blocksOf(t.d, p, v.ids)
           r == internDecodeMsopPkt(t, p, it, v)
           D == t.d.const.BLOCK_DURATION
           bl == t.d.blind
           off == Offsets(it, p.az, D, bl)
<1>1. t.d \in Decoders /\ t.d.const \in Consts /\ t.d.split \in BlockSplits
  BY DEF MechDecoder, Decoders
<1>2. B = t.d.const.BLOCKS_PER_PKT /\ B \in Nat \ {0} /\ D \in Nat /\ bl \in Nat
  BY <1>1 DEF MechDecoder, Decoders, Consts
<1>3. n \in 0 .. B
  <2>1. p.bad \in 0 .. B
    BY DEF MechPacket
  <2> HIDE DEF B
  <2>2. QED
    BY <1>2, <2>1 DEF blocksOf
<1>4. pktTs(t.d, p) \in Nat
  <2>1. t.d.packet_duration \in Nat /\ t.d.packet_duration <= 100000000
    BY <1>1 DEF MechDecoder, Decoders
  <2>2. p.ts \in Nat /\ p.host \in Nat /\ p.host >= 100000000
    BY DEF MechPacket
  <2>3. QED
    BY <2>1, <2>2 DEF pktTs
<1>5. Len(p.az) = B /\ \A k \in 1 .. B : p.az[k] \in Int /\ p.fired[k] \in Nat
  BY DEF MechPacket
<1>6. /\ it.ab => B = 3
      /\ ~ it.ab => it.group \in Nat \ {0} /\ B % it.group = 0 /\ it.scale \in Nat
  BY DEF FitsIterator
<1>7. off = Offsets(it, p.az, t.d.const.BLOCK_DURATION, t.d.blind) /\ n = blocksOf(t.d, p, v.ids)
  OBVIOUS
<1> HIDE DEF B, n, D, bl
<1>8. \A k \in 1 .. B : off[k] \in Nat
  BY <1>2, <1>5, <1>6, OffsetsTyped
<1> HIDE DEF off
<1>9. \A k \in 1 .. n : k \in 1 .. B
  BY <1>2, <1>3
<1>10. n \in Nat
  BY <1>3
<1>11. /\ r \in States /\ r.d.split \in BlockSplits /\ SameSettings(t.d, r.d) /\ r.imus = t.imus
       /\ t.cloud.frames = {} /\ t.delivered = {} => r.cloud.frames = {} /\ r.delivered = {}
  BY <1>1, <1>4, <1>5, <1>7, <1>8, <1>9, <1>10, InternTyped
<1> HIDE DEF r
<1>12. MechDecoder(r.d)
  BY <1>11 DEF MechDecoder, SameSettings, States
<1>13. QED
  BY <1>11, <1>12 DEF MechDecoded, Learnt, SameSettings, NoFrames, r

LEMMA DecodedAfter ==
  ASSUME NEW t \in States, NEW e, Learnt(t.d, e), NEW r, MechDecoded([t EXCEPT !.d = e], r)
  PROVE  MechDecoded(t, r)
<1>1. [t EXCEPT !.d = e].d = e /\ [t EXCEPT !.d = e].imus = t.imus
      /\ (NoFrames([t EXCEPT !.d = e]) <=> NoFrames(t))
  BY DEF States, NoFrames
<1>2. r \in States /\ Learnt(e, r.d) /\ r.imus = t.imus /\ (NoFrames(t) => NoFrames(r))
  BY <1>1 DEF MechDecoded
<1>3. Learnt(t.d, r.d)
  BY <1>2 DEF Learnt
<1>4. QED
  BY <1>2, <1>3 DEF MechDecoded

LEMMA LearntNothing ==
  ASSUME NEW d, MechDecoder(d)
  PROVE  Learnt(d, d)
BY DEF Learnt

LEMMA DecodedNothing ==
  ASSUME NEW t \in States, MechDecoder(t.d)
  PROVE  MechDecoded(t, t) /\ MechDecoded(t, [t EXCEPT !.ret = FALSE])
<1>1. [t EXCEPT !.ret = FALSE] \in States /\ [t EXCEPT !.ret = FALSE].d = t.d
      /\ [t EXCEPT !.ret = FALSE].imus = t.imus /\ [t EXCEPT !.ret = FALSE].cloud = t.cloud
      /\ [t EXCEPT !.ret = FALSE].delivered = t.delivered
  BY DEF States
<1>2. QED
  BY <1>1, LearntNothing DEF MechDecoded, NoFrames

\* The iterators of every type suit the blocks of its packets.
LEMMA IteratorsFit ==
  /\ \A B \in {4, 8, 12, 16} : /\ FitsIterator(SingleReturnBlockIterator, B)
                               /\ FitsIterator(DualReturnBlockIterator, B)
                               /\ FitsIterator(TwoInOneBlockIterator, B)
                               /\ FitsIterator(FourInOneBlockIterator, B)
                               /\ FitsIterator(Rs16SingleReturnBlockIterator, B)
                               /\ FitsIterator(Rs16DualReturnBlockIterator, B)
  /\ FitsIterator(SingleReturnBlockIterator, 3) /\ FitsIterator(ABDualReturnBlockIterator, 3)
BY DEF FitsIterator, SingleReturnBlockIterator, DualReturnBlockIterator, TwoInOneBlockIterator,
       FourInOneBlockIterator, Rs16SingleReturnBlockIterator, Rs16DualReturnBlockIterator,
       ABDualReturnBlockIterator, Iterator

PlainTypes == {"RS16", "RS32", "RS48", "RS80", "RS128", "RSP48", "RSP128", "RSHELIOS",
               "RSHELIOS_16P", "RSAIRYLITE"}
LEMMA PlainMsop ==
  ASSUME NEW t, t.d.type \in PlainTypes, NEW p
  PROVE  \E it, v : /\ decodeMsopPkt(t, p) = internDecodeMsopPkt(t, p, it, v)
                    /\ FitsIterator(it, BlockCount(t.d.type))
                    /\ v.height \in {24, t.d.const.LASER_NUM}
<1> DEFINE type == t.d.type
           B == BlockCount(type)
           v == Variant(t.d)
           Intern(it) == internDecodeMsopPkt(t, p, it, v)
<1>1. v.height = t.d.const.LASER_NUM
  BY DEF Variant
<1>2. CASE type = "RS16"
  <2>1. decodeMsopPkt(t, p) = Intern(IF Single(t.d) THEN Rs16SingleReturnBlockIterator
                                     ELSE Rs16DualReturnBlockIterator)
    BY <1>2 DEF decodeMsopPkt, RS16_decodeMsopPkt, RS16_internDecodeMsopPkt
  <2>2. QED
    BY <1>1, <1>2, <2>1, IteratorsFit DEF BlockCount, AiryTypes
<1>3. CASE type = "RSHELIOS_16P"
  <2>1. decodeMsopPkt(t, p) = Intern(IF Single(t.d) THEN Rs16SingleReturnBlockIterator
                                     ELSE Rs16DualReturnBlockIterator)
    BY <1>3 DEF decodeMsopPkt, RSHELIOS_16P_decodeMsopPkt, RSHELIOS_16P_internDecodeMsopPkt
  <2>2. QED
    BY <1>1, <1>3, <2>1, IteratorsFit DEF BlockCount, AiryTypes
<1>4. CASE type \in {"RS32", "RS48", "RS80", "RSP48", "RSHELIOS"}
  <2>1. decodeMsopPkt(t, p) = Intern(IF Single(t.d) THEN SingleReturnBlockIterator
                                     ELSE DualReturnBlockIterator)
    BY <1>4 DEF decodeMsopPkt, RS32_decodeMsopPkt, RS32_internDecodeMsopPkt,
         RS48_decodeMsopPkt, RS48_internDecodeMsopPkt, RS80_decodeMsopPkt,
         RS80_internDecodeMsopPkt, RSP48_decodeMsopPkt, RSP48_internDecodeMsopPkt,
         RSHELIOS_decodeMsopPkt, RSHELIOS_internDecodeMsopPkt
  <2>2. B \in {4, 8, 12}
    BY <1>4 DEF BlockCount, AiryTypes
  <2>3. QED
    BY <1>1, <2>1, <2>2, IteratorsFit
<1>5. CASE type \in {"RS128", "RSP128"}
  <2>1. decodeMsopPkt(t, p) = Intern(IF Single(t.d) THEN SingleReturnBlockIterator
                                     ELSE ABDualReturnBlockIterator)
    BY <1>5 DEF decodeMsopPkt, RS128_decodeMsopPkt, RS128_internDecodeMsopPkt,
         RSP128_decodeMsopPkt, RSP128_internDecodeMsopPkt
  <2>2. B = 3
    BY <1>5 DEF BlockCount, AiryTypes
  <2>3. QED
    BY <1>1, <2>1, <2>2, IteratorsFit
<1>6. CASE type = "RSAIRYLITE"
  <2> DEFINE w == [Variant(t.d) EXCEPT !.height = 24, !.bits = 14, !.ids = FALSE]
  <2>1. decodeMsopPkt(t, p) = internDecodeMsopPkt(t, p, SingleReturnBlockIterator, w)
    BY <1>6 DEF decodeMsopPkt, RSAIRYLITE_decodeMsopPkt, RSAIRYLITE_internDecodeMsopPkt
  <2>2. B = 16 /\ w.height = 24
    BY <1>6 DEF BlockCount, AiryTypes, Variant
  <2>3. FitsIterator(SingleReturnBlockIterator, B)
    BY <2>2, IteratorsFit
  <2>4. QED
    BY <2>1, <2>2, <2>3
<1>7. QED
  BY <1>2, <1>3, <1>4, <1>5, <1>6 DEF PlainTypes

LEMMA MechSettings ==
  ASSUME NEW d, MechDecoder(d)
  PROVE  /\ d \in Decoders /\ d.const \in Consts /\ d.param \in Params /\ d.type \in MechTypes
         /\ d.const.LASER_NUM \in Nat \ {0}
         /\ d.const.BLOCK_DURATION \in Durations(d.type)
BY DEF MechDecoder, Decoders, Consts

\* A packet of points may change the constants of a decoder, the model of the
\* lidar and the returns with what follows from them; this stays as it is.
Kept(d, e) ==
  /\ e \in Decoders /\ e.type = d.type /\ e.param = d.param /\ e.ready = d.ready
  /\ e.packet_duration = d.packet_duration /\ e.split = d.split /\ e.pre = d.pre
  /\ e.rps = d.rps /\ e.blks = d.blks /\ e.install = d.install
  /\ e.const.BLOCKS_PER_PKT = d.const.BLOCKS_PER_PKT

WithModel(d, m) == [d EXCEPT !.model = m]
WithConst(d, c) == [d EXCEPT !.const = c]
WithInit(d) == [d EXCEPT !.init = TRUE]
WithLast(d, n) == [d EXCEPT !.const.LAST_TSS = n]
WithMid(d, n) == [d EXCEPT !.const.MID_TSS = n]

LEMMA ModelChanges ==
  ASSUME NEW d \in Decoders, NEW m \in Nat, NEW e, e = WithModel(d, m)
  PROVE  /\ Kept(d, e) /\ e.model = m /\ e.const = d.const /\ e.init = d.init
         /\ e.echo = d.echo /\ e.split_blks = d.split_blks
BY DEF WithModel, Kept, Decoders

LEMMA ConstChanges ==
  ASSUME NEW d \in Decoders, NEW c \in Consts, c.BLOCKS_PER_PKT = d.const.BLOCKS_PER_PKT,
         NEW e, e = WithConst(d, c)
  PROVE  /\ Kept(d, e) /\ e.model = d.model /\ e.const = c /\ e.init = d.init
         /\ e.echo = d.echo /\ e.split_blks = d.split_blks
BY DEF WithConst, Kept, Decoders

LEMMA InitChanges ==
  ASSUME NEW d \in Decoders, NEW e, e = WithInit(d)
  PROVE  /\ Kept(d, e) /\ e.model = d.model /\ e.const = d.const /\ e.init
         /\ e.echo = d.echo /\ e.split_blks = d.split_blks
BY DEF WithInit, Kept, Decoders

LEMMA EchoChanges ==
  ASSUME NEW d \in Decoders, NEW echo \in Echoes, NEW e, e = difopEcho(d, echo)
  PROVE  /\ Kept(d, e) /\ e.model = d.model /\ e.const = d.const /\ e.init = d.init
         /\ e.echo = echo /\ e.split_blks = (IF echo = "dual" THEN d.blks * 2 ELSE d.blks)
<1> DEFINE n == IF echo = "dual" THEN d.blks * 2 ELSE d.blks
<1>1. n \in Nat
  BY DEF Decoders
<1>2. e = [d EXCEPT !.echo = echo, !.split_blks = n]
  BY DEF difopEcho
<1> HIDE DEF n
<1>3. QED
  <2>1. e \in Decoders
    BY <1>1, <1>2 DEF Decoders
  <2>2. /\ e.type = d.type /\ e.param = d.param /\ e.ready = d.ready /\ e.pre = d.pre
        /\ e.packet_duration = d.packet_duration /\ e.split = d.split
        /\ e.rps = d.rps /\ e.blks = d.blks /\ e.install = d.install
        /\ e.const = d.const /\ e.model = d.model /\ e.init = d.init
        /\ e.echo = echo /\ e.split_blks = n
    BY <1>2 DEF Decoders
  <2>3. QED
    BY <2>1, <2>2 DEF Kept, n

LEMMA LastTssChanges ==
  ASSUME NEW d \in Decoders, NEW n \in Nat, NEW e, e = WithLast(d, n)
  PROVE  /\ Kept(d, e) /\ e.model = d.model /\ e.init = d.init
         /\ e.echo = d.echo /\ e.split_blks = d.split_blks
         /\ e.const.BLOCK_DURATION = d.const.BLOCK_DURATION
<1> DEFINE c == [d.const EXCEPT !.LAST_TSS = n]
<1>1. d.const \in Consts
  BY DEF Decoders
<1>2. /\ c \in Consts /\ c.BLOCKS_PER_PKT = d.const.BLOCKS_PER_PKT
      /\ c.BLOCK_DURATION = d.const.BLOCK_DURATION
  BY <1>1 DEF Consts
<1>3. e = WithConst(d, c)
  BY DEF WithLast, WithConst
<1> HIDE DEF c
<1>4. QED
  BY <1>2, <1>3, ConstChanges

LEMMA MidTssChanges ==
  ASSUME NEW d \in Decoders, NEW n \in Nat, NEW e, e = WithMid(d, n)
  PROVE  Kept(d, e) /\ e.const.BLOCK_DURATION = d.const.BLOCK_DURATION
<1> DEFINE c == [d.const EXCEPT !.MID_TSS = n]
<1>1. d.const \in Consts
  BY DEF Decoders
<1>2. /\ c \in Consts /\ c.BLOCKS_PER_PKT = d.const.BLOCKS_PER_PKT
      /\ c.BLOCK_DURATION = d.const.BLOCK_DURATION
  BY <1>1 DEF Consts
<1>3. e = WithConst(d, c)
  BY DEF WithMid, WithConst
<1> HIDE DEF c
<1>4. QED
  BY <1>2, <1>3, ConstChanges

LEMMA KeptOn ==
  ASSUME NEW d, NEW x, NEW e, Kept(d, x), Kept(x, e)
  PROVE  Kept(d, e)
BY DEF Kept

LEMMA Relearnt ==
  ASSUME NEW d, MechDecoder(d), NEW e, Kept(d, e),
         e.const.BLOCK_DURATION \in Durations(d.type),
         d.type \in AiryTypes \/ (e.split_blks = d.split_blks /\ e.echo = d.echo),
         d.type = "RSFAIRY" => e.model \in {48, 96}
  PROVE  Learnt(d, e)
<1>1. MechDecoder(e)
  BY DEF MechDecoder, Kept
<1>2. QED
  BY <1>1 DEF Learnt, Kept

LEMMA RSBP_Learnt ==
  ASSUME NEW d, MechDecoder(d), d.type = "RSBP", NEW p
  PROVE  Learnt(d, RSBP_learn(d, p))
<1> DEFINE c == RSBP_const(d, p)
           x == [d EXCEPT !.init = TRUE]
           e == RSBP_learn(d, p)
<1>1. d \in Decoders /\ d.const \in Consts /\ d.const.BLOCK_DURATION \in Durations("RSBP")
  BY MechSettings
<1>2. x = WithInit(d) /\ e = WithConst(x, c)
  BY DEF RSBP_learn, WithInit, WithConst
<1>3. /\ c \in Consts /\ c.BLOCKS_PER_PKT = d.const.BLOCKS_PER_PKT
      /\ c.BLOCK_DURATION \in Durations("RSBP")
  <2> DEFINE k == d.const
             k1 == [k EXCEPT !.DISTANCE_RES = 25, !.BLOCK_DURATION = 55560, !.LAST_TSS = 51710]
  <2>1. k \in Consts
    BY <1>1
  <2>2. c \in {k1, k}
    BY DEF RSBP_const
  <2> HIDE DEF k, c
  <2>3. k1 \in Consts /\ k1.BLOCKS_PER_PKT = k.BLOCKS_PER_PKT /\ k1.BLOCK_DURATION = 55560
    <3> DEFINE k2 == [k EXCEPT !.DISTANCE_RES = 25]
               k3 == [k2 EXCEPT !.BLOCK_DURATION = 55560]
    <3>1. k1 = [k3 EXCEPT !.LAST_TSS = 51710]
      OBVIOUS
    <3>2. k2 \in Consts /\ k2.BLOCKS_PER_PKT = k.BLOCKS_PER_PKT
      BY <2>1 DEF Consts
    <3> HIDE DEF k2
    <3>3. k3 \in Consts /\ k3.BLOCKS_PER_PKT = k2.BLOCKS_PER_PKT /\ k3.BLOCK_DURATION = 55560
      BY <3>2 DEF Consts
    <3> HIDE DEF k3, k1
    <3>4. QED
      BY <3>1, <3>2, <3>3 DEF Consts
  <2> HIDE DEF k1
  <2>4. 55560 \in Durations("RSBP")
    BY DEF Durations
  <2>5. QED
    BY <1>1, <2>1, <2>2, <2>3, <2>4 DEF k
<1> HIDE DEF x, c, e
<1>4. Kept(d, x) /\ x.split_blks = d.split_blks /\ x.echo = d.echo /\ x.const = d.const
  BY <1>1, <1>2, InitChanges
<1>5. x \in Decoders
  BY <1>4 DEF Kept
<1>6. Kept(x, e) /\ e.split_blks = x.split_blks /\ e.echo = x.echo /\ e.const = c
  BY <1>2, <1>3, <1>4, <1>5, ConstChanges
<1>7. Kept(d, e)
  BY <1>4, <1>6, KeptOn
<1>8. Learnt(d, e)
  BY <1>3, <1>4, <1>6, <1>7, Relearnt
<1>9. QED
  BY <1>8 DEF e

LEMMA RSP80_Learnt ==
  ASSUME NEW d, MechDecoder(d), d.type = "RSP80", NEW p, p.model \in Nat
  PROVE  Learnt(d, RSP80_learn(d, p))
<1>1. CASE p.model = d.model
  BY <1>1, LearntNothing DEF RSP80_learn
<1>2. CASE p.model # d.model
  <2> DEFINE x == [d EXCEPT !.model = p.model]
             n == IF x.model = 3 THEN 31963 ELSE 53771
             e == RSP80_calcParam(x)
  <2>1. d \in Decoders /\ d.const.BLOCK_DURATION \in Durations(d.type)
    BY MechSettings
  <2>2. x = WithModel(d, p.model) /\ n \in Nat
    BY DEF WithModel
  <2>3. e = WithLast(x, n)
    BY DEF RSP80_calcParam, WithLast
  <2> HIDE DEF x, n, e
  <2>4. /\ Kept(d, x) /\ x.const = d.const /\ x.split_blks = d.split_blks
        /\ x.echo = d.echo
    BY <2>1, <2>2, ModelChanges
  <2>5. x \in Decoders
    BY <2>4 DEF Kept
  <2>6. /\ Kept(x, e) /\ e.echo = x.echo /\ e.split_blks = x.split_blks
        /\ e.const.BLOCK_DURATION = x.const.BLOCK_DURATION
    BY <2>2, <2>3, <2>5, LastTssChanges
  <2>7. Kept(d, e)
    BY <2>4, <2>6, KeptOn
  <2>8. Learnt(d, e)
    BY <2>1, <2>4, <2>6, <2>7, Relearnt
  <2>9. RSP80_learn(d, p) = e
    BY <1>2 DEF RSP80_learn, e, x
  <2>10. QED
    BY <2>8, <2>9
<1>3. QED
  BY <1>1, <1>2

LEMMA RSBP_Msop ==
  ASSUME NEW t \in States, MechDecoder(t.d), t.d.type = "RSBP", NEW p, MechPacket("RSBP", p)
  PROVE  MechDecoded(t, decodeMsopPkt(t, p))
<1> DEFINE e == RSBP_learn(t.d, p)
           u == [t EXCEPT !.d = e]
           v == Variant(e)
           it == IF Single(t.d) THEN SingleReturnBlockIterator ELSE DualReturnBlockIterator
<1>1. decodeMsopPkt(t, p) = internDecodeMsopPkt(u, p, it, v)
  <2>1. RSBP_decodeMsopPkt(t, p) = internDecodeMsopPkt(u, p, it, v)
    BY Zenon DEF RSBP_decodeMsopPkt, RSBP_internDecodeMsopPkt
  <2>2. decodeMsopPkt(t, p) = RSBP_decodeMsopPkt(t, p)
    BY SMT DEF decodeMsopPkt
  <2>3. QED
    BY Zenon, <2>1, <2>2
<1>2. Learnt(t.d, e)
  BY RSBP_Learnt
<1> HIDE DEF e
<1>3. MechDecoder(e) /\ e.type = "RSBP" /\ e \in Decoders
  BY <1>2 DEF Learnt, MechDecoder
<1>4. u \in States /\ u.d = e
  BY <1>3 DEF States
<1>5. v.height \in Nat \ {0}
  BY <1>3, MechSettings DEF Variant
<1>6. FitsIterator(it, BlockCount("RSBP"))
  BY IteratorsFit DEF BlockCount, AiryTypes
<1> HIDE DEF u, v, it
<1>7. MechDecoded(u, internDecodeMsopPkt(u, p, it, v))
  BY <1>3, <1>4, <1>5, <1>6, InternDecoded
<1>8. QED
  BY <1>1, <1>2, <1>7, DecodedAfter DEF u

LEMMA RSP80_Msop ==
  ASSUME NEW t \in States, MechDecoder(t.d), t.d.type = "RSP80", NEW p, MechPacket("RSP80", p)
  PROVE  MechDecoded(t, decodeMsopPkt(t, p))
<1> DEFINE e == RSP80_learn(t.d, p)
           u == [t EXCEPT !.d = e]
           v == Variant(e)
           it == IF Single(t.d) THEN SingleReturnBlockIterator ELSE DualReturnBlockIterator
<1>1. decodeMsopPkt(t, p) = internDecodeMsopPkt(u, p, it, v)
  <2>1. RSP80_decodeMsopPkt(t, p) = internDecodeMsopPkt(u, p, it, v)
    BY Zenon DEF RSP80_decodeMsopPkt, RSP80_internDecodeMsopPkt
  <2>2. decodeMsopPkt(t, p) = RSP80_decodeMsopPkt(t, p)
    BY SMT DEF decodeMsopPkt
  <2>3. QED
    BY Zenon, <2>1, <2>2
<1>2. Learnt(t.d, e)
  BY RSP80_Learnt DEF MechPacket
<1> HIDE DEF e
<1>3. MechDecoder(e) /\ e.type = "RSP80" /\ e \in Decoders
  BY <1>2 DEF Learnt, MechDecoder
<1>4. u \in States /\ u.d = e
  BY <1>3 DEF States
<1>5. v.height \in Nat \ {0}
  BY <1>3, MechSettings DEF Variant
<1>6. FitsIterator(it, BlockCount("RSP80"))
  BY IteratorsFit DEF BlockCount, AiryTypes
<1> HIDE DEF u, v, it
<1>7. MechDecoded(u, internDecodeMsopPkt(u, p, it, v))
  BY <1>3, <1>4, <1>5, <1>6, InternDecoded
<1>8. QED
  BY <1>1, <1>2, <1>7, DecodedAfter DEF u

\* The types that learn from the packets of points.
LEMMA AiryIntern ==
  ASSUME NEW t \in States, MechDecoder(t.d), t.d.type \in AiryTypes, t.d.model \in {48, 96},
         NEW p, MechPacket(t.d.type, p), NEW bits
  PROVE  MechDecoded(t, internDecodeMsopPkt(t, p, Airy_iterator(t.d), Airy_variant(t.d, bits)))
<1> DEFINE it == Airy_iterator(t.d)
           v == Airy_variant(t.d, bits)
<1>1. v.height \in Nat \ {0}
  BY DEF Airy_variant, Variant
<1>2. it \in {SingleReturnBlockIterator, DualReturnBlockIterator, TwoInOneBlockIterator,
              FourInOneBlockIterator}
  BY SMT DEF Airy_iterator, Single
<1>3. BlockCount(t.d.type) = 8
  BY DEF BlockCount, AiryTypes
<1> HIDE DEF it, v
<1>4. FitsIterator(it, BlockCount(t.d.type))
  BY <1>2, <1>3, IteratorsFit
<1>5. QED
  BY <1>1, <1>4, InternDecoded DEF it, v

LEMMA RSAIRY_TssChanges ==
  ASSUME NEW d \in Decoders, NEW last \in Nat, NEW mid \in Nat, NEW e,
         e = RSAIRY_tss(d, last, mid)
  PROVE  Kept(d, e) /\ e.const.BLOCK_DURATION = d.const.BLOCK_DURATION
<1> DEFINE x == [d EXCEPT !.const.LAST_TSS = last]
           y == [x EXCEPT !.const.MID_TSS = mid]
<1>1. x = WithLast(d, last) /\ y = WithMid(x, mid) /\ e = WithInit(y)
  BY DEF RSAIRY_tss, WithLast, WithMid, WithInit
<1> HIDE DEF x, y
<1>2. Kept(d, x) /\ x.const.BLOCK_DURATION = d.const.BLOCK_DURATION
  BY <1>1, LastTssChanges
<1>3. x \in Decoders
  BY <1>2 DEF Kept
<1>4. Kept(x, y) /\ y.const.BLOCK_DURATION = x.const.BLOCK_DURATION
  BY <1>1, <1>3, MidTssChanges
<1>5. y \in Decoders
  BY <1>4 DEF Kept
<1>6. Kept(y, e) /\ e.const = y.const
  BY <1>1, <1>5, InitChanges
<1>7. Kept(d, y)
  BY <1>2, <1>4, KeptOn
<1>8. QED
  BY <1>2, <1>4, <1>6, <1>7, KeptOn

LEMMA RSAIRY_Learnt ==
  ASSUME NEW d, MechDecoder(d), d.type = "RSAIRY", NEW p
  PROVE  Learnt(d, RSAIRY_learn(d, p))
<1> DEFINE m == RSAIRY_getLidarModel(p.model)
           echo == RSAIRY_getEchoMode(p.mode)
           x == [d EXCEPT !.model = m]
           c == [x.const EXCEPT !.BLOCK_DURATION = 111080]
           y == [x EXCEPT !.const = c]
           e == RSAIRY_told(d, p)
           f == [e EXCEPT !.init = TRUE]
           g(last, mid) == RSAIRY_tss(e, last, mid)
<1>1. d \in Decoders /\ d.const \in Consts /\ d.type \in AiryTypes /\ 111080 \in Durations(d.type)
  BY MechSettings DEF AiryTypes, Durations
<1>2. m \in Nat /\ echo \in Echoes
  BY DEF RSAIRY_getLidarModel, RSAIRY_getEchoMode, Echoes
<1>3. x = WithModel(d, m) /\ y = WithConst(x, c) /\ e = difopEcho(y, echo)
  BY DEF RSAIRY_told, WithModel, WithConst
<1>4. f = WithInit(e)
  BY DEF WithInit
<1> HIDE DEF m, echo, x, y, e, f
<1>5. Kept(d, x) /\ x.const = d.const
  BY <1>1, <1>2, <1>3, ModelChanges
<1>6. c \in Consts /\ c.BLOCKS_PER_PKT = x.const.BLOCKS_PER_PKT /\ c.BLOCK_DURATION = 111080
  BY <1>1, <1>5 DEF Consts
<1> HIDE DEF c
<1>7. x \in Decoders
  BY <1>5 DEF Kept
<1>8. Kept(x, y) /\ y.const = c
  BY <1>3, <1>6, <1>7, ConstChanges
<1>9. y \in Decoders
  BY <1>8 DEF Kept
<1>10. Kept(y, e) /\ e.const = y.const
  BY <1>2, <1>3, <1>9, EchoChanges
<1>11. Kept(d, e) /\ e.const.BLOCK_DURATION = 111080
  <2>1. Kept(d, y)
    BY <1>5, <1>8, KeptOn
  <2>2. QED
    BY <1>6, <1>8, <1>10, <2>1, KeptOn
<1>12. e \in Decoders /\ e.const.MID_TSS \in Nat
  BY <1>11 DEF Kept, Decoders, Consts
<1>13. Kept(d, f) /\ f.const.BLOCK_DURATION = 111080
  <2>1. Kept(e, f) /\ f.const = e.const
    BY <1>4, <1>12, InitChanges
  <2>2. QED
    BY <1>11, <2>1, KeptOn
<1>14. ASSUME NEW last \in Nat, NEW mid \in Nat
       PROVE  Kept(d, g(last, mid)) /\ g(last, mid).const.BLOCK_DURATION = 111080
  <2> DEFINE h == g(last, mid)
  <2>1. h = RSAIRY_tss(e, last, mid)
    OBVIOUS
  <2> HIDE DEF h
  <2>2. Kept(e, h) /\ h.const.BLOCK_DURATION = e.const.BLOCK_DURATION
    BY <1>12, <2>1, RSAIRY_TssChanges
  <2>3. Kept(d, h)
    BY <1>11, <2>2, KeptOn
  <2>4. QED
    BY <1>11, <2>2, <2>3 DEF h
<1>15. RSAIRY_learn(d, p) \in {e, f, g(97104, e.const.MID_TSS), g(99008, 54264), g(93296, 33320)}
  BY SMT DEF RSAIRY_learn, e, f
<1> HIDE DEF g
<1> DEFINE r == RSAIRY_learn(d, p)
<1>16. /\ Kept(d, g(97104, e.const.MID_TSS)) /\ g(97104, e.const.MID_TSS).const.BLOCK_DURATION = 111080
       /\ Kept(d, g(99008, 54264)) /\ g(99008, 54264).const.BLOCK_DURATION = 111080
       /\ Kept(d, g(93296, 33320)) /\ g(93296, 33320).const.BLOCK_DURATION = 111080
  BY <1>12, <1>14
<1> HIDE DEF r
<1>17. Kept(d, r) /\ r.const.BLOCK_DURATION = 111080
  BY <1>11, <1>13, <1>15, <1>16 DEF r
<1>18. Learnt(d, r)
  BY <1>1, <1>17, Relearnt
<1>19. QED
  BY <1>18 DEF r

LEMMA RSFAIRY_Learnt ==
  ASSUME NEW d, MechDecoder(d), d.type = "RSFAIRY", NEW p
  PROVE  Learnt(d, RSFAIRY_learn(d, p)) /\ RSFAIRY_learn(d, p).model \in {48, 96}
<1> DEFINE m == RSFAIRY_getLidarModel(p.model)
           echo == RSFAIRY_getEchoMode(p.mode)
           x == [d EXCEPT !.model = m]
           y == [x EXCEPT !.init = TRUE]
           e == RSFAIRY_told(d, p)
           f == [e EXCEPT !.const.LAST_TSS = 51040]
<1>1. d \in Decoders /\ d.const \in Consts /\ d.type \in AiryTypes
      /\ d.const.BLOCK_DURATION \in Durations(d.type)
  BY MechSettings DEF AiryTypes
<1>2. m \in {48, 96} /\ m \in Nat /\ echo \in Echoes
  BY DEF RSFAIRY_getLidarModel, RSFAIRY_getEchoMode, Echoes
<1>3. x = WithModel(d, m) /\ y = WithInit(x) /\ e = difopEcho(y, echo)
  BY DEF RSFAIRY_told, WithModel, WithInit
<1>4. f = WithLast(e, 51040)
  BY DEF WithLast
<1> HIDE DEF m, echo, x, y, e, f
<1>5. Kept(d, x) /\ x.const = d.const /\ x.model = m
  BY <1>1, <1>2, <1>3, ModelChanges
<1>6. x \in Decoders
  BY <1>5 DEF Kept
<1>7. Kept(x, y) /\ y.const = x.const /\ y.model = x.model
  BY <1>3, <1>6, InitChanges
<1>8. y \in Decoders
  BY <1>7 DEF Kept
<1>9. Kept(y, e) /\ e.const = y.const /\ e.model = y.model
  BY <1>2, <1>3, <1>8, EchoChanges
<1>10. e \in Decoders
  BY <1>9 DEF Kept
<1>11. Kept(e, f) /\ f.model = e.model /\ f.const.BLOCK_DURATION = e.const.BLOCK_DURATION
  BY <1>4, <1>10, LastTssChanges
<1>12. Kept(d, e)
  <2>1. Kept(d, y)
    BY <1>5, <1>7, KeptOn
  <2>2. QED
    BY <1>9, <2>1, KeptOn
<1>13. Kept(d, f)
  BY <1>11, <1>12, KeptOn
<1>14. Learnt(d, e) /\ e.model \in {48, 96}
  BY <1>1, <1>2, <1>5, <1>7, <1>9, <1>12, Relearnt
<1>15. Learnt(d, f) /\ f.model \in {48, 96}
  BY <1>1, <1>2, <1>5, <1>7, <1>9, <1>11, <1>13, Relearnt
<1>16. RSFAIRY_learn(d, p) \in {e, f}
  BY SMT DEF RSFAIRY_learn, e, f
<1>17. QED
  BY <1>14, <1>15, <1>16

LEMMA RSAIRY_Msop ==
  ASSUME NEW t \in States, MechDecoder(t.d), t.d.type = "RSAIRY", NEW p, MechPacket("RSAIRY", p)
  PROVE  MechDecoded(t, decodeMsopPkt(t, p))
<1> DEFINE e == IF t.d.init THEN t.d ELSE RSAIRY_learn(t.d, p)
           u == [t EXCEPT !.d = e, !.ret = FALSE]
           w == [t EXCEPT !.d = e]
<1>1. decodeMsopPkt(t, p) = CASE p.data_type # 0       -> [t EXCEPT !.ret = FALSE]
                              [] u.d.model \in {48, 96} -> internDecodeMsopPkt(u, p,
                                     Airy_iterator(u.d), Airy_variant(u.d, 14))
                              [] OTHER                 -> u
  <2>1. RSAIRY_decodeMsopPkt(t, p) =
          CASE p.data_type # 0       -> [t EXCEPT !.ret = FALSE]
            [] u.d.model \in {48, 96} -> internDecodeMsopPkt(u, p,
                                           Airy_iterator(u.d), Airy_variant(u.d, 14))
            [] OTHER                 -> u
    BY Zenon DEF RSAIRY_decodeMsopPkt, RSAIRY_internDecodeMsopPkt
  <2>2. decodeMsopPkt(t, p) = RSAIRY_decodeMsopPkt(t, p)
    BY SMT DEF decodeMsopPkt
  <2>3. QED
    BY Zenon, <2>1, <2>2
<1>2. Learnt(t.d, e)
  BY LearntNothing, RSAIRY_Learnt
<1> HIDE DEF e
<1>3. MechDecoder(e) /\ e \in Decoders /\ e.type = "RSAIRY"
  BY <1>2 DEF Learnt, MechDecoder
<1>4. w \in States /\ w.d = e /\ u = [w EXCEPT !.ret = FALSE]
  BY <1>3 DEF States
<1>5. u \in States /\ u.d = e
  BY <1>4 DEF States
<1>6. MechDecoded(w, u)
  BY <1>3, <1>4, DecodedNothing
<1>7. MechDecoded(t, u)
  BY <1>2, <1>6, DecodedAfter
<1>8. u = [u EXCEPT !.d = e] /\ Learnt(u.d, e)
  <2>1. u = [u EXCEPT !.d = u.d]
    BY <1>5 DEF States
  <2>2. QED
    BY <2>1, <1>3, <1>5, LearntNothing
<1> HIDE DEF u, w
<1>9. ASSUME NEW r, MechDecoded(u, r) PROVE MechDecoded(t, r)
  BY <1>7, <1>9 DEF MechDecoded, Learnt
<1>10. ASSUME u.d.model \in {48, 96}
       PROVE  MechDecoded(u, internDecodeMsopPkt(u, p, Airy_iterator(u.d), Airy_variant(u.d, 14)))
  <2>1. MechDecoder(u.d) /\ u.d.type = "RSAIRY" /\ "RSAIRY" \in AiryTypes
    BY <1>3, <1>5 DEF AiryTypes
  <2>2. QED
    BY <1>5, <1>10, <2>1, AiryIntern
<1>11. QED
  BY <1>1, <1>7, <1>9, <1>10, DecodedNothing

LEMMA RSFAIRY_Msop ==
  ASSUME NEW t \in States, MechDecoder(t.d), t.d.type = "RSFAIRY", NEW p, MechPacket("RSFAIRY", p)
  PROVE  MechDecoded(t, decodeMsopPkt(t, p))
<1> DEFINE e == IF t.d.init THEN t.d ELSE RSFAIRY_learn(t.d, p)
           u == [t EXCEPT !.d = e]
           r == internDecodeMsopPkt(u, p, Airy_iterator(u.d), Airy_variant(u.d, 15))
<1>1. decodeMsopPkt(t, p) = IF p.data_type # 0 THEN [t EXCEPT !.ret = FALSE] ELSE r
  <2>1. RSFAIRY_decodeMsopPkt(t, p) = IF p.data_type # 0 THEN [t EXCEPT !.ret = FALSE] ELSE r
    BY Zenon DEF RSFAIRY_decodeMsopPkt, RSFAIRY_internDecodeMsopPkt
  <2>2. decodeMsopPkt(t, p) = RSFAIRY_decodeMsopPkt(t, p)
    BY SMT DEF decodeMsopPkt
  <2>3. QED
    BY Zenon, <2>1, <2>2
<1>2. Learnt(t.d, e)
  BY LearntNothing, RSFAIRY_Learnt
<1>3. e.model \in {48, 96}
  BY RSFAIRY_Learnt DEF MechDecoder
<1> HIDE DEF e
<1>4. MechDecoder(e) /\ e \in Decoders /\ e.type = "RSFAIRY"
  BY <1>2 DEF Learnt, MechDecoder
<1>5. u \in States /\ u.d = e
  BY <1>4 DEF States
<1>6. MechDecoded(u, r)
  <2>1. u.d.type = "RSFAIRY" /\ "RSFAIRY" \in AiryTypes /\ MechDecoder(u.d) /\ u.d.model \in {48, 96}
    BY <1>3, <1>4, <1>5 DEF AiryTypes
  <2> HIDE DEF u
  <2>2. QED
    BY <1>5, <2>1, AiryIntern
<1>7. MechDecoded(t, r)
  BY <1>2, <1>6, DecodedAfter
<1> HIDE DEF r
<1>8. QED
  BY <1>1, <1>7, DecodedNothing

\* Every packet of points of every mechanical lidar.
LEMMA MechMsop ==
  ASSUME NEW t \in States, MechDecoder(t.d), NEW p, MechPacket(t.d.type, p)
  PROVE  MechDecoded(t, decodeMsopPkt(t, p))
<1>1. t.d.type \in MechTypes
  BY DEF MechDecoder
<1>2. CASE t.d.type \in PlainTypes
  <2>1. PICK it, v : /\ decodeMsopPkt(t, p) = internDecodeMsopPkt(t, p, it, v)
                     /\ FitsIterator(it, BlockCount(t.d.type))
                     /\ v.height \in {24, t.d.const.LASER_NUM}
    BY <1>2, PlainMsop
  <2>2. v.height \in Nat \ {0}
    BY <2>1, MechSettings
  <2>3. QED
    BY <2>1, <2>2, InternDecoded
<1>3. CASE t.d.type \notin PlainTypes
  <2>1. t.d.type \in {"RSBP", "RSP80", "RSAIRY", "RSFAIRY"}
    BY <1>1, <1>3 DEF MechTypes, AiryTypes, PlainTypes
  <2>2. QED
    BY <2>1, RSBP_Msop, RSP80_Msop, RSAIRY_Msop, RSFAIRY_Msop
<1>4. QED
  BY <1>2, <1>3

-----------------------------------------------------------------------------
(* What a DIFOP packet changes *)

MechDifop(p) ==
  /\ {"rpm", "fov", "mode", "install"} \subseteq DOMAIN p
  /\ p.rpm \in {0, 600, 1200} /\ fovRange(p.fov) \in 0 .. RS_ONE_ROUND
  /\ p.mode \in {0, 3} /\ p.install \in Nat

\* A DIFOP packet leaves alone what splits the frames of a decoder.
Tuned(d, e) ==
  /\ MechDecoder(e) /\ e.type = d.type /\ e.param = d.param /\ e.split = d.split /\ e.pre = d.pre
  /\ e.const.BLOCK_DURATION = d.const.BLOCK_DURATION

LEMMA DifopNumbers ==
  ASSUME NEW rpm \in {0, 600, 1200}, NEW D \in Nat \ {0}, NEW range \in Nat
  PROVE  /\ roundsPerSecond(rpm \div 60) \in {10, 20}
         /\ rpm # 0 => roundsPerSecond(rpm \div 60) = rpm \div 60
         /\ roundsPerSecond((rpm * 10) \div 600) = roundsPerSecond(rpm \div 60)
         /\ blksPerFrame(roundsPerSecond(rpm \div 60), D) \in Nat
         /\ blindTime(range, roundsPerSecond(rpm \div 60)) \in Nat
<1> DEFINE rps == roundsPerSecond(rpm \div 60)
<1>1. /\ rps \in {10, 20} /\ (rpm # 0 => rps = rpm \div 60)
      /\ roundsPerSecond((rpm * 10) \div 600) = rps
  BY DEF roundsPerSecond
<1> HIDE DEF rps
<1>2. blksPerFrame(rps, D) \in Nat
  <2> DEFINE m == rps * D
  <2>1. m \in Nat \ {0}
    BY <1>1
  <2> HIDE DEF m
  <2>2. 1000000000 \div m \in Nat
    BY <2>1, Quotient
  <2>3. QED
    BY <2>2 DEF blksPerFrame, m
<1>3. blindTime(range, rps) \in Nat
  <2> DEFINE m == 9 * rps
             n == range * 25000
  <2>1. m \in Nat \ {0} /\ n \in Nat
    BY <1>1
  <2> HIDE DEF m, n
  <2>2. n \div m \in Nat
    BY <2>1, Quotient
  <2> DEFINE q == n \div m
  <2> HIDE DEF q
  <2>3. q * 10 \in Nat
    BY <2>2 DEF q
  <2>4. QED
    BY <2>3 DEF blindTime, m, n, q
<1>4. QED
  BY <1>1, <1>2, <1>3 DEF rps

LEMMA DurationsPositive ==
  ASSUME NEW type, NEW D \in Durations(type)
  PROVE  D \in Nat \ {0}
BY DEF Durations

LEMMA DifopCommon ==
  ASSUME NEW d, MechDecoder(d), NEW p, MechDifop(p)
  PROVE  /\ Tuned(d, decodeDifopCommon(d, p))
         /\ decodeDifopCommon(d, p).echo = d.echo
         /\ decodeDifopCommon(d, p).split_blks = d.split_blks
         /\ decodeDifopCommon(d, p).const = d.const
         /\ decodeDifopCommon(d, p).blks
              = blksPerFrame(roundsPerSecond(p.rpm \div 60), d.const.BLOCK_DURATION)
<1> DEFINE D == d.const.BLOCK_DURATION
           rps == roundsPerSecond(p.rpm \div 60)
           blks == blksPerFrame(rps, D)
           range == RS_ONE_ROUND - fovRange(p.fov)
           blind == blindTime(range, rps)
           load == loadFromDifop(p.vert, p.horiz)
           ready == IF ~ d.param.config_from_file /\ ~ d.ready THEN load ELSE d.ready
           e == decodeDifopCommon(d, p)
<1>1. d \in Decoders /\ D \in Nat \ {0}
  BY MechSettings, DurationsPositive
<1>2. rps \in {10, 20} /\ blks \in Nat /\ blind \in Nat
  <2> DEFINE view == fovRange(p.fov)
  <2>0. view \in 0 .. RS_ONE_ROUND /\ p.rpm \in {0, 600, 1200}
    BY DEF MechDifop
  <2> HIDE DEF view
  <2>1. range \in Nat /\ p.rpm \in {0, 600, 1200}
    <3>1. RS_ONE_ROUND - view \in Nat
      BY <2>0 DEF RS_ONE_ROUND
    <3>2. QED
      BY <2>0, <3>1 DEF view
  <2> HIDE DEF range, D
  <2>2. QED
    BY <1>1, <2>1, DifopNumbers
<1>3. ready \in BOOLEAN
  <2>1. load \in BOOLEAN
    BY Zenon DEF loadFromDifop
  <2> HIDE DEF load
  <2>2. QED
    BY <1>1, <2>1 DEF Decoders
<1>4. e = [d EXCEPT !.rps = rps, !.blks = blks, !.blind = blind, !.ready = ready]
  BY DEF decodeDifopCommon
<1> HIDE DEF rps, blks, blind, ready, e, D
<1>5. e \in Decoders
  <2> DEFINE w == [d EXCEPT !.rps = rps, !.blks = blks]
             y == [w EXCEPT !.blind = blind]
  <2>0. rps \in Nat
    BY <1>2
  <2>1. w \in Decoders
    BY <1>1, <1>2, <2>0 DEF Decoders
  <2>2. e = [y EXCEPT !.ready = ready]
    BY <1>4
  <2> HIDE DEF w
  <2>4. y \in Decoders
    BY <1>2, <2>1 DEF Decoders
  <2> HIDE DEF y
  <2>3. QED
    BY <1>3, <2>2, <2>4 DEF Decoders
<1>6. /\ e.type = d.type /\ e.param = d.param /\ e.split = d.split /\ e.pre = d.pre
      /\ e.const = d.const /\ e.echo = d.echo /\ e.split_blks = d.split_blks
      /\ e.packet_duration = d.packet_duration /\ e.init = d.init /\ e.model = d.model
      /\ e.blks = blks
  BY <1>1, <1>4 DEF Decoders
<1>7. Tuned(d, e)
  BY <1>5, <1>6 DEF Tuned, MechDecoder
<1>8. QED
  BY <1>6, <1>7 DEF e, blks, D, rps

LEMMA TunedEcho ==
  ASSUME NEW d, NEW x, Tuned(d, x), NEW echo \in Echoes
  PROVE  Tuned(d, difopEcho(x, echo))
<1> DEFINE e == difopEcho(x, echo)
<1>1. x \in Decoders /\ e = difopEcho(x, echo)
  BY DEF Tuned, MechDecoder
<1> HIDE DEF e
<1>2. Kept(x, e) /\ e.model = x.model /\ e.const = x.const /\ e.init = x.init
  BY <1>1, EchoChanges
<1>3. QED
  BY <1>2 DEF Tuned, MechDecoder, Kept, e

\* The parameters of RS16 and RSHELIOS_16P when the returns have changed.
LEMMA SixteenEcho ==
  ASSUME NEW d, NEW x, Tuned(d, x), NEW echo \in Echoes, NEW n \in Nat, NEW last \in Nat,
         d.type \in {"RS16", "RSHELIOS_16P"}, NEW y, y = [x EXCEPT !.echo = echo, !.split_blks = n],
         NEW e, e = WithLast(y, last)
  PROVE  Tuned(d, e)
<1>1. x \in Decoders
  BY DEF Tuned, MechDecoder
<1>2. y \in Decoders
  BY <1>1 DEF Decoders
<1>3. /\ y.type = x.type /\ y.param = x.param /\ y.split = x.split /\ y.pre = x.pre
      /\ y.const = x.const /\ y.packet_duration = x.packet_duration
  BY <1>1 DEF Decoders
<1>4. Kept(y, e) /\ e.const.BLOCK_DURATION = y.const.BLOCK_DURATION
  BY ZenonT(60), <1>2, LastTssChanges
<1>5. QED
  BY <1>3, <1>4 DEF Tuned, MechDecoder, Kept

\* The types whose count of blocks follows every DIFOP packet.
Followers == MechTypes \ StaleCount
difopMode(type, mode) ==
  IF type \in {"RS32", "RSBP", "RSHELIOS"} THEN mode = 0 ELSE type # "RSAIRYLITE" /\ mode = 3
\* What the types that look at the returns in the same way do.
EchoTypes == {"RS32", "RSBP", "RS48", "RS80", "RS128", "RSP48", "RSP80", "RSP128", "RSHELIOS"}
LEMMA EchoDifop ==
  ASSUME NEW d, d.type \in EchoTypes, NEW p, p.mode \in {0, 3}
  PROVE  \E q \in {p, RS32DifopPkt2Adapter(p)} :
           decodeDifopPkt(d, p) = difopEcho(decodeDifopCommon(d, q),
                                            IF difopMode(d.type, p.mode) THEN "dual" ELSE "single")
<1> DEFINE x(q) == decodeDifopCommon(d, q)
<1>1. ASSUME d.type \in {"RS32", "RSBP", "RSHELIOS"}
      PROVE  decodeDifopPkt(d, p) \in {difopEcho(x(p), IF p.mode = 0 THEN "dual" ELSE "single"),
               difopEcho(x(RS32DifopPkt2Adapter(p)), IF p.mode = 0 THEN "dual" ELSE "single")}
  <2> HIDE DEF x
  <2>1. CASE d.type = "RS32"
    BY SMT, <2>1 DEF decodeDifopPkt, RS32_decodeDifopPkt, RS32_getEchoMode, x
  <2>2. CASE d.type = "RSBP"
    BY SMT, <2>2 DEF decodeDifopPkt, RSBP_decodeDifopPkt, RSBP_getEchoMode, x
  <2>3. CASE d.type = "RSHELIOS"
    BY SMT, <2>3 DEF decodeDifopPkt, RSHELIOS_decodeDifopPkt, RSHELIOS_getEchoMode, x
  <2>4. QED
    BY <1>1, <2>1, <2>2, <2>3
<1>2. ASSUME d.type \in {"RS48", "RS80", "RS128", "RSP48", "RSP80", "RSP128"}
      PROVE  decodeDifopPkt(d, p) = difopEcho(x(p), IF p.mode = 3 THEN "dual" ELSE "single")
  <2> HIDE DEF x
  <2>1. CASE d.type \in {"RS48", "RS80", "RS128"}
    BY SMT, <2>1 DEF decodeDifopPkt, RS48_decodeDifopPkt, RS48_getEchoMode, x, RS80_decodeDifopPkt,
         RS80_getEchoMode, RS128_decodeDifopPkt, RS128_getEchoMode
  <2>2. CASE d.type \in {"RSP48", "RSP80", "RSP128"}
    BY SMT, <2>2 DEF decodeDifopPkt, RSP48_decodeDifopPkt, RSP48_getEchoMode, x,
         RSP80_decodeDifopPkt, RSP80_getEchoMode, RSP128_decodeDifopPkt, RSP128_getEchoMode
  <2>3. QED
    BY <1>2, <2>1, <2>2
<1> HIDE DEF x
<1> DEFINE echo == IF difopMode(d.type, p.mode) THEN "dual" ELSE "single"
<1>3. CASE d.type \in {"RS32", "RSBP", "RSHELIOS"}
  <2>1. echo = IF p.mode = 0 THEN "dual" ELSE "single"
    BY <1>3 DEF difopMode
  <2> HIDE DEF echo
  <2>2. \E q \in {p, RS32DifopPkt2Adapter(p)} : decodeDifopPkt(d, p) = difopEcho(x(q), echo)
    BY <1>1, <1>3, <2>1
  <2>3. QED
    BY <2>2 DEF x, echo
<1>4. CASE d.type \notin {"RS32", "RSBP", "RSHELIOS"}
  <2>1. d.type \in {"RS48", "RS80", "RS128", "RSP48", "RSP80", "RSP128"}
    BY <1>4 DEF EchoTypes
  <2>2. echo = IF p.mode = 3 THEN "dual" ELSE "single"
    BY <2>1 DEF difopMode
  <2> HIDE DEF echo
  <2>3. decodeDifopPkt(d, p) = difopEcho(x(p), echo)
    BY <1>2, <2>1, <2>2
  <2>4. QED
    BY <2>3 DEF x, echo
<1>5. QED
  BY <1>3, <1>4

LEMMA MechDifopTuned ==
  ASSUME NEW d, MechDecoder(d), NEW p, MechDifop(p)
  PROVE  /\ Tuned(d, decodeDifopPkt(d, p))
         /\ d.type \in Followers =>
              decodeDifopPkt(d, p).split_blks =
                (IF difopMode(d.type, p.mode) THEN 2 ELSE 1)
                  * blksPerFrame(roundsPerSecond(p.rpm \div 60), d.const.BLOCK_DURATION)
<1> DEFINE D == d.const.BLOCK_DURATION
           rps == roundsPerSecond(p.rpm \div 60)
           blks == blksPerFrame(rps, D)
           x == decodeDifopCommon(d, p)
           r == decodeDifopPkt(d, p)
<1>1. d \in Decoders /\ d.type \in MechTypes /\ D \in Nat \ {0}
  BY MechSettings, DurationsPositive
<1>2. p.rpm \in {0, 600, 1200} /\ p.mode \in {0, 3} /\ p.install \in Nat
  BY DEF MechDifop
<1>3. blks \in Nat
  <2> HIDE DEF D
  <2>1. QED
    BY <1>1, <1>2, DifopNumbers, 0 \in Nat
<1>4. Tuned(d, x) /\ x.echo = d.echo /\ x.split_blks = d.split_blks /\ x.blks = blks
  BY DifopCommon
<1>5. x \in Decoders
  BY <1>4 DEF Tuned, MechDecoder
<1>6. CASE d.type \in EchoTypes
  <2> DEFINE dual == difopMode(d.type, p.mode)
             echo == IF dual THEN "dual" ELSE "single"
  <2>1. PICK q \in {p, RS32DifopPkt2Adapter(p)} : r = difopEcho(decodeDifopCommon(d, q), echo)
    BY <1>2, <1>6, EchoDifop
  <2>2. MechDifop(q) /\ q.rpm = p.rpm
    <3>1. CASE q = p
      BY <3>1
    <3>2. CASE q = RS32DifopPkt2Adapter(p)
      <4> DEFINE vert == [i \in DOMAIN p.vert |-> [p.vert[i] EXCEPT !.value = (@ + 5) \div 10]]
                 horiz == [i \in DOMAIN p.horiz |-> [p.horiz[i] EXCEPT !.value = (@ + 5) \div 10]]
      <4>1. q = [p EXCEPT !.vert = vert, !.horiz = horiz]
        BY <3>2 DEF RS32DifopPkt2Adapter
      <4> HIDE DEF vert, horiz
      <4>2. DOMAIN q = DOMAIN p /\ \A f \in DOMAIN p \ {"vert", "horiz"} : q[f] = p[f]
        BY <4>1
      <4>3. q.rpm = p.rpm /\ q.fov = p.fov /\ q.mode = p.mode /\ q.install = p.install
        BY <4>2 DEF MechDifop
      <4>4. QED
        BY <4>2, <4>3 DEF MechDifop
    <3>3. QED
      BY <3>1, <3>2
  <2> DEFINE y == decodeDifopCommon(d, q)
  <2>3. Tuned(d, y) /\ y.blks = blks
    BY <2>2, DifopCommon
  <2>4. y \in Decoders /\ echo \in Echoes /\ r = difopEcho(y, echo)
    BY <2>1, <2>3 DEF Tuned, MechDecoder, Echoes
  <2> HIDE DEF y, r, blks
  <2>5. Tuned(d, r)
    BY <2>3, <2>4, TunedEcho
  <2>6. r.split_blks = IF echo = "dual" THEN y.blks * 2 ELSE y.blks
    <3> HIDE DEF echo
    <3>1. QED
      BY <2>4, EchoChanges
  <2> HIDE DEF dual
  <2>7. r.split_blks = (IF dual THEN 2 ELSE 1) * blks
    BY <1>3, <2>3, <2>6
  <2>8. QED
    BY <2>5, <2>7 DEF r, dual, blks
<1>7. CASE d.type \in {"RS16", "RSHELIOS_16P"}
  <2>1. d.type \notin Followers
    BY <1>7 DEF Followers, StaleCount
  <2>2. Tuned(d, r)
    <3> DEFINE q == IF d.type = "RS16" THEN RS16DifopPkt2Adapter(p) ELSE p
               echo == IF p.mode = 0 THEN "dual" ELSE "single"
               y == decodeDifopCommon(d, q)
               n == IF echo = "dual" THEN y.blks ELSE y.blks \div 2
               z == [y EXCEPT !.echo = echo, !.split_blks = n]
               last == IF d.type = "RS16" THEN (IF Single(z) THEN 97500 ELSE 42000)
                       ELSE (IF Single(z) THEN 53630 ELSE 25950)
               e == WithLast(z, last)
    <3>1. r \in {y, e}
      <4>1. CASE d.type = "RS16"
        <5>1. r = RS16_decodeDifopPkt(d, p)
          BY SMT, <4>1 DEF decodeDifopPkt
        <5>2. RS16_decodeDifopPkt(d, p) = IF echo = d.echo THEN y ELSE RS16_calcParam(z)
          BY <4>1, Zenon DEF RS16_decodeDifopPkt, RS16_getEchoMode
        <5>3. RS16_calcParam(z) = e
          BY <4>1 DEF RS16_calcParam, WithLast
        <5> HIDE DEF r, e, y, z
        <5>4. QED
          BY <5>1, <5>2, <5>3
      <4>2. CASE d.type = "RSHELIOS_16P"
        <5>1. r = RSHELIOS_16P_decodeDifopPkt(d, p)
          BY SMT, <4>2 DEF decodeDifopPkt
        <5>2. RSHELIOS_16P_decodeDifopPkt(d, p)
                = IF echo = d.echo THEN y ELSE RSHELIOS_16P_calcParam(z)
          <6>1. q = p
            BY <4>2
          <6>2. QED
            BY <6>1, Zenon DEF RSHELIOS_16P_decodeDifopPkt, RSHELIOS_16P_getEchoMode
        <5>3. RSHELIOS_16P_calcParam(z) = e
          BY <4>2 DEF RSHELIOS_16P_calcParam, WithLast
        <5> HIDE DEF r, e, y, z
        <5>4. QED
          BY <5>1, <5>2, <5>3
      <4>3. QED
        BY <1>7, <4>1, <4>2
    <3>2. MechDifop(q)
      <4>1. CASE q = p
        BY <4>1
      <4>2. CASE q = RS16DifopPkt2Adapter(p)
        <5> DEFINE vert == [i \in 1 .. 2 |-> [sign |-> IF i = 1 THEN 1 ELSE 0,
                                               value |-> (p.vert[i].value \div 100) % 65536]]
                   horiz == [i \in 1 .. 2 |-> [sign |-> 0, value |-> 0]]
        <5>1. q = [p EXCEPT !.vert = vert, !.horiz = horiz]
          BY <4>2 DEF RS16DifopPkt2Adapter
        <5> HIDE DEF vert, horiz, q
        <5>2. DOMAIN q = DOMAIN p /\ \A f \in DOMAIN p \ {"vert", "horiz"} : q[f] = p[f]
          BY <5>1
        <5>3. q.rpm = p.rpm /\ q.fov = p.fov /\ q.mode = p.mode /\ q.install = p.install
          BY <5>2 DEF MechDifop
        <5>4. QED
          BY <5>2, <5>3 DEF MechDifop
      <4>3. QED
        BY <4>1, <4>2
    <3> HIDE DEF q
    <3>3. Tuned(d, y)
      BY <3>2, DifopCommon
    <3>4. y \in Decoders
      BY <3>3 DEF Tuned, MechDecoder
    <3> HIDE DEF y
    <3>5. n \in Nat
      <4>1. y.blks \in Nat
        BY <3>4 DEF Decoders
      <4>2. QED
        BY <4>1
    <3>6. echo \in Echoes /\ last \in Nat
      BY DEF Echoes
    <3>7. z = [y EXCEPT !.echo = echo, !.split_blks = n] /\ e = WithLast(z, last)
      OBVIOUS
    <3> HIDE DEF n, echo, last, z, e
    <3>8. Tuned(d, e)
      BY <1>7, <3>3, <3>5, <3>6, <3>7, SixteenEcho
    <3>9. QED
      BY <3>1, <3>3, <3>8
  <2>3. QED
    BY <2>1, <2>2
<1>8. CASE d.type \in AiryTypes
  <2>1. d.type \notin Followers
    BY <1>8 DEF Followers, StaleCount
  <2>2. Tuned(d, r)
    <3>1. CASE d.type = "RSFAIRY"
      <4>1. r = x
        BY SMT, <3>1 DEF decodeDifopPkt, RSFAIRY_decodeDifopPkt
      <4>2. QED
        BY <1>4, <4>1
    <3>2. CASE d.type = "RSAIRY"
      <4> DEFINE install == IF p.install # 255 THEN p.install ELSE x.install
                 e == [x EXCEPT !.install = install]
      <4>1. r = RSAIRY_decodeDifopPkt(d, p)
        BY SMT, <3>2 DEF decodeDifopPkt
      <4>2. RSAIRY_decodeDifopPkt(d, p) = e
        BY DEF RSAIRY_decodeDifopPkt
      <4> HIDE DEF x, r
      <4>3. install \in Nat
        BY <1>2, <1>5 DEF Decoders
      <4> HIDE DEF install
      <4>4. e \in Decoders
        BY <1>5, <4>3 DEF Decoders
      <4>5. /\ e.type = x.type /\ e.param = x.param /\ e.split = x.split /\ e.pre = x.pre
            /\ e.const = x.const /\ e.packet_duration = x.packet_duration
            /\ e.model = x.model /\ e.init = x.init
        BY <1>5 DEF Decoders
      <4>6. Tuned(d, e)
        BY <1>4, <4>4, <4>5 DEF Tuned, MechDecoder
      <4>7. QED
        BY <4>1, <4>2, <4>6
    <3>3. QED
      BY <1>8, <3>1, <3>2 DEF AiryTypes
  <2>3. QED
    BY <2>1, <2>2
<1>9. CASE d.type = "RSAIRYLITE"
  <2> DEFINE load == loadFromDifopAIRYLITE(p.vert, p.horiz)
             ready == IF d.param.config_from_file THEN d.ready ELSE load
             e == [d EXCEPT !.rps = rps, !.blks = blks, !.split_blks = blks, !.ready = ready]
  <2>1. r = RSAIRYLITE_decodeDifopAngles(d, p)
    BY SMT, <1>9 DEF decodeDifopPkt, RSAIRYLITE_decodeDifopPkt
  <2>2. RSAIRYLITE_decodeDifopAngles(d, p) = e
    <3>1. roundsPerSecond((p.rpm * 10) \div 600) = rps
      BY <1>1, <1>2, DifopNumbers, 0 \in Nat
    <3> DEFINE A == roundsPerSecond((p.rpm * 10) \div 600)
    <3>2. RSAIRYLITE_decodeDifopAngles(d, p)
            = [d EXCEPT !.rps = A, !.blks = blksPerFrame(A, D), !.split_blks = blksPerFrame(A, D),
                        !.ready = ready]
      BY Zenon DEF RSAIRYLITE_decodeDifopAngles
    <3> HIDE DEF A, rps, ready
    <3>3. QED
      BY Zenon, <3>1, <3>2 DEF A
  <2>3. ready \in BOOLEAN
    <3>1. load \in BOOLEAN
      BY SMT DEF loadFromDifopAIRYLITE
    <3> HIDE DEF load
    <3>2. QED
      BY <1>1, <3>1 DEF Decoders
  <2>4. rps \in Nat
    <3>1. rps \in {10, 20}
      <4> HIDE DEF D
      <4>1. QED
        BY <1>1, <1>2, DifopNumbers, 0 \in Nat
    <3> HIDE DEF rps
    <3>2. QED
      BY <3>1
  <2> HIDE DEF ready, rps, blks
  <2>5. e \in Decoders
    BY <1>1, <1>3, <2>3, <2>4 DEF Decoders
  <2>6. /\ e.type = d.type /\ e.param = d.param /\ e.split = d.split /\ e.pre = d.pre
        /\ e.const = d.const /\ e.packet_duration = d.packet_duration
        /\ e.model = d.model /\ e.init = d.init /\ e.split_blks = blks
    BY <1>1 DEF Decoders
  <2>7. Tuned(d, e)
    BY <2>5, <2>6 DEF Tuned, MechDecoder
  <2>8. difopMode(d.type, p.mode) = FALSE
    BY <1>9 DEF difopMode
  <2> HIDE DEF e, r
  <2>9. QED
    BY <1>3, <2>1, <2>2, <2>6, <2>7, <2>8 DEF r, blks, rps
<1>10. QED
  BY <1>1, <1>6, <1>7, <1>8, <1>9 DEF MechTypes, EchoTypes, AiryTypes

-----------------------------------------------------------------------------
(* What isNewFrame says *)

\* isNewFrame asks the strategy of the packet loop block by block and changes it only.

\* g holds what isNewFrame knows after each of its first n blocks.
NewFrames(d, p, n, g) ==
  /\ g[0] = [pre |-> d.pre, new |-> FALSE]
  /\ \A k \in 1 .. n : g[k] = newFrameAt(d, p, g[k - 1], k)
  /\ newFrameWithin(d, p, n) = g[n]
LEMMA NewFramesOneByOne ==
  ASSUME NEW d, NEW p, NEW n \in Nat
  PROVE  \E g : NewFrames(d, p, n, g)
<1> DEFINE F(f, k) == IF k = 0 THEN [pre |-> d.pre, new |-> FALSE]
                      ELSE newFrameAt(d, p, f[k - 1], k)
           after == CHOOSE f : f = [k \in 0 .. n |-> F(f, k)]
           Has == {m \in Nat : \E f : f = [k \in 0 .. m |-> F(f, k)]}
<1>1. newFrameWithin(d, p, n) = after[n]
  BY DEF newFrameWithin
<1>2. 0 \in Has
  <2> DEFINE h == [k \in 0 .. 0 |-> [pre |-> d.pre, new |-> FALSE]]
  <2>1. h = [k \in 0 .. 0 |-> F(h, k)]
    OBVIOUS
  <2>2. QED
    BY <2>1
<1>3. ASSUME NEW m \in Nat, m \in Has PROVE m + 1 \in Has
  <2>1. PICK h : h = [k \in 0 .. m |-> F(h, k)]
    BY <1>3
  <2> DEFINE g == [k \in 0 .. (m + 1) |-> IF k = m + 1 THEN F(h, m + 1) ELSE h[k]]
  <2>2. ASSUME NEW k \in 0 .. (m + 1) PROVE g[k] = F(g, k)
    <3>1. CASE k = 0
      <4>1. h[0] = F(h, 0)
        BY <2>1
      <4>2. QED
        BY <3>1, <4>1
    <3>2. CASE k # 0
      <4>1. k - 1 \in 0 .. m /\ g[k - 1] = h[k - 1]
        BY <3>2
      <4>2. F(g, k) = F(h, k)
        BY <4>1
      <4>3. CASE k = m + 1
        BY <4>2, <4>3
      <4>4. CASE k # m + 1
        <5>1. k \in 0 .. m
          BY <4>4
        <5>2. h[k] = F(h, k)
          BY <2>1, <5>1
        <5>3. QED
          BY <4>2, <4>4, <5>2
      <4>5. QED
        BY <4>3, <4>4
    <3>3. QED
      BY <3>1, <3>2
  <2> HIDE DEF F
  <2>3. g = [k \in 0 .. (m + 1) |-> F(g, k)]
    <3>1. g = [k \in 0 .. (m + 1) |-> g[k]]
      OBVIOUS
    <3> HIDE DEF g
    <3>2. QED
      BY <2>2, <3>1
  <2> HIDE DEF g
  <2>4. \E x : x = [k \in 0 .. (m + 1) |-> F(x, k)]
    BY <2>3
  <2>5. QED
    BY <2>4
<1> HIDE DEF Has
<1>4. n \in Has
  BY <1>2, <1>3, SetInduction
<1> HIDE DEF F
<1>5. after = [k \in 0 .. n |-> F(after, k)]
  BY <1>4 DEF Has
<1> HIDE DEF after
<1>7. \A k \in 0 .. n : after[k] = F(after, k)
  BY <1>5
<1>8. after[0] = [pre |-> d.pre, new |-> FALSE]
  <2>1. after[0] = F(after, 0)
    BY <1>7
  <2>2. QED
    BY <2>1 DEF F
<1>9. ASSUME NEW k \in 1 .. n PROVE after[k] = newFrameAt(d, p, after[k - 1], k)
  <2>1. after[k] = F(after, k) /\ k # 0
    BY <1>7
  <2>2. QED
    BY <2>1 DEF F
<1>10. NewFrames(d, p, n, after)
  BY <1>1, <1>8, <1>9 DEF NewFrames
<1>11. QED
  BY <1>10

\* The copy of the split strategy that paces a replay, and what it says.
MechPaces(r) == r.pre \in BlockSplits /\ r.new \in BOOLEAN

LEMMA NewFrameTyped ==
  ASSUME NEW d, MechDecoder(d), NEW p, MechPacket(d.type, p), NEW ids
  PROVE  MechPaces(isNewFrameMech(d, p, ids))
<1> DEFINE B == BlockCount(d.type)
           n == blocksOf(d, p, ids)
<1>1. d \in Decoders /\ d.const \in Consts /\ d.pre \in BlockSplits /\ maxBlks(d) \in Nat
  <2>1. d \in Decoders /\ d.const \in Consts /\ d.pre \in BlockSplits
    BY MechSettings DEF MechDecoder
  <2>2. QED
    BY <2>1 DEF maxBlks, Decoders, Params
<1>2. B = d.const.BLOCKS_PER_PKT /\ B \in Nat \ {0} /\ p.bad \in 0 .. B
      /\ \A k \in 1 .. B : p.az[k] \in Int
  BY <1>1 DEF MechDecoder, MechPacket, Consts
<1>3. n \in 0 .. B
  <2> HIDE DEF B
  <2>1. QED
    BY <1>2 DEF blocksOf
<1> HIDE DEF n, B
<1>4. n \in Nat
  BY <1>2, <1>3
<1>13. PICK g : NewFrames(d, p, n, g)
  BY <1>4, NewFramesOneByOne
<1>5. /\ g[0] = [pre |-> d.pre, new |-> FALSE]
      /\ \A k \in 1 .. n : g[k] = newFrameAt(d, p, g[k - 1], k)
      /\ newFrameWithin(d, p, n) = g[n]
  BY Zenon, <1>13 DEF NewFrames
<1> DEFINE Done == {k \in Nat : k <= n => MechPaces(g[k])}
<1>6. 0 \in Done
  <2>1. g[0].pre = d.pre /\ g[0].new = FALSE
    BY <1>5
  <2>2. QED
    BY <1>1, <2>1 DEF MechPaces
<1>7. ASSUME NEW k \in Nat, k \in Done PROVE k + 1 \in Done
  <2>1. SUFFICES ASSUME k + 1 <= n PROVE MechPaces(g[k + 1])
    OBVIOUS
  <2>2. k + 1 \in 1 .. n /\ k + 1 \in 1 .. B /\ (k + 1) - 1 = k /\ k <= n
    BY <1>2, <1>3, <1>4, <2>1
  <2> DEFINE r == g[k]
             a == p.az[k + 1]
             m == maxBlks(d)
             new == newBlock(r.pre, a, m)
  <2>3. MechPaces(r)
    BY <1>7, <2>2
  <2>4. g[k + 1] = newFrameAt(d, p, r, k + 1)
    BY <1>5, <2>2
  <2>5. a \in Int /\ m \in Nat /\ r.pre \in BlockSplits
    BY <1>1, <1>2, <2>2, <2>3 DEF MechPaces
  <2>6. newFrameAt(d, p, r, k + 1) = IF r.new THEN r ELSE [pre |-> new.state, new |-> new.split]
    BY DEF newFrameAt
  <2> HIDE DEF r, a, m
  <2>7. new.state \in BlockSplits /\ new.split \in BOOLEAN
    BY <2>5, NewBlockTyped
  <2> HIDE DEF new
  <2>8. MechPaces([pre |-> new.state, new |-> new.split])
    BY <2>7 DEF MechPaces
  <2>9. QED
    BY <2>3, <2>4, <2>6, <2>8
<1> HIDE DEF Done
<1>8. n \in Done
  BY <1>4, <1>6, <1>7, SetInduction
<1>9. MechPaces(g[n])
  BY <1>4, <1>8 DEF Done
<1>10. isNewFrameMech(d, p, ids) = g[n]
  BY <1>5 DEF isNewFrameMech, n
<1>11. QED
  BY <1>9, <1>10

LEMMA MechIsNewFrame ==
  ASSUME NEW d, MechDecoder(d), NEW p, MechPacket(d.type, p)
  PROVE  MechPaces(isNewFrame(d, p))
<1>1. d.type \in MechTypes /\ d.pre \in BlockSplits
  BY DEF MechDecoder
<1>2. MechPaces([pre |-> d.pre, new |-> FALSE])
  BY <1>1 DEF MechPaces
<1>3. isNewFrame(d, p) \in {isNewFrameMech(d, p, TRUE), isNewFrameMech(d, p, FALSE),
                            [pre |-> d.pre, new |-> FALSE]}
  <2>1. CASE d.type = "RSAIRY"
    <3>1. isNewFrame(d, p) = RSAIRY_isNewFrame(d, p)
      BY SMT, <2>1 DEF isNewFrame
    <3>2. QED
      BY <3>1 DEF RSAIRY_isNewFrame
  <2>2. CASE d.type = "RSFAIRY"
    <3>1. isNewFrame(d, p) = RSFAIRY_isNewFrame(d, p)
      BY SMT, <2>2 DEF isNewFrame
    <3>2. QED
      BY <3>1 DEF RSFAIRY_isNewFrame
  <2>3. CASE d.type = "RS16"
    <3>1. isNewFrame(d, p) = RS16_isNewFrame(d, p)
      BY SMT, <2>3 DEF isNewFrame
    <3>2. QED
      BY <3>1 DEF RS16_isNewFrame
  <2>4. CASE d.type = "RS32"
    <3>1. isNewFrame(d, p) = RS32_isNewFrame(d, p)
      BY SMT, <2>4 DEF isNewFrame
    <3>2. QED
      BY <3>1 DEF RS32_isNewFrame
  <2>5. CASE d.type = "RSBP"
    <3>1. isNewFrame(d, p) = RSBP_isNewFrame(d, p)
      BY SMT, <2>5 DEF isNewFrame
    <3>2. QED
      BY <3>1 DEF RSBP_isNewFrame
  <2>6. CASE d.type = "RSHELIOS"
    <3>1. isNewFrame(d, p) = RSHELIOS_isNewFrame(d, p)
      BY SMT, <2>6 DEF isNewFrame
    <3>2. QED
      BY <3>1 DEF RSHELIOS_isNewFrame
  <2>7. CASE d.type = "RSHELIOS_16P"
    <3>1. isNewFrame(d, p) = RSHELIOS_16P_isNewFrame(d, p)
      BY SMT, <2>7 DEF isNewFrame
    <3>2. QED
      BY <3>1 DEF RSHELIOS_16P_isNewFrame
  <2>8. CASE d.type = "RS128"
    <3>1. isNewFrame(d, p) = RS128_isNewFrame(d, p)
      BY SMT, <2>8 DEF isNewFrame
    <3>2. QED
      BY <3>1 DEF RS128_isNewFrame
  <2>9. CASE d.type = "RS80"
    <3>1. isNewFrame(d, p) = RS80_isNewFrame(d, p)
      BY SMT, <2>9 DEF isNewFrame
    <3>2. QED
      BY <3>1 DEF RS80_isNewFrame
  <2>10. CASE d.type = "RSAIRYLITE"
    <3>1. isNewFrame(d, p) = RSAIRYLITE_isNewFrame(d, p)
      BY SMT, <2>10 DEF isNewFrame
    <3>2. QED
      BY <3>1 DEF RSAIRYLITE_isNewFrame
  <2>11. CASE d.type = "RS48"
    <3>1. isNewFrame(d, p) = RS48_isNewFrame(d, p)
      BY SMT, <2>11 DEF isNewFrame
    <3>2. QED
      BY <3>1 DEF RS48_isNewFrame
  <2>12. CASE d.type = "RSP128"
    <3>1. isNewFrame(d, p) = RSP128_isNewFrame(d, p)
      BY SMT, <2>12 DEF isNewFrame
    <3>2. QED
      BY <3>1 DEF RSP128_isNewFrame
  <2>13. CASE d.type = "RSP80"
    <3>1. isNewFrame(d, p) = RSP80_isNewFrame(d, p)
      BY SMT, <2>13 DEF isNewFrame
    <3>2. QED
      BY <3>1 DEF RSP80_isNewFrame
  <2>14. CASE d.type = "RSP48"
    <3>1. isNewFrame(d, p) = RSP48_isNewFrame(d, p)
      BY SMT, <2>14 DEF isNewFrame
    <3>2. QED
      BY <3>1 DEF RSP48_isNewFrame
  <2>15. QED
    BY <1>1, <2>1, <2>2, <2>3, <2>4, <2>5, <2>6, <2>7, <2>8, <2>9, <2>10, <2>11, <2>12, <2>13, <2>14 DEF MechTypes, AiryTypes
<1>4. QED
  BY <1>2, <1>3, NewFrameTyped

-----------------------------------------------------------------------------
(* The mechanical sensor *)

\* The sensor's packets, at any time and speed, and what a DIFOP packet says of them.

MechLidars ==
  {l \in [type : MechTypes, model : Nat, mode : {0, 3}, rpm : {600, 1200}, full : BOOLEAN,
          install : Nat, blocks : Nat, duration : Nat, n : Nat, t0 : Nat, told : BOOLEAN] :
     /\ l.blocks = BlockCount(l.type) /\ l.duration \in Durations(l.type)
     /\ l.t0 >= 100000000}

LEMMA BlockCounts ==
  ASSUME NEW type
  PROVE  BlockCount(type) \in {3, 4, 8, 12, 16}
BY DEF BlockCount

LEMMA DurationValues ==
  ASSUME NEW type, NEW D \in Durations(type)
  PROVE  D \in {55500, 55520, 55560, 55552, 55550, 111080, 69462, 166667}
BY DEF Durations

\* The angle between two firings doubles with the speed.
LEMMA StepSizes ==
  ASSUME NEW l \in MechLidars
  PROVE  \E S \in {20, 25, 40, 50, 60, 80, 120} :
           /\ S <= 60 \/ l.blocks # 16
           /\ Step(l, 10) = S /\ Step(l, Rps(l)) \in {S, 2 * S}
<1> DEFINE D == Duration(l)
           type == l.type
<1>1. D \in {55500, 55520, 55560, 55552, 55550, 111080, 69462, 166667}
  BY DurationValues DEF MechLidars, Duration
<1>2. Rps(l) \in {10, 20} /\ Pace(l) \in {1, 2} /\ (l.blocks = 16 => Pace(l) = 1)
  <2>1. l.rpm \in {600, 1200} /\ l.blocks = BlockCount(l.type)
    BY DEF MechLidars
  <2>2. l.blocks = 16 => l.type = "RSAIRYLITE"
    BY <2>1 DEF BlockCount
  <2>3. QED
    BY <2>1, <2>2 DEF Rps, Pace
<1>3. D = 166667 => Pace(l) = 1
  BY DEF MechLidars, Duration, Durations, Pace
<1> DEFINE S == Step(l, 10)
           T == Step(l, 20)
<1> HIDE DEF D
<1>4. S = ((360 * D + 500000) \div 1000000) * Pace(l) /\ T = ((720 * D + 500000) \div 1000000) * Pace(l)
  BY <1>1 DEF Step, D
<1>5. (360 * D + 500000) \div 1000000 \in {20, 25, 40, 60}
      /\ (720 * D + 500000) \div 1000000 = 2 * ((360 * D + 500000) \div 1000000)
      /\ ((360 * D + 500000) \div 1000000 = 60 => D = 166667)
  BY <1>1
<1> DEFINE X == (360 * D + 500000) \div 1000000
<1> HIDE DEF X, S, T
<1>6. X \in {20, 25, 40, 60} /\ S = X * Pace(l) /\ T = 2 * X * Pace(l) /\ (X = 60 => D = 166667)
  BY <1>4, <1>5 DEF X
<1>7. S \in {20, 25, 40, 50, 60, 80, 120} /\ T = 2 * S /\ (S <= 60 \/ l.blocks # 16)
  BY <1>2, <1>3, <1>6
<1>8. Step(l, Rps(l)) \in {S, 2 * S}
  BY <1>2, <1>7 DEF S, T
<1>9. QED
  BY <1>7, <1>8 DEF S

LEMMA AtMostOneRound ==
  ASSUME NEW n \in Nat, n <= 36000
  PROVE  n \in 0 .. RS_ONE_ROUND
<1>1. RS_ONE_ROUND \in Nat /\ n <= RS_ONE_ROUND
  BY DEF RS_ONE_ROUND
<1>2. QED
  BY <1>1

\* The field of view, and at least three firings in a turn.
LEMMA Turns ==
  ASSUME NEW l \in MechLidars
  PROVE  /\ Fov(l).start \in Nat /\ fovRange(Fov(l)) \in 0 .. RS_ONE_ROUND
         /\ Step(l, Rps(l)) \in Nat \ {0}
         /\ Turn(l) \in Nat /\ Turn(l) >= 3
<1>1. PICK S : /\ S \in Nat /\ 20 <= S /\ S <= 120
               /\ S <= 60 \/ l.blocks # 16
               /\ Step(l, 10) = S /\ Step(l, Rps(l)) \in {S, 2 * S}
  <2>1. PICK S \in {20, 25, 40, 50, 60, 80, 120} :
          /\ S <= 60 \/ l.blocks # 16
          /\ Step(l, 10) = S /\ Step(l, Rps(l)) \in {S, 2 * S}
    BY StepSizes
  <2>2. S \in Nat /\ 20 <= S /\ S <= 120
    OBVIOUS
  <2>3. QED
    BY <2>1, <2>2
<1> DEFINE T == Step(l, Rps(l))
           width == 4 * (l.blocks + 1) * S
<1>2. T \in Nat \ {0} /\ T <= 2 * S
  BY <1>1
<1>3. l.blocks \in {3, 4, 8, 12, 16} /\ l.mode \in {0, 3} /\ l.full \in BOOLEAN
  BY BlockCounts DEF MechLidars
<1>4. width \in 16 * S .. 10000 /\ width - 6 * S \in Nat /\ 36000 - 6 * S \in Nat
      /\ width - 6 * S < 36000 - 6 * S
  BY <1>1, <1>3
<1>5. PICK v : v = Fov(l)
  OBVIOUS
<1> DEFINE w == width
<1>6. \/ v = [start |-> 0, end |-> 36000]
      \/ v = [start |-> 36000 - 6 * S, end |-> w - 6 * S]
      \/ v = [start |-> 1000, end |-> 1000 + w]
  <2>1. CASE l.full
    BY <1>1, <1>5, <2>1 DEF Fov, RS_ONE_ROUND
  <2>2. CASE ~ l.full /\ l.mode = 0
    BY <1>1, <1>5, <2>2 DEF Fov, RS_ONE_ROUND
  <2>3. CASE ~ l.full /\ l.mode = 3
    BY <1>1, <1>5, <2>3 DEF Fov, RS_ONE_ROUND
  <2>4. QED
    BY <1>3, <2>1, <2>2, <2>3
<1>7. w \in Nat /\ 16 * S <= w /\ w <= 10000 /\ 36000 - 6 * S \in Nat
  BY <1>1, <1>4
<1> HIDE DEF w
<1> DEFINE range == fovRange(v)
<1>8. range = IF v.start < v.end THEN v.end - v.start ELSE v.end + 36000 - v.start
  BY DEF fovRange, RS_ONE_ROUND
<1> HIDE DEF range
<1>9. v.start \in Nat /\ range \in Nat /\ range <= 36000 /\ range >= 6 * S
  <2>1. CASE v = [start |-> 0, end |-> 36000]
    <3>1. v.start = 0 /\ v.end = 36000
      BY <2>1
    <3>2. QED
      BY <1>1, <1>8, <3>1
  <2>2. CASE v = [start |-> 36000 - 6 * S, end |-> w - 6 * S]
    <3>1. v.start = 36000 - 6 * S /\ v.end = w - 6 * S
      BY <2>2
    <3>2. v.start \in Nat /\ range = w
      BY <1>1, <1>7, <1>8, <3>1
    <3>3. QED
      BY <1>1, <1>7, <3>2
  <2>3. CASE v = [start |-> 1000, end |-> 1000 + w]
    <3>1. v.start = 1000 /\ v.end = 1000 + w
      BY <2>3
    <3>2. v.start \in Nat /\ range = w
      BY <1>1, <1>7, <1>8, <3>1
    <3>3. QED
      BY <1>1, <1>7, <3>2
  <2>4. QED
    BY <1>6, <2>1, <2>2, <2>3
<1> HIDE DEF T
<1>10. range >= 3 * T
  BY <1>1, <1>2, <1>9
<1>11. range \div T \in Nat /\ range \div T >= 3
  BY <1>2, <1>9, <1>10, AtLeast, 3 \in Nat
<1>12. Turn(l) = range \div T
  BY <1>5, Zenon DEF Turn, range, T
<1>13. Fov(l).start \in Nat
  BY <1>5, <1>9
<1>14. fovRange(Fov(l)) \in 0 .. RS_ONE_ROUND
  <2>1. range \in 0 .. RS_ONE_ROUND
    <3>1. range \in Nat /\ range <= 36000
      BY <1>9
    <3>2. QED
      BY <3>1, AtMostOneRound
  <2>2. QED
    BY <1>5, <2>1, Zenon DEF range
<1>15. Step(l, Rps(l)) \in Nat \ {0} /\ Turn(l) \in Nat /\ Turn(l) >= 3
  BY <1>2, <1>11, <1>12 DEF T
<1>16. QED
  BY <1>13, <1>14, <1>15

\* Where and when a block is fired.
LEMMA Firings ==
  ASSUME NEW l \in MechLidars, NEW j \in Nat
  PROVE  Azimuth(l, j) \in Nat /\ FiredAt(l, j) \in Nat /\ FiredAt(l, j) >= l.t0
<1> DEFINE F == Firing(l, j)
           T == Turn(l)
           S == Step(l, Rps(l))
<1>1. PerFiring(l) \in Nat \ {0} /\ Pace(l) \in Nat /\ Rps(l) \in Nat \ {0}
  <2>1. l.rpm \in {600, 1200}
    BY DEF MechLidars
  <2>2. QED
    BY <2>1 DEF PerFiring, Pace, Rps
<1>2. F \in Nat
  <2> DEFINE m == PerFiring(l)
  <2>1. m \in Nat \ {0}
    BY <1>1
  <2> HIDE DEF m
  <2>2. j \div m \in Nat
    BY <2>1, Quotient
  <2>3. QED
    BY <2>2 DEF m, Firing
<1>3. T \in Nat \ {0} /\ S \in Nat \ {0} /\ Fov(l).start \in Nat
      /\ RS_ONE_ROUND - fovRange(Fov(l)) \in Nat
  <2> DEFINE view == fovRange(Fov(l))
  <2>1. T \in Nat /\ T >= 3 /\ S \in Nat \ {0} /\ Fov(l).start \in Nat /\ view \in 0 .. RS_ONE_ROUND
    BY Turns
  <2> HIDE DEF view, T
  <2>2. RS_ONE_ROUND - view \in Nat /\ T \in Nat \ {0}
    BY <2>1 DEF RS_ONE_ROUND
  <2>3. QED
    BY <2>1, <2>2 DEF view
<1> HIDE DEF F, T, S
<1>4. F % T \in Nat /\ F \div T \in Nat
  BY <1>2, <1>3, DivMod, Quotient
<1>5. Azimuth(l, j) \in Nat
  <2> DEFINE a == F % T
             b == Fov(l).start
             c == b + a * S
  <2>1. a \in Nat /\ b \in Nat
    BY <1>3, <1>4
  <2> HIDE DEF a, b
  <2>2. a * S \in Nat
    BY <1>3, <2>1
  <2>3. c \in Nat
    BY <2>1, <2>2
  <2>4. Azimuth(l, j) = c % 36000
    BY DEF Azimuth, a, b, F, T, S, RS_ONE_ROUND
  <2> HIDE DEF c
  <2>5. QED
    BY <2>3, <2>4
<1>6. Blind(l) \in Nat
  <2> DEFINE range == RS_ONE_ROUND - fovRange(Fov(l))
             m == 9 * Rps(l)
             n == range * 25000
  <2>0. range \in Nat
    BY <1>3
  <2>1. n \in Nat /\ m \in Nat \ {0}
    <3> HIDE DEF range
    <3>1. QED
      BY <1>1, <2>0
  <2> HIDE DEF m, n
  <2>2. n \div m \in Nat
    BY <2>1, Quotient
  <2> DEFINE q == n \div m
  <2> HIDE DEF q
  <2>3. q * 10 \in Nat
    BY <2>2 DEF q
  <2>4. QED
    BY <2>3 DEF Blind, blindTime, m, n, q
<1>7. Duration(l) \in Nat /\ l.t0 \in Nat
  BY DurationsPositive DEF MechLidars, Duration
<1>8. FiredAt(l, j) \in Nat /\ FiredAt(l, j) >= l.t0
  <2> DEFINE q == F \div T
             P == Pace(l)
             D == Duration(l)
             B == Blind(l)
             x == F * P * D
             y == q * B
  <2>1. q \in Nat /\ P \in Nat /\ D \in Nat /\ B \in Nat
    BY <1>1, <1>4, <1>6, <1>7
  <2>2. FiredAt(l, j) = l.t0 + x + y
    BY DEF FiredAt, F, T
  <2> HIDE DEF q, P, D, B
  <2>3. x \in Nat /\ y \in Nat
    BY <1>2, <2>1
  <2> HIDE DEF x, y
  <2>4. QED
    BY <1>7, <2>2, <2>3
<1>9. QED
  BY <1>5, <1>8

\* The packets of points of a mechanical sensor are packets that its decoder expects.
LEMMA SensorMsop ==
  ASSUME NEW l \in MechLidars, NEW d
  PROVE  /\ MechPacket(l.type, Msop(l, d)) /\ Msop(l, d).kind = "msop"
         /\ DOMAIN Msop(l, d) = {"kind", "len", "id", "ts", "host", "az", "fired", "bad", "raw", "sure",
                                 "model", "mode", "data_type"}
<1> DEFINE p == Msop(l, d)
           at == [k \in 1 .. l.blocks |-> FiredAt(l, l.n + k - 1)]
           az == [k \in 1 .. l.blocks |-> Azimuth(l, l.n + k - 1)]
<1>1. l.blocks = BlockCount(l.type) /\ l.n \in Nat /\ l.model \in Nat /\ l.t0 \in Nat
      /\ l.t0 >= 100000000
  BY DEF MechLidars
<1>2. l.blocks \in Nat \ {0}
  BY <1>1, BlockCounts
<1>3. \A k \in 1 .. l.blocks : at[k] \in Nat /\ at[k] >= 100000000 /\ az[k] \in Int
  <2>1. ASSUME NEW k \in 1 .. l.blocks
        PROVE at[k] \in Nat /\ at[k] >= 100000000 /\ az[k] \in Int
    <3> DEFINE j == l.n + k - 1
    <3>1. j \in Nat
      BY <1>1, <1>2
    <3>2. at[k] = FiredAt(l, j) /\ az[k] = Azimuth(l, j)
      OBVIOUS
    <3> HIDE DEF j, at, az
    <3>3. Azimuth(l, j) \in Nat /\ FiredAt(l, j) \in Nat /\ FiredAt(l, j) >= l.t0
      BY <3>1, Firings
    <3>4. QED
      BY <1>1, <3>2, <3>3
  <2> HIDE DEF at, az
  <2>2. QED
    BY <2>1
<1>4. /\ p.kind = "msop" /\ p.ts = at[1] /\ p.host = at[l.blocks] /\ p.az = az /\ p.fired = at
      /\ p.bad = 0 /\ p.model = l.model
      /\ DOMAIN p = {"kind", "len", "id", "ts", "host", "az", "fired", "bad", "raw", "sure",
                     "model", "mode", "data_type"}
  BY DEF Msop
<1>5. Len(az) = l.blocks
  BY <1>2
<1> HIDE DEF p, at, az
<1>6. 1 \in 1 .. l.blocks /\ l.blocks \in 1 .. l.blocks /\ 0 \in 0 .. l.blocks
  BY <1>2
<1>7. MechPacket(l.type, p)
  BY <1>1, <1>3, <1>4, <1>5, <1>6 DEF MechPacket
<1>8. QED
  BY <1>4, <1>7 DEF p

LEMMA SensorDifop ==
  ASSUME NEW l \in MechLidars, NEW d
  PROVE  /\ MechDifop(Difop(l, d)) /\ Difop(l, d).kind = "difop"
         /\ Difop(l, d).rpm = l.rpm /\ Difop(l, d).mode = l.mode
         /\ DOMAIN Difop(l, d) = {"kind", "len", "id", "mode", "rpm", "fov", "install", "vert", "horiz"}
<1>1. fovRange(Fov(l)) \in 0 .. RS_ONE_ROUND
  BY Turns
<1>2. l.rpm \in {0, 600, 1200} /\ l.mode \in {0, 3} /\ l.install \in Nat
  BY DEF MechLidars
<1> DEFINE p == Difop(l, d)
<1>3. /\ p.kind = "difop" /\ p.rpm = l.rpm /\ p.mode = l.mode /\ p.fov = Fov(l) /\ p.install = l.install
      /\ DOMAIN p = {"kind", "len", "id", "mode", "rpm", "fov", "install", "vert", "horiz"}
  BY DEF Difop
<1> HIDE DEF p
<1>4. QED
  BY <1>1, <1>2, <1>3 DEF MechDifop, p

\* New settings make a sensor of the same type, which has told nothing yet.
Settings(mode, rpm, full) == mode \in {0, 3} /\ rpm \in {600, 1200} /\ full \in BOOLEAN
Renewed(l, type) == l \in MechLidars /\ l.type = type /\ l.told = FALSE
LEMMA NewSensor ==
  ASSUME NEW type \in MechTypes, NEW const, const.BLOCKS_PER_PKT = BlockCount(type),
         const.BLOCK_DURATION \in Durations(type), NEW model \in Nat, NEW mode, NEW rpm, NEW full,
         Settings(mode, rpm, full), NEW t0 \in Nat, t0 >= 100000000
  PROVE  Renewed(Mech(type, const, model, mode, rpm, full, t0), type)
<1>0. mode \in {0, 3} /\ rpm \in {600, 1200} /\ full \in BOOLEAN
  BY DEF Settings
<1> DEFINE install == IF type = "RSAIRY" THEN model % 2 ELSE 255
           l == [type |-> type, model |-> model, mode |-> mode, rpm |-> rpm, full |-> full,
                 install |-> install, blocks |-> const.BLOCKS_PER_PKT,
                 duration |-> const.BLOCK_DURATION, n |-> 0, t0 |-> t0, told |-> FALSE]
           n == IF full THEN (Turn(l) - 3) * PerFiring(l) ELSE 0
<1>1. install \in Nat
  OBVIOUS
<1>2. const.BLOCKS_PER_PKT \in Nat /\ const.BLOCK_DURATION \in Nat
  BY BlockCounts, DurationsPositive
<1> HIDE DEF install
<1>3. l \in MechLidars
  BY <1>0, <1>1, <1>2 DEF MechLidars
<1>4. Mech(type, const, model, mode, rpm, full, t0) = [l EXCEPT !.n = n]
  BY DEF Mech, install
<1>5. l.type = type /\ l.told = FALSE
  OBVIOUS
<1> HIDE DEF l
<1>6. n \in Nat
  <2>1. Turn(l) \in Nat /\ Turn(l) >= 3
    BY <1>3, Turns
  <2>2. PerFiring(l) \in Nat
    BY DEF PerFiring
  <2> DEFINE a == Turn(l) - 3
             b == PerFiring(l)
  <2>3. a \in Nat /\ b \in Nat
    BY <2>1, <2>2
  <2> HIDE DEF a, b
  <2>4. a * b \in Nat
    BY <2>3
  <2>5. QED
    BY <2>4 DEF a, b
<1> HIDE DEF n
<1>7. QED
  BY <1>3, <1>4, <1>5, <1>6 DEF MechLidars, Renewed

-----------------------------------------------------------------------------
(* Lidars that number their packets: one packet *)

\* decodePacket: the block of points goes to this cloud or begins the next one.

SeqDecoder(d) ==
  /\ d \in Decoders /\ d.type \in SeqTypes /\ d.split \in SeqSplits /\ d.pre \in SeqSplits
  /\ d.packet_duration <= 1000000
  /\ d.type = "RSM1_JUMBO" => d.const.MSOP_LEN = RSM1_JUMBO_Packets.msop
SeqPacket(p) ==
  /\ p.ts \in Nat /\ p.host \in Nat /\ p.host >= 1000000 /\ p.seq \in Nat \ {0} /\ p.frame \in Nat
  /\ p.offset \in Nat /\ p.late \in BOOLEAN

\* The frame that a packet adds to the cloud it belongs to.
Own(p) == IF p.late THEN {} ELSE {p.frame}
\* What a packet does to the frames in the cloud and to those handed over, when
\* a new cloud begins with it and when not.
Cut(t, r, p, new) ==
  /\ new => r.delivered \subseteq t.delivered \cup t.cloud.frames /\ r.cloud.frames \subseteq Own(p)
  /\ ~ new => r.delivered = t.delivered /\ r.cloud.frames \subseteq t.cloud.frames \cup Own(p)

LEMMA NewPacketTyped ==
  ASSUME NEW sp \in SeqSplits, NEW seq \in Nat
  PROVE  newPacket(sp, seq).state \in SeqSplits /\ newPacket(sp, seq).split \in BOOLEAN
<1> DEFINE rewind == seq < safe_seq_min(sp.prev)
           max == IF seq > sp.max THEN seq ELSE sp.max
           forward == sp.prev <= seq /\ (seq <= safe_seq_max(sp.prev) \/ sp.prev = 0)
           prev == IF rewind \/ forward THEN seq ELSE sp.prev
           looped == sp.looped \/ rewind
<1>1. newPacket(sp, seq) = [state |-> [sp EXCEPT !.max = max, !.prev = prev, !.looped = looped],
                            split |-> rewind]
  BY Zenon DEF newPacket
<1>2. rewind \in BOOLEAN /\ looped \in BOOLEAN
  OBVIOUS
<1>3. max \in Nat /\ prev \in Nat
  BY DEF SeqSplits
<1> HIDE DEF rewind, looped, max, prev
<1> DEFINE st == [sp EXCEPT !.max = max, !.prev = prev, !.looped = looped]
<1>4. st \in SeqSplits
  BY <1>2, <1>3 DEF SeqSplits
<1>5. newPacket(sp, seq) = [state |-> st, split |-> rewind]
  BY Zenon, <1>1
<1> HIDE DEF st
<1>6. newPacket(sp, seq) \in [state : SeqSplits, split : BOOLEAN]
  BY <1>2, <1>4, <1>5
<1>7. QED
  BY <1>6

LEMMA DecodePacketTyped ==
  ASSUME NEW t \in States, SeqDecoder(t.d), NEW p, SeqPacket(p), NEW seq \in Nat, NEW per \in Nat,
         NEW offset \in Nat, NEW new, new = newPacket(t.d.split, seq),
         NEW r, r = decodePacket(t, p, seq, per, offset)
  PROVE  /\ r \in States /\ SameSettings(t.d, r.d) /\ r.d.split = new.state /\ r.imus = t.imus
         /\ Cut(t, r, p, new.split) /\ (r.ret <=> (new.split \/ t.ret))
<1> DEFINE d == t.d
           ts == pktTs(d, p)
           m == [t EXCEPT !.d.split = new.state]
           n == per * d.const.BLOCKS_PER_PKT * d.const.CHANNELS_PER_BLOCK * pointsOfChannel(d, p.raw)
           h == d.const.LASER_NUM
           b == IF new.split THEN beginFrame(m, h, ts) ELSE m
           at == ts + offset
           from == p.ts
           to == p.ts + offset
           sure == TRUE
           u == addPoints(b, n, at, from, to, sure)
           e == [u.d EXCEPT !.prev_pkt_ts = ts]
           c == [u.cloud EXCEPT !.frames = IF p.late \/ n = 0 THEN @ ELSE @ \cup {p.frame}]
<1>1. d \in Decoders /\ d.const \in Consts /\ d.split \in SeqSplits
  BY DEF SeqDecoder, Decoders
<1>2. ts \in Nat
  <2>1. d.packet_duration \in Nat /\ d.packet_duration <= 1000000
    BY <1>1 DEF SeqDecoder, Decoders
  <2>2. p.ts \in Nat /\ p.host \in Nat /\ p.host >= 1000000
    BY DEF SeqPacket
  <2>3. QED
    BY <2>1, <2>2 DEF pktTs
<1>3. new.state \in SeqSplits /\ new.split \in BOOLEAN
  BY <1>1, NewPacketTyped
<1>4. n \in Nat
  <2> DEFINE x == d.const.BLOCKS_PER_PKT
             y == d.const.CHANNELS_PER_BLOCK
             z == pointsOfChannel(d, p.raw)
  <2>1. x \in Nat /\ y \in Nat /\ z \in Nat
    BY <1>1 DEF Consts, pointsOfChannel
  <2> HIDE DEF x, y, z
  <2>2. per * x \in Nat
    BY <2>1
  <2> DEFINE px == per * x
  <2> HIDE DEF px
  <2>3. px * y \in Nat
    BY <2>1, <2>2 DEF px
  <2> DEFINE pxy == px * y
  <2> HIDE DEF pxy
  <2>4. pxy * z \in Nat
    BY <2>1, <2>3 DEF pxy
  <2>5. QED
    BY <2>4 DEF px, pxy, x, y, z
<1>5. r = [u EXCEPT !.d.prev_pkt_ts = ts, !.cloud.frames = IF p.late \/ n = 0 THEN @ ELSE @ \cup {p.frame}]
  BY Zenon DEF decodePacket
<1>6. h \in Nat \ {0} /\ at \in Nat /\ from \in Nat /\ to \in Nat
  <2>1. p.ts \in Nat
    BY DEF SeqPacket
  <2> HIDE DEF ts
  <2>2. QED
    BY <1>1, <1>2, <2>1 DEF Consts
<1> HIDE DEF ts, n, h, at, from, to, sure
<1>7. /\ m \in States /\ m.d = [d EXCEPT !.split = new.state] /\ m.imus = t.imus
      /\ m.cloud = t.cloud /\ m.delivered = t.delivered /\ m.ret = t.ret
  <2>1. [d EXCEPT !.split = new.state] \in Decoders
    BY <1>1, <1>3 DEF Decoders, Splits
  <2>2. QED
    BY <2>1 DEF States
<1>8. m.d.split = new.state /\ SameSettings(d, m.d)
  BY <1>1, <1>7 DEF SameSettings, Decoders
<1> HIDE DEF m
<1>9. /\ b \in States /\ b.imus = t.imus /\ b.d.split = new.state /\ SameSettings(d, b.d)
      /\ new.split => b.delivered \subseteq t.delivered \cup t.cloud.frames /\ b.cloud.frames = {}
      /\ ~ new.split => b.delivered = t.delivered /\ b.cloud.frames = t.cloud.frames
      /\ b.ret <=> (new.split \/ t.ret)
  <2>1. CASE new.split
    <3> DEFINE g == beginFrame(m, h, ts)
    <3>0. ts \in Int /\ h \in Nat \ {0} /\ m \in States
      BY <1>2, <1>6, <1>7
    <3>1. /\ g \in States /\ g.d = [m.d EXCEPT !.first_point_ts = ts] /\ g.imus = m.imus
          /\ g.delivered \subseteq m.delivered \cup m.cloud.frames /\ g.cloud.frames = {}
          /\ g.ret
      BY <3>0, BeginFrameTyped
    <3>2. b = g
      BY <2>1
    <3> HIDE DEF g, b, d
    <3>3. m.d \in Decoders
      BY <1>7 DEF States
    <3>4. g.d.split = m.d.split /\ SameSettings(m.d, g.d)
      BY <3>1, <3>3 DEF SameSettings, Decoders
    <3>5. SameSettings(d, g.d)
      BY <1>8, <3>4 DEF SameSettings
    <3>6. QED
      BY <1>7, <1>8, <2>1, <3>1, <3>2, <3>4, <3>5
  <2>2. CASE ~ new.split
    BY <1>7, <1>8, <2>2
  <2>3. QED
    BY <2>1, <2>2, <1>3
<1> HIDE DEF b
<1>10. /\ u \in States /\ u.d = [b.d EXCEPT !.prev_point_ts = at] /\ u.imus = b.imus
       /\ u.delivered = b.delivered /\ u.cloud.frames = b.cloud.frames /\ u.ret = b.ret
  <2>1. b \in States /\ n \in Nat /\ at \in Nat /\ from \in Nat /\ to \in Nat
    BY <1>4, <1>6, <1>9
  <2>2. QED
    BY <2>1, AddPointsTyped
<1> HIDE DEF u
<1>11. u.d.split = b.d.split /\ SameSettings(b.d, u.d)
  <2>1. b.d \in Decoders
    BY <1>9 DEF States
  <2>2. QED
    BY <1>10, <2>1 DEF SameSettings, Decoders
<1>12. e \in Decoders /\ e.split = u.d.split /\ SameSettings(u.d, e)
  <2>1. u.d \in Decoders
    BY <1>10 DEF States
  <2>2. QED
    BY <1>2, <2>1 DEF SameSettings, Decoders
<1>13. /\ c \in Clouds /\ c.frames \subseteq u.cloud.frames \cup Own(p)
  <2> DEFINE f == IF p.late \/ n = 0 THEN u.cloud.frames ELSE u.cloud.frames \cup {p.frame}
  <2>1. u.cloud \in Clouds
    BY <1>10 DEF States
  <2>2. f \in SUBSET Nat /\ f \subseteq u.cloud.frames \cup Own(p)
    BY <2>1 DEF Clouds, SeqPacket, Own
  <2>3. c = [u.cloud EXCEPT !.frames = f]
    OBVIOUS
  <2> HIDE DEF f, c
  <2>4. QED
    BY <2>1, <2>2, <2>3 DEF Clouds
<1>14. r = [u EXCEPT !.d = e, !.cloud = c]
  BY <1>5, <1>10 DEF States, Clouds
<1> HIDE DEF e, c, d
<1>15. r \in States /\ r.d = e /\ r.cloud = c /\ r.delivered = u.delivered /\ r.imus = u.imus
       /\ r.ret = u.ret
  BY <1>10, <1>12, <1>13, <1>14 DEF States
<1>16. SameSettings(d, e)
  BY <1>9, <1>11, <1>12 DEF SameSettings
<1>17. Cut(t, r, p, new.split)
  <2>1. r.delivered = b.delivered /\ r.cloud.frames \subseteq b.cloud.frames \cup Own(p)
    BY <1>10, <1>13, <1>15
  <2>2. QED
    BY <1>9, <2>1 DEF Cut
<1>18. QED
  BY <1>9, <1>10, <1>11, <1>12, <1>15, <1>16, <1>17 DEF d

-----------------------------------------------------------------------------
(* Lidars that number their packets: one datagram *)

\* decodeMsopPkt of RSM1, RSM2, RSM3, RSMX, RSE1, RSEMX and the jumbo datagrams of
\* RSM1, that hold PACKET_NUM packets each.

\* What a packet of points may do to a state, whatever its number.
SeqDecoded(t, r, p) ==
  /\ r \in States /\ SeqDecoder(r.d) /\ SameSettings(t.d, r.d) /\ r.imus = t.imus
  /\ r.cloud.frames \subseteq t.cloud.frames \cup {p.frame}
  /\ r.delivered \subseteq t.delivered \cup t.cloud.frames \cup {p.frame}

LEMMA Quiet ==
  ASSUME NEW t \in States, NEW u, u = [t EXCEPT !.ret = FALSE]
  PROVE  u \in States /\ u.d = t.d /\ u.cloud = t.cloud /\ u.delivered = t.delivered /\ u.imus = t.imus
         /\ ~ u.ret
BY DEF States

LEMMA SameSeqDecoder ==
  ASSUME NEW d, SeqDecoder(d), NEW e \in Decoders, SameSettings(d, e), e.split \in SeqSplits
  PROVE  SeqDecoder(e)
BY DEF SeqDecoder, SameSettings

\* What decodePacket does to the frames.
Cuts(t, p, seq, per, offset) ==
  LET new == newPacket(t.d.split, seq)
      r == decodePacket(t, p, seq, per, offset)
  IN /\ r \in States /\ SameSettings(t.d, r.d) /\ r.d.split = new.state /\ r.imus = t.imus
     /\ Cut(t, r, p, new.split) /\ (r.ret <=> (new.split \/ t.ret))
LEMMA PacketCuts ==
  ASSUME NEW t \in States, SeqDecoder(t.d), NEW p, SeqPacket(p), NEW seq \in Nat, NEW per \in Nat,
         NEW offset \in Nat
  PROVE  Cuts(t, p, seq, per, offset)
<1> DEFINE new == newPacket(t.d.split, seq)
           r == decodePacket(t, p, seq, per, offset)
<1>1. new = newPacket(t.d.split, seq) /\ r = decodePacket(t, p, seq, per, offset)
  OBVIOUS
<1> HIDE DEF new, r
<1>2. /\ r \in States /\ SameSettings(t.d, r.d) /\ r.d.split = new.state /\ r.imus = t.imus
      /\ Cut(t, r, p, new.split) /\ (r.ret <=> (new.split \/ t.ret))
  BY <1>1, DecodePacketTyped
<1>3. QED
  BY Zenon, <1>2 DEF Cuts, new, r

\* The packet is said to begin a frame when the split says so.
Announces(r, new) == r.ret <=> new.split
OneMore(t, r, p, new) ==
  /\ r \in States /\ SameSettings(t.d, r.d) /\ r.d.split = new.state /\ r.imus = t.imus
  /\ Cut(t, r, p, new.split) /\ SeqDecoded(t, r, p) /\ Announces(r, new)
\* One packet that decodePacket decodes, from a state whose ret is reset.
LEMMA OnePacket ==
  ASSUME NEW t \in States, SeqDecoder(t.d), NEW p, SeqPacket(p), NEW seq \in Nat, NEW per \in Nat,
         NEW offset \in Nat, NEW new, new = newPacket(t.d.split, seq),
         NEW u, u = [t EXCEPT !.ret = FALSE], NEW r, r = decodePacket(u, p, seq, per, offset)
  PROVE  OneMore(t, r, p, new)
<1>1. u \in States /\ u.d = t.d /\ u.cloud = t.cloud /\ u.delivered = t.delivered /\ u.imus = t.imus
      /\ ~ u.ret
  BY Quiet
<1>2. SeqDecoder(u.d)
  BY <1>1
<1>0. Cuts(u, p, seq, per, offset)
  BY <1>1, <1>2, PacketCuts
<1>3. /\ r \in States /\ SameSettings(t.d, r.d) /\ r.d.split = new.state /\ r.imus = t.imus
      /\ Cut(u, r, p, new.split) /\ (r.ret <=> new.split)
  BY <1>0, <1>1 DEF Cuts
<1>4. Cut(t, r, p, new.split)
  BY <1>1, <1>3 DEF Cut
<1>5. t.d.split \in SeqSplits
  BY DEF SeqDecoder
<1>6. new.state \in SeqSplits /\ new.split \in BOOLEAN
  BY <1>5, NewPacketTyped
<1>7. r.d \in Decoders
  BY <1>3 DEF States
<1>8. SeqDecoder(r.d)
  BY <1>3, <1>6, <1>7, SameSeqDecoder
<1>9. /\ r.cloud.frames \subseteq t.cloud.frames \cup {p.frame}
      /\ r.delivered \subseteq t.delivered \cup t.cloud.frames \cup {p.frame}
  BY <1>4, <1>6 DEF Cut, Own
<1>10. SeqDecoded(t, r, p) /\ Announces(r, new)
  BY <1>3, <1>8, <1>9 DEF SeqDecoded, Announces
<1>11. QED
  BY Zenon, <1>3, <1>4, <1>10 DEF OneMore

SimpleTypes == {"RSM2", "RSM3", "RSE1", "RSMX"}
LEMMA SimpleMsop ==
  ASSUME NEW t, t.d.type \in SimpleTypes, NEW p
  PROVE  \E per \in {1, 2} :
           decodeMsopPkt(t, p) = decodePacket([t EXCEPT !.ret = FALSE], p, p.seq, per, p.offset)
<1>1. CASE t.d.type = "RSM2"
  <2>1. decodeMsopPkt(t, p) = RSM2_decodeMsopPkt(t, p)
    BY SMT, <1>1 DEF decodeMsopPkt
  <2>2. QED
    BY <2>1 DEF RSM2_decodeMsopPkt, decodePkt
<1>2. CASE t.d.type = "RSM3"
  <2>1. decodeMsopPkt(t, p) = RSM3_decodeMsopPkt(t, p)
    BY SMT, <1>2 DEF decodeMsopPkt
  <2>2. QED
    BY <2>1 DEF RSM3_decodeMsopPkt, decodePkt
<1>3. CASE t.d.type = "RSE1"
  <2>1. decodeMsopPkt(t, p) = RSE1_decodeMsopPkt(t, p)
    BY SMT, <1>3 DEF decodeMsopPkt
  <2>2. QED
    BY <2>1 DEF RSE1_decodeMsopPkt, decodePkt
<1>4. CASE t.d.type = "RSMX"
  <2>1. decodeMsopPkt(t, p) = RSMX_decodeMsopPkt(t, p)
    BY SMT, <1>4 DEF decodeMsopPkt
  <2>2. QED
    BY <2>1 DEF RSMX_decodeMsopPkt, decodePkt
<1>5. QED
  BY <1>1, <1>2, <1>3, <1>4 DEF SimpleTypes

\* RSM1: what ends a frame besides a number that is too small.
LEMMA RSM1Msop ==
  ASSUME NEW t \in States, SeqDecoder(t.d), t.d.type = "RSM1", NEW p, SeqPacket(p),
         NEW new, new = newPacket(t.d.split, p.seq), NEW r, r = decodeMsopPkt(t, p)
  PROVE  /\ SeqDecoded(t, r, p) /\ r.d.split = new.state /\ (r.ret <=> new.split)
         /\ \E w : /\ Cut(t, w, p, new.split)
                   /\ maxSeq(r.d.split) # p.seq => r.cloud.frames = w.cloud.frames
                                                   /\ r.delivered = w.delivered
                   /\ maxSeq(r.d.split) = p.seq =>
                        \/ r.cloud.frames = w.cloud.frames /\ r.delivered = w.delivered
                        \/ r.cloud.frames = {} /\ r.delivered \subseteq w.delivered \cup w.cloud.frames
<1> DEFINE u == [t EXCEPT !.ret = FALSE]
           seq == p.seq
           offset == p.offset
           w == decodePacket(u, p, seq, 1, offset)
           h == w.d.const.LASER_NUM
           z == splitFrame(w, h)
<1>1. decodeMsopPkt(t, p) = RSM1_decodeMsopPkt(t, p)
  BY SMT DEF decodeMsopPkt
<1>2. r = IF maxSeq(w.d.split) = p.seq THEN z ELSE w
  BY <1>1 DEF RSM1_decodeMsopPkt, decodePkt
<1>3. seq \in Nat /\ offset \in Nat /\ 1 \in Nat /\ new = newPacket(t.d.split, seq)
  BY DEF SeqPacket
<1> HIDE DEF u, offset
<1>4. u = [t EXCEPT !.ret = FALSE]
  BY DEF u
<1> HIDE DEF seq
<1>5. /\ w \in States /\ SameSettings(t.d, w.d) /\ w.d.split = new.state /\ w.imus = t.imus
      /\ Cut(t, w, p, new.split) /\ SeqDecoded(t, w, p)
      /\ (w.ret <=> new.split)
  <2>1. /\ w \in States /\ SameSettings(t.d, w.d) /\ w.d.split = new.state /\ w.imus = t.imus
        /\ Cut(t, w, p, new.split) /\ SeqDecoded(t, w, p) /\ Announces(w, new)
    <3> DEFINE per == 1
    <3>1. w = decodePacket(u, p, seq, per, offset) /\ per \in Nat
      OBVIOUS
    <3> HIDE DEF w, per
    <3>2. OneMore(t, w, p, new)
      BY Zenon, <1>3, <1>4, <3>1, OnePacket
    <3>3. QED
      BY Zenon, <3>2 DEF OneMore
  <2> HIDE DEF w
  <2>2. QED
    BY <2>1 DEF Announces
<1> HIDE DEF w
<1>6. h \in Nat \ {0}
  BY <1>5 DEF States, Decoders, Consts
<1> HIDE DEF h
<1>7. /\ z \in States /\ z.d = w.d /\ z.imus = w.imus /\ z.delivered \subseteq w.delivered \cup w.cloud.frames
      /\ z.cloud \in {w.cloud, EmptyCloud} /\ z.ret = w.ret
  BY <1>5, <1>6, SplitFrameTyped
<1>8. \/ z = w
      \/ z.cloud.frames = {}
  BY <1>5 DEF splitFrame, EmptyCloud, States
<1> HIDE DEF z
<1>9. EmptyCloud.frames = {}
  BY DEF EmptyCloud
<1>10. SeqDecoded(t, z, p)
  <2>1. z.cloud.frames \subseteq w.cloud.frames
    BY <1>7, <1>9
  <2>2. w.cloud.frames \subseteq t.cloud.frames \cup {p.frame}
        /\ w.delivered \subseteq t.delivered \cup t.cloud.frames \cup {p.frame}
    BY <1>5 DEF SeqDecoded
  <2>3. z.delivered \subseteq t.delivered \cup t.cloud.frames \cup {p.frame}
    BY <1>7, <2>2
  <2>4. QED
    BY <1>5, <1>7, <2>1, <2>2, <2>3 DEF SeqDecoded
<1>11. r.d.split = new.state /\ (r.ret <=> new.split)
  BY <1>2, <1>5, <1>7
<1>12. SeqDecoded(t, r, p)
  BY <1>2, <1>5, <1>10
<1>13. /\ maxSeq(r.d.split) # p.seq => r.cloud.frames = w.cloud.frames
                                      /\ r.delivered = w.delivered
       /\ maxSeq(r.d.split) = p.seq =>
            \/ r.cloud.frames = w.cloud.frames /\ r.delivered = w.delivered
            \/ r.cloud.frames = {} /\ r.delivered \subseteq w.delivered \cup w.cloud.frames
  BY <1>2, <1>5, <1>7, <1>8, <1>11
<1>14. QED
  BY <1>5, <1>11, <1>12, <1>13

LEMMA RSEMXMsop ==
  ASSUME NEW t, t.d.type = "RSEMX", NEW p
  PROVE  decodeMsopPkt(t, p) =
           IF p.surface >= EMX_SURFACE_NUM THEN [t EXCEPT !.ret = FALSE]
           ELSE decodePacket([t EXCEPT !.ret = FALSE], p, p.seq - 1, 1, 0)
<1>1. decodeMsopPkt(t, p) = RSEMX_decodeMsopPkt(t, p)
  BY SMT DEF decodeMsopPkt
<1>2. QED
  BY <1>1 DEF RSEMX_decodeMsopPkt

\* The packets of a jumbo datagram, one after another.
LEMMA JumboOneByOne ==
  ASSUME NEW t, t.d.type = "RSM1_JUMBO", NEW p, p.len = RSM1_JUMBO_Packets.msop
  PROVE  \E g : /\ g[0] = [t EXCEPT !.ret = FALSE]
                /\ \A k \in 1 .. PACKET_NUM : g[k] = JUMBO_packetOf(g[k - 1], p, k)
                /\ decodeMsopPkt(t, p) = g[PACKET_NUM]
<1> DEFINE n == PACKET_NUM
           F(f, k) == IF k = 0 THEN [t EXCEPT !.ret = FALSE] ELSE JUMBO_packetOf(f[k - 1], p, k)
           after == CHOOSE f : f = [k \in 0 .. n |-> F(f, k)]
           Has == {m \in Nat : \E f : f = [k \in 0 .. m |-> F(f, k)]}
<1>0. n \in Nat
  BY DEF PACKET_NUM
<1>1. decodeMsopPkt(t, p) = after[n]
  <2>1. decodeMsopPkt(t, p) = RSM1_JUMBO_decodeMsopPkt(t, p)
    BY SMT DEF decodeMsopPkt
  <2>2. QED
    BY <2>1 DEF RSM1_JUMBO_decodeMsopPkt
<1> HIDE DEF n
<1>2. 0 \in Has
  <2> DEFINE h == [k \in 0 .. 0 |-> [t EXCEPT !.ret = FALSE]]
  <2>1. h = [k \in 0 .. 0 |-> F(h, k)]
    OBVIOUS
  <2>2. QED
    BY <2>1
<1>3. ASSUME NEW m \in Nat, m \in Has PROVE m + 1 \in Has
  <2>1. PICK h : h = [k \in 0 .. m |-> F(h, k)]
    BY <1>3
  <2> DEFINE g == [k \in 0 .. (m + 1) |-> IF k = m + 1 THEN F(h, m + 1) ELSE h[k]]
  <2>2. ASSUME NEW k \in 0 .. (m + 1) PROVE g[k] = F(g, k)
    <3>1. CASE k = 0
      <4>1. h[0] = F(h, 0)
        BY <2>1
      <4>2. QED
        BY <3>1, <4>1
    <3>2. CASE k # 0
      <4>1. k - 1 \in 0 .. m /\ g[k - 1] = h[k - 1]
        BY <3>2
      <4>2. F(g, k) = F(h, k)
        BY <4>1
      <4>3. CASE k = m + 1
        BY <4>2, <4>3
      <4>4. CASE k # m + 1
        <5>1. k \in 0 .. m
          BY <4>4
        <5>2. h[k] = F(h, k)
          BY <2>1, <5>1
        <5>3. QED
          BY <4>2, <4>4, <5>2
      <4>5. QED
        BY <4>3, <4>4
    <3>3. QED
      BY <3>1, <3>2
  <2> HIDE DEF F
  <2>3. g = [k \in 0 .. (m + 1) |-> F(g, k)]
    <3>1. g = [k \in 0 .. (m + 1) |-> g[k]]
      OBVIOUS
    <3> HIDE DEF g
    <3>2. QED
      BY <2>2, <3>1
  <2> HIDE DEF g
  <2>4. \E x : x = [k \in 0 .. (m + 1) |-> F(x, k)]
    BY <2>3
  <2>5. QED
    BY <2>4
<1> HIDE DEF Has
<1>4. n \in Has
  BY <1>0, <1>2, <1>3, SetInduction
<1> HIDE DEF F
<1>5. after = [k \in 0 .. n |-> F(after, k)]
  BY <1>4 DEF Has
<1> HIDE DEF after
<1>7. \A k \in 0 .. n : after[k] = F(after, k)
  BY <1>5
<1>8. after[0] = [t EXCEPT !.ret = FALSE]
  <2>1. after[0] = F(after, 0)
    BY <1>0, <1>7
  <2>2. QED
    BY <2>1 DEF F
<1>9. ASSUME NEW k \in 1 .. n PROVE after[k] = JUMBO_packetOf(after[k - 1], p, k)
  <2>1. after[k] = F(after, k) /\ k # 0
    BY <1>0, <1>7
  <2>2. QED
    BY <2>1 DEF F
<1>10. QED
  BY <1>1, <1>8, <1>9 DEF n

\* One packet of a datagram; SeqDecoded and Cut say what it does.
LEMMA JumboPacket ==
  ASSUME NEW t \in States, SeqDecoder(t.d), NEW p, SeqPacket(p), NEW i \in Nat,
         NEW seq, seq = (p.seq - 1) * PACKET_NUM + i, NEW new, new = newPacket(t.d.split, seq),
         NEW r, r = JUMBO_packetOf(t, p, i)
  PROVE  SeqDecoded(t, r, p) /\ r.d.split = new.state /\ Cut(t, r, p, new.split)
<1> DEFINE offset == p.offset
           w == decodePacket(t, p, seq, 1, offset)
<1>1. seq \in Nat
  <2> DEFINE a == p.seq - 1
  <2>1. a \in Nat
    BY DEF SeqPacket
  <2> HIDE DEF a
  <2>2. a * PACKET_NUM + i \in Nat
    BY <2>1 DEF PACKET_NUM
  <2>3. QED
    BY <2>2 DEF a
<1>2. r = [w EXCEPT !.ret = @ \/ t.ret]
  BY DEF JUMBO_packetOf, RSM1_JUMBO_internDecodeMsopPkt
<1>3. offset \in Nat /\ 1 \in Nat
  BY DEF SeqPacket
<1> HIDE DEF offset
<1>4. Cuts(t, p, seq, 1, offset)
  BY <1>1, <1>3, PacketCuts
<1>5. /\ w \in States /\ SameSettings(t.d, w.d) /\ w.d.split = new.state /\ w.imus = t.imus
      /\ Cut(t, w, p, new.split)
  BY <1>4, Zenon DEF Cuts
<1> HIDE DEF w
<1>6. r \in States /\ r.d = w.d /\ r.cloud = w.cloud /\ r.delivered = w.delivered /\ r.imus = w.imus
  <2> DEFINE b == w.ret \/ t.ret
  <2>1. b \in BOOLEAN
    BY <1>5 DEF States
  <2>2. r = [w EXCEPT !.ret = b]
    BY <1>2
  <2> HIDE DEF b
  <2>3. QED
    BY <1>5, <2>1, <2>2 DEF States
<1>7. t.d.split \in SeqSplits
  BY DEF SeqDecoder
<1>8. new.state \in SeqSplits /\ new.split \in BOOLEAN
  BY <1>1, <1>7, NewPacketTyped
<1>9. Cut(t, r, p, new.split)
  BY <1>5, <1>6 DEF Cut
<1>10. r.d \in Decoders
  BY <1>6 DEF States
<1>11. SeqDecoder(r.d)
  BY <1>5, <1>6, <1>8, <1>10, SameSeqDecoder
<1>12. /\ r.cloud.frames \subseteq t.cloud.frames \cup {p.frame}
       /\ r.delivered \subseteq t.delivered \cup t.cloud.frames \cup {p.frame}
  BY <1>8, <1>9 DEF Cut, Own
<1>13. QED
  BY <1>5, <1>6, <1>9, <1>11, <1>12 DEF SeqDecoded

LEMMA DecodedOn ==
  ASSUME NEW t, NEW p, NEW u, SeqDecoded(t, u, p), NEW r, SeqDecoded(u, r, p)
  PROVE  SeqDecoded(t, r, p)
<1>1. SameSettings(t.d, r.d)
  BY DEF SeqDecoded, SameSettings
<1>2. QED
  BY <1>1 DEF SeqDecoded

\* A packet that belongs to the cloud under way.
Joins(t, r, p) == r.delivered = t.delivered /\ r.cloud.frames \subseteq t.cloud.frames \cup Own(p)

LEMMA CutOn ==
  ASSUME NEW t, NEW p, NEW u, NEW b \in BOOLEAN, Cut(t, u, p, b), NEW r, Joins(u, r, p)
  PROVE  Cut(t, r, p, b)
<1>1. r.delivered = u.delivered /\ r.cloud.frames \subseteq u.cloud.frames \cup Own(p)
  BY DEF Joins
<1>2. QED
  BY <1>1 DEF Cut

LEMMA JoinsOn ==
  ASSUME NEW t, NEW p, NEW u, Joins(t, u, p), NEW r, Joins(u, r, p)
  PROVE  Joins(t, r, p)
BY DEF Joins

LEMMA CutJoins ==
  ASSUME NEW t, NEW p, NEW r, NEW b, ~ b, Cut(t, r, p, b)
  PROVE  Joins(t, r, p)
BY DEF Joins, Cut

\* The four answers of the split by sequence number.
LEMMA NewPacketAnswers ==
  ASSUME NEW sp \in SeqSplits, NEW seq \in Nat, NEW new, new = newPacket(sp, seq)
  PROVE  /\ new.state \in SeqSplits /\ new.split \in BOOLEAN
         /\ new.state.max = IF seq > sp.max THEN seq ELSE sp.max
         /\ seq + RANGE < sp.prev => new.split /\ new.state.prev = seq /\ new.state.looped
         /\ sp.prev = 0 \/ (sp.prev <= seq /\ seq <= sp.prev + RANGE /\ sp.prev + RANGE < 65536) =>
              ~ new.split /\ new.state.prev = seq /\ new.state.looped = sp.looped
         /\ sp.prev # 0 /\ sp.prev + RANGE < seq /\ sp.prev + RANGE < 65536 =>
              ~ new.split /\ new.state.prev = sp.prev /\ new.state.looped = sp.looped
         /\ seq < sp.prev /\ sp.prev <= seq + RANGE =>
              ~ new.split /\ new.state.prev = sp.prev /\ new.state.looped = sp.looped
<1> DEFINE lo == safe_seq_min(sp.prev)
           hi == safe_seq_max(sp.prev)
           rewind == seq < lo
           max == IF seq > sp.max THEN seq ELSE sp.max
           forward == sp.prev <= seq /\ (seq <= hi \/ sp.prev = 0)
           prev == IF rewind \/ forward THEN seq ELSE sp.prev
           looped == sp.looped \/ rewind
           st == [sp EXCEPT !.max = max, !.prev = prev, !.looped = looped]
<1>1. newPacket(sp, seq) = [state |-> st, split |-> rewind]
  BY Zenon DEF newPacket
<1>2. sp.prev \in Nat /\ sp.max \in Nat /\ sp.looped \in BOOLEAN
  BY DEF SeqSplits
<1>3. new.state \in SeqSplits /\ new.split \in BOOLEAN
  BY NewPacketTyped
<1>4. lo = IF sp.prev > RANGE THEN sp.prev - RANGE ELSE 0
  BY DEF safe_seq_min
<1>5. sp.prev + RANGE < 65536 => hi = sp.prev + RANGE
  <2>1. hi = (sp.prev + RANGE) % 65536
    BY DEF safe_seq_max
  <2> HIDE DEF hi
  <2> DEFINE x == sp.prev + RANGE
  <2>2. x \in Nat
    BY <1>2 DEF RANGE
  <2> HIDE DEF x
  <2>3. x < 65536 => x % 65536 = x
    BY <2>2
  <2>4. QED
    BY <2>1, <2>3 DEF x
<1> HIDE DEF lo, hi
<1>6. /\ seq + RANGE < sp.prev <=> rewind
      /\ rewind => ~ (sp.prev = 0) /\ ~ (sp.prev <= seq)
  BY <1>2, <1>4 DEF RANGE
<1>7. (sp.prev = 0 \/ (sp.prev <= seq /\ seq <= sp.prev + RANGE /\ sp.prev + RANGE < 65536)) => forward
  BY <1>2, <1>5 DEF RANGE
<1>8. /\ sp.prev # 0 /\ sp.prev + RANGE < seq /\ sp.prev + RANGE < 65536 => ~ forward
      /\ seq < sp.prev => ~ forward
  BY <1>2, <1>5 DEF RANGE
<1>9. st.max = max /\ st.prev = prev /\ (st.looped <=> looped)
  <2> HIDE DEF max, prev
  <2>1. st.max = max /\ st.prev = prev
    BY DEF SeqSplits
  <2>2. looped \in BOOLEAN
    BY <1>2
  <2> HIDE DEF looped
  <2>3. st.looped = looped
    BY DEF SeqSplits
  <2>4. QED
    BY <2>1, <2>2, <2>3
<1> HIDE DEF st
<1>10. new.state = st
  <2>1. new = [state |-> st, split |-> rewind]
    BY <1>1, Zenon
  <2> HIDE DEF rewind
  <2>2. QED
    BY <2>1
<1>11. new.split <=> rewind
  <2>1. new = [state |-> st, split |-> rewind]
    BY <1>1, Zenon
  <2>2. rewind \in BOOLEAN
    OBVIOUS
  <2> HIDE DEF rewind
  <2>3. new.split = rewind
    BY <2>1
  <2>4. QED
    BY <2>2, <2>3
<1>12. new.state.looped \in BOOLEAN
  BY <1>3 DEF SeqSplits
<1>13. ~ rewind => new.state.looped = sp.looped
  BY <1>2, <1>9, <1>10, <1>12
<1>14. /\ ~ rewind /\ ~ forward => prev = sp.prev
       /\ rewind \/ forward => prev = seq
  OBVIOUS
<1>15. rewind => looped
  OBVIOUS
<1>16. sp.prev + RANGE < seq => ~ (seq + RANGE < sp.prev)
  BY <1>2 DEF RANGE
<1>17. sp.prev <= seq + RANGE => ~ (seq + RANGE < sp.prev)
  BY <1>2 DEF RANGE
<1> DEFINE a == seq + RANGE < sp.prev
           b == sp.prev = 0 \/ (sp.prev <= seq /\ seq <= sp.prev + RANGE /\ sp.prev + RANGE < 65536)
           c == sp.prev # 0 /\ sp.prev + RANGE < seq /\ sp.prev + RANGE < 65536
           e == seq < sp.prev /\ sp.prev <= seq + RANGE
<1>18. /\ a => rewind
       /\ b => ~ rewind /\ forward
       /\ c => ~ rewind /\ ~ forward
       /\ e => ~ rewind /\ ~ forward
  BY <1>2, <1>6, <1>7, <1>8, <1>16, <1>17 DEF RANGE
<1> HIDE DEF rewind, forward, looped, prev, a, b, c, e
<1>19. /\ a => new.split /\ new.state.prev = seq /\ new.state.looped
       /\ b => ~ new.split /\ new.state.prev = seq /\ new.state.looped = sp.looped
       /\ c => ~ new.split /\ new.state.prev = sp.prev /\ new.state.looped = sp.looped
       /\ e => ~ new.split /\ new.state.prev = sp.prev /\ new.state.looped = sp.looped
  BY <1>9, <1>10, <1>11, <1>13, <1>14, <1>15, <1>18
<1>20. QED
  BY <1>3, <1>9, <1>10, <1>19 DEF a, b, c, e

\* Numbers within a jumbo datagram: the next one follows, and one beyond reach
\* stays so.
LEMMA JumboSteps ==
  ASSUME NEW x, NEW y, NEW first \in Nat, NEW k \in Nat, first <= 200, k < 1000, k >= 1,
         x = first + (k - 1), y = first + k
  PROVE  x <= y /\ y <= x + RANGE /\ x + RANGE < 65536
BY DEF RANGE
LEMMA JumboBeyond ==
  ASSUME NEW x, NEW y, NEW prev \in Nat, NEW first \in Nat, NEW k \in Nat, first <= 200, k < 1000,
         k >= 1, x = prev, prev # 0, prev + RANGE < first + 1, y = first + k
  PROVE  x # 0 /\ x + RANGE < y /\ x + RANGE < 65536
BY DEF RANGE

\* A jumbo datagram: its first packet decides for all of them.
LEMMA JumboMsop ==
  ASSUME NEW t \in States, SeqDecoder(t.d), t.d.type = "RSM1_JUMBO", NEW p, SeqPacket(p),
         p.len = RSM1_JUMBO_Packets.msop, NEW r, r = decodeMsopPkt(t, p)
  PROVE  /\ SeqDecoded(t, r, p)
         /\ \A first \in Nat : first <= 200 /\ first = (p.seq - 1) * PACKET_NUM =>
              /\ \A new : new = newPacket(t.d.split, first + 1) /\ new.state.prev = first + 1 =>
                   r.d.split.prev = first + PACKET_NUM /\ Cut(t, r, p, new.split)
              /\ t.d.split.prev # 0 /\ t.d.split.prev + RANGE < first + 1 =>
                   r.d.split.prev = t.d.split.prev /\ Joins(t, r, p)
<1> DEFINE n == PACKET_NUM
<1>0. n \in Nat /\ n >= 1 /\ n < 1000 /\ RANGE \in Nat /\ RANGE < 100
  BY DEF PACKET_NUM, RANGE
<1>1. PICK g : /\ g[0] = [t EXCEPT !.ret = FALSE]
               /\ \A k \in 1 .. PACKET_NUM : g[k] = JUMBO_packetOf(g[k - 1], p, k)
               /\ r = g[PACKET_NUM]
  BY JumboOneByOne
<1> HIDE DEF n
<1>2. /\ \A k \in 1 .. n : g[k] = JUMBO_packetOf(g[k - 1], p, k)
      /\ r = g[n]
  BY <1>1 DEF n
<1>3. /\ g[0] \in States /\ g[0].d = t.d /\ g[0].cloud = t.cloud /\ g[0].delivered = t.delivered
      /\ g[0].imus = t.imus
  <2> DEFINE u == g[0]
  <2>1. u = [t EXCEPT !.ret = FALSE]
    BY <1>1
  <2> HIDE DEF u
  <2>2. u \in States /\ u.d = t.d /\ u.cloud = t.cloud /\ u.delivered = t.delivered /\ u.imus = t.imus
    BY <2>1, Quiet
  <2>3. QED
    BY <2>2 DEF u
<1> DEFINE seqOf(k) == (p.seq - 1) * PACKET_NUM + k
           newOf(k) == newPacket(g[k - 1].d.split, seqOf(k))
           TypedAt(k) == g[k] \in States /\ SeqDecoder(g[k].d) /\ SeqDecoded(t, g[k], p)
           Steps(k) == /\ SeqDecoded(g[k - 1], g[k], p) /\ g[k].d.split = newOf(k).state
                       /\ Cut(g[k - 1], g[k], p, newOf(k).split)
<1>4. ASSUME NEW k \in 1 .. n, g[k - 1] \in States, SeqDecoder(g[k - 1].d) PROVE Steps(k)
  <2> DEFINE u == g[k - 1]
             w == g[k]
             seq == seqOf(k)
             new == newOf(k)
  <2>1. w = JUMBO_packetOf(u, p, k) /\ k \in Nat
    BY <1>0, <1>2
  <2>2. seq = (p.seq - 1) * PACKET_NUM + k /\ new = newPacket(u.d.split, seq)
        /\ u \in States /\ SeqDecoder(u.d)
    BY <1>4
  <2> HIDE DEF u, w, seq, new
  <2>3. SeqDecoded(u, w, p) /\ w.d.split = new.state /\ Cut(u, w, p, new.split)
    BY <2>1, <2>2, JumboPacket
  <2>4. QED
    BY SMT, <2>3 DEF u, w, new
<1>5. SeqDecoded(t, g[0], p) /\ TypedAt(0)
  <2> DEFINE u == g[0]
  <2>1. u \in States /\ u.d = t.d /\ u.cloud = t.cloud /\ u.delivered = t.delivered /\ u.imus = t.imus
    BY <1>3
  <2> HIDE DEF u
  <2>2. SeqDecoded(t, u, p)
    BY <2>1 DEF SeqDecoded, SameSettings
  <2>3. QED
    BY <2>1, <2>2 DEF u
<1> HIDE DEF newOf, seqOf
<1>6. ASSUME NEW k \in 1 .. n, TypedAt(k - 1) PROVE TypedAt(k) /\ Steps(k)
  <2>1. Steps(k)
    BY <1>4, <1>6
  <2>2. SeqDecoded(t, g[k], p)
    <3> DEFINE u == g[k - 1]
               w == g[k]
    <3>1. SeqDecoded(t, u, p) /\ SeqDecoded(u, w, p)
      BY <1>6, <2>1
    <3> HIDE DEF u, w
    <3>2. SeqDecoded(t, w, p)
      BY <3>1, DecodedOn
    <3>3. QED
      BY <3>2 DEF w
  <2>3. QED
    BY <2>1, <2>2 DEF SeqDecoded
<1> HIDE DEF TypedAt, Steps
<1> DEFINE Done == {k \in Nat : k <= n => TypedAt(k)}
<1>7. 0 \in Done
  BY <1>5
<1>8. ASSUME NEW k \in Nat, k \in Done PROVE k + 1 \in Done
  <2>1. ASSUME k + 1 <= n PROVE TypedAt(k + 1)
    <3>1. k + 1 \in 1 .. n /\ (k + 1) - 1 = k /\ k <= n
      BY <1>0, <2>1
    <3>2. TypedAt(k)
      BY <1>8, <3>1
    <3>3. QED
      BY <1>6, <3>1, <3>2
  <2>2. QED
    BY <2>1
<1> HIDE DEF Done
<1>9. \A k \in 0 .. n : TypedAt(k)
  <2>1. Nat \subseteq Done
    BY <1>7, <1>8, SetInduction
  <2>2. QED
    BY <1>0, <2>1 DEF Done
<1>10. \A k \in 1 .. n : Steps(k) /\ TypedAt(k - 1) /\ TypedAt(k)
  BY <1>0, <1>6, <1>9
<1>11. SeqDecoded(t, r, p)
  <2>1. TypedAt(n)
    BY <1>0, <1>9
  <2>2. QED
    BY <1>2, <2>1 DEF TypedAt
<1>12. ASSUME NEW first \in Nat, first <= 200, first = (p.seq - 1) * PACKET_NUM
       PROVE  /\ \A new : new = newPacket(t.d.split, first + 1) /\ new.state.prev = first + 1 =>
                   r.d.split.prev = first + PACKET_NUM /\ Cut(t, r, p, new.split)
              /\ t.d.split.prev # 0 /\ t.d.split.prev + RANGE < first + 1 =>
                   r.d.split.prev = t.d.split.prev /\ Joins(t, r, p)
  <2>1. ASSUME NEW k \in 1 .. n
        PROVE  \E new : /\ new = newPacket(g[k - 1].d.split, first + k)
                        /\ g[k].d.split = new.state /\ Cut(g[k - 1], g[k], p, new.split)
                        /\ g[k - 1].d.split \in SeqSplits
    <3>1. seqOf(k) = first + k
      BY SMT, <1>12 DEF seqOf
    <3>2. Steps(k) /\ TypedAt(k - 1)
      BY SMT, <1>10
    <3>3. newOf(k) = newPacket(g[k - 1].d.split, first + k)
      BY SMT, <3>1 DEF newOf
    <3>4. g[k].d.split = newOf(k).state /\ Cut(g[k - 1], g[k], p, newOf(k).split)
      BY SMT, <3>2 DEF Steps
    <3>5. g[k - 1].d.split \in SeqSplits
      BY SMT, <3>2 DEF TypedAt, SeqDecoder
    <3>6. QED
      BY SMT, <3>3, <3>4, <3>5
  <2> DEFINE S(k) == g[k].d.split
             D(k, b) == Cut(t, g[k], p, b)
  <2>2. S(0) = t.d.split /\ t.d.split \in SeqSplits /\ 1 \in 1 .. n
    BY <1>0, <1>3 DEF SeqDecoder
  <2>3. ASSUME NEW b \in BOOLEAN, Cut(g[0], g[1], p, b) PROVE D(1, b)
    BY <1>3, <2>3 DEF Cut
  <2>4. ASSUME NEW k \in 2 .. n, NEW b \in BOOLEAN, D(k - 1, b), Joins(g[k - 1], g[k], p)
        PROVE  D(k, b)
    <3> DEFINE u == g[k - 1]
               w == g[k]
    <3>1. Cut(t, u, p, b) /\ Joins(u, w, p)
      BY <2>4
    <3> HIDE DEF u, w
    <3>2. Cut(t, w, p, b)
      BY <3>1, CutOn
    <3>3. QED
      BY <3>2 DEF w
  <2>5. ASSUME NEW new, new = newPacket(t.d.split, first + 1), new.state.prev = first + 1
        PROVE  r.d.split.prev = first + PACKET_NUM /\ Cut(t, r, p, new.split)
    <3> DEFINE Fine(k) == S(k).prev = first + k /\ D(k, new.split)
               F == {k \in Nat : k + 1 <= n => Fine(k + 1)}
    <3>1. new.split \in BOOLEAN
      <4> DEFINE sp == t.d.split
                 seq == first + 1
      <4>1. sp \in SeqSplits /\ seq \in Nat /\ new = newPacket(sp, seq)
        BY <2>2, <2>5
      <4> HIDE DEF sp, seq
      <4>2. QED
        BY <4>1, NewPacketTyped
    <3>2. Fine(1)
      <4>1. PICK x : /\ x = newPacket(g[1 - 1].d.split, first + 1)
                     /\ g[1].d.split = x.state /\ Cut(g[1 - 1], g[1], p, x.split)
        BY <2>1, <2>2
      <4>2. 1 - 1 = 0
        OBVIOUS
      <4>3. x = new
        BY <2>2, <2>5, <4>1, <4>2
      <4>4. Cut(g[0], g[1], p, new.split) /\ g[1].d.split = new.state
        BY <4>1, <4>2, <4>3
      <4>5. QED
        BY <2>3, <2>5, <3>1, <4>4
    <3>3. ASSUME NEW k \in 2 .. n, Fine(k - 1) PROVE Fine(k)
      <4>1. PICK x : /\ x = newPacket(g[k - 1].d.split, first + k)
                     /\ g[k].d.split = x.state /\ Cut(g[k - 1], g[k], p, x.split)
                     /\ g[k - 1].d.split \in SeqSplits
        BY <1>0, <2>1
      <4> DEFINE sp == g[k - 1].d.split
                 seq == first + k
      <4>2. sp \in SeqSplits /\ seq \in Nat /\ x = newPacket(sp, seq)
            /\ sp.prev = first + (k - 1) /\ seq = first + k /\ k \in Nat /\ k < 1000
        BY <1>0, <3>3, <4>1
      <4> HIDE DEF sp, seq
      <4>3. sp.prev <= seq /\ seq <= sp.prev + RANGE /\ sp.prev + RANGE < 65536
        BY <1>0, <1>12, <4>2, JumboSteps
      <4>4. ~ x.split /\ x.state.prev = seq
        BY <4>2, <4>3, NewPacketAnswers
      <4>6. Joins(g[k - 1], g[k], p)
        BY <4>1, <4>4, CutJoins
      <4>7. D(k, new.split)
        BY <2>4, <3>1, <3>3, <4>6
      <4>8. S(k).prev = first + k
        BY <4>1, <4>4 DEF seq
      <4>9. QED
        BY <4>7, <4>8
    <3> HIDE DEF Fine
    <3>4. 0 \in F
      BY <3>2
    <3>5. ASSUME NEW k \in Nat, k \in F PROVE k + 1 \in F
      <4>1. ASSUME (k + 1) + 1 <= n PROVE Fine((k + 1) + 1)
        <5>1. (k + 1) + 1 \in 2 .. n /\ ((k + 1) + 1) - 1 = k + 1 /\ k + 1 <= n
          BY <1>0, <4>1
        <5>2. Fine(k + 1)
          BY <3>5, <5>1
        <5>3. QED
          BY <3>3, <5>1, <5>2
      <4>2. QED
        BY <4>1
    <3> HIDE DEF F
    <3>6. Nat \subseteq F
      BY <3>4, <3>5, SetInduction
    <3>7. Fine(n)
      <4>1. n - 1 \in Nat /\ (n - 1) + 1 = n
        BY <1>0
      <4>2. QED
        BY <3>6, <4>1 DEF F
    <3>8. QED
      BY <1>2, <3>7 DEF Fine, n
  <2>6. ASSUME t.d.split.prev # 0, t.d.split.prev + RANGE < first + 1
        PROVE  r.d.split.prev = t.d.split.prev /\ Joins(t, r, p)
    <3> DEFINE prev == t.d.split.prev
               Fine(k) == S(k).prev = prev /\ Joins(t, g[k], p)
               F == {k \in Nat : k + 1 <= n => Fine(k + 1)}
    <3>1. prev \in Nat /\ prev # 0 /\ prev + RANGE < first + 1
      BY <2>2, <2>6 DEF SeqSplits
    <3>0. S(0).prev = prev
      BY <2>2
    <3> HIDE DEF prev
    <3>2. ASSUME NEW k \in 1 .. n, S(k - 1).prev = prev
          PROVE  S(k).prev = prev /\ Joins(g[k - 1], g[k], p)
      <4>1. PICK x : /\ x = newPacket(g[k - 1].d.split, first + k)
                     /\ g[k].d.split = x.state /\ Cut(g[k - 1], g[k], p, x.split)
                     /\ g[k - 1].d.split \in SeqSplits
        BY <1>0, <2>1
      <4> DEFINE sp == g[k - 1].d.split
                 seq == first + k
      <4>2. sp \in SeqSplits /\ seq \in Nat /\ x = newPacket(sp, seq) /\ sp.prev = prev
            /\ seq = first + k /\ k \in Nat /\ k >= 1 /\ k < 1000
        BY <1>0, <3>2, <4>1
      <4> HIDE DEF sp, seq
      <4>3. sp.prev # 0 /\ sp.prev + RANGE < seq /\ sp.prev + RANGE < 65536
        BY <1>0, <1>12, <3>1, <4>2, JumboBeyond
      <4>4. ~ x.split /\ x.state.prev = sp.prev
        BY <4>2, <4>3, NewPacketAnswers
      <4>5. Joins(g[k - 1], g[k], p)
        BY <4>1, <4>4, CutJoins
      <4>6. QED
        BY <4>1, <4>2, <4>4, <4>5
    <3>3. Fine(1)
      <4>1. 1 - 1 = 0
        OBVIOUS
      <4>2. S(1).prev = prev /\ Joins(g[0], g[1], p)
        BY <2>2, <3>0, <3>2, <4>1
      <4>3. Joins(t, g[1], p)
        BY <1>3, <4>2 DEF Joins
      <4>4. QED
        BY <4>2, <4>3
    <3>4. ASSUME NEW k \in 2 .. n, Fine(k - 1) PROVE Fine(k)
      <4>0. k \in 1 .. n /\ S(k - 1).prev = prev /\ Joins(t, g[k - 1], p)
        BY <1>0, <3>4
      <4>1. S(k).prev = prev /\ Joins(g[k - 1], g[k], p)
        BY <3>2, <4>0
      <4> DEFINE u == g[k - 1]
                 w == g[k]
      <4>2. Joins(t, u, p) /\ Joins(u, w, p)
        BY <4>0, <4>1
      <4> HIDE DEF u, w
      <4>3. Joins(t, w, p)
        BY <4>2, JoinsOn
      <4>4. QED
        BY <4>1, <4>3 DEF w
    <3> HIDE DEF Fine
    <3>5. 0 \in F
      BY <3>3
    <3>6. ASSUME NEW k \in Nat, k \in F PROVE k + 1 \in F
      <4>1. ASSUME (k + 1) + 1 <= n PROVE Fine((k + 1) + 1)
        <5>1. (k + 1) + 1 \in 2 .. n /\ ((k + 1) + 1) - 1 = k + 1 /\ k + 1 <= n
          BY <1>0, <4>1
        <5>2. Fine(k + 1)
          BY <3>6, <5>1
        <5>3. QED
          BY <3>4, <5>1, <5>2
      <4>2. QED
        BY <4>1
    <3> HIDE DEF F
    <3>7. Nat \subseteq F
      BY <3>5, <3>6, SetInduction
    <3>8. Fine(n)
      <4>1. n - 1 \in Nat /\ (n - 1) + 1 = n
        BY <1>0
      <4>2. QED
        BY <3>7, <4>1 DEF F
    <3>9. QED
      BY <1>2, <3>8 DEF Fine, prev
  <2>7. QED
    BY SMT, <2>5, <2>6
<1>13. QED
  BY <1>11, <1>12

-----------------------------------------------------------------------------
(* One packet through Decoder and LidarDriverImpl: mechanical lidars *)

LEMMA PreChanges ==
  ASSUME NEW d \in Decoders, NEW x \in Splits, NEW e, e = [d EXCEPT !.pre = x]
  PROVE  /\ e \in Decoders /\ e.pre = x /\ e.split = d.split /\ e.type = d.type /\ e.const = d.const
         /\ e.param = d.param /\ e.echo = d.echo /\ e.ready = d.ready
         /\ e.split_blks = d.split_blks /\ e.packet_duration = d.packet_duration
         /\ e.model = d.model /\ e.init = d.init
BY DEF Decoders

WithPre(t, x) == [t EXCEPT !.d.pre = x]
LEMMA PreOfState ==
  ASSUME NEW t \in States, NEW x \in Splits, NEW u, u = WithPre(t, x)
  PROVE  /\ u \in States /\ u.d = [t.d EXCEPT !.pre = x] /\ u.cloud = t.cloud
         /\ u.delivered = t.delivered /\ u.imus = t.imus /\ u.ret = t.ret
<1> DEFINE e == [t.d EXCEPT !.pre = x]
<1>1. u = [t EXCEPT !.d = e]
  BY DEF States, WithPre
<1>2. t.d \in Decoders /\ e = [t.d EXCEPT !.pre = x]
  BY DEF States
<1> HIDE DEF e
<1>3. e \in Decoders
  BY <1>2, PreChanges
<1>4. /\ u \in States /\ u.d = e /\ u.cloud = t.cloud
      /\ u.delivered = t.delivered /\ u.imus = t.imus /\ u.ret = t.ret
  BY <1>1, <1>3 DEF States
<1>5. QED
  BY <1>4 DEF e

\* A cloud that never ends is dropped.
Trimmed(t) == IF t.cloud.points > pointMax(t.d) THEN [t EXCEPT !.cloud = EmptyCloud] ELSE t
Refuses(d, p) == (d.param.wait_for_difop /\ ~ d.ready) \/ p.len # d.const.MSOP_LEN \/ ~ p.id
LEMMA TrimmedTyped ==
  ASSUME NEW t \in States, NEW u, u = Trimmed(t)
  PROVE  /\ u \in States /\ u.d = t.d /\ u.delivered = t.delivered /\ u.imus = t.imus
         /\ u.cloud.frames \subseteq t.cloud.frames
<1> DEFINE v == [t EXCEPT !.cloud = EmptyCloud]
<1>1. EmptyCloud \in Clouds /\ EmptyCloud.frames = {}
  BY CloudsTyped DEF EmptyCloud
<1>2. /\ v \in States /\ v.d = t.d /\ v.delivered = t.delivered /\ v.imus = t.imus
      /\ v.cloud = EmptyCloud
  BY <1>1 DEF States
<1>3. u = v \/ u = t
  BY DEF Trimmed
<1> HIDE DEF v
<1>4. QED
  BY <1>1, <1>2, <1>3
LEMMA MsopCases ==
  ASSUME NEW t, NEW p, NEW u, u = Trimmed(t)
  PROVE  processMsopPkt(t, p) =
           IF Refuses(u.d, p) THEN [u EXCEPT !.ret = FALSE] ELSE decodeMsopPkt(u, p)
BY Zenon DEF processMsopPkt, Trimmed, Refuses

LEMMA MechProcessMsop ==
  ASSUME NEW t \in States, MechDecoder(t.d), NEW p, MechPacket(t.d.type, p)
  PROVE  MechDecoded(t, processMsopPkt(t, p))
<1> DEFINE u == Trimmed(t)
           v == [u EXCEPT !.ret = FALSE]
           r == decodeMsopPkt(u, p)
<1>1. /\ u \in States /\ u.d = t.d /\ u.delivered = t.delivered /\ u.imus = t.imus
      /\ u.cloud.frames \subseteq t.cloud.frames
  BY TrimmedTyped
<1>2. processMsopPkt(t, p) = IF Refuses(u.d, p) THEN v ELSE r
  <2>1. u = Trimmed(t)
    OBVIOUS
  <2> HIDE DEF u
  <2>2. QED
    BY Zenon, <2>1, MsopCases DEF v, r
<1> HIDE DEF u
<1>3. MechDecoded(u, v)
  BY <1>1, DecodedNothing
<1>4. MechDecoded(u, r)
  BY <1>1, MechMsop
<1> HIDE DEF v, r
<1>5. \A x : MechDecoded(u, x) => MechDecoded(t, x)
  BY <1>1 DEF MechDecoded, NoFrames
<1>6. QED
  BY <1>2, <1>3, <1>4, <1>5

\* Whether the decoder takes a DIFOP packet for one.
TakesDifop(d, p) == (p.len = d.const.DIFOP_LEN \/ d.type = "RSEMX") /\ p.id
LEMMA DifopCases ==
  ASSUME NEW t, NEW p
  PROVE  processDifopPkt(t, p) =
           IF TakesDifop(t.d, p) THEN [t EXCEPT !.d = decodeDifopPkt(t.d, p)] ELSE t
<1> DEFINE r == [t EXCEPT !.d = decodeDifopPkt(t.d, p)]
<1>1. processDifopPkt(t, p) =
        IF (p.len # t.d.const.DIFOP_LEN /\ t.d.type # "RSEMX") \/ ~ p.id THEN t ELSE r
  BY Zenon DEF processDifopPkt
<1> HIDE DEF r
<1>2. processDifopPkt(t, p) = IF TakesDifop(t.d, p) THEN r ELSE t
  BY Zenon, <1>1 DEF TakesDifop
<1>3. QED
  BY <1>2 DEF r
LEMMA ImuTyped ==
  ASSUME NEW t \in States, NEW p, NEW r, r = processImuPkt(t, p)
  PROVE  /\ r \in States /\ r.d = t.d /\ r.cloud = t.cloud /\ r.delivered = t.delivered
         /\ r.ret = t.ret
<1> DEFINE n == t.imus + 1
           u == [t EXCEPT !.imus = n]
<1>1. n \in Nat
  BY DEF States
<1>2. r = u \/ r = t
  BY DEF processImuPkt
<1> HIDE DEF n
<1>3. /\ u \in States /\ u.d = t.d /\ u.cloud = t.cloud /\ u.delivered = t.delivered
      /\ u.ret = t.ret
  BY <1>1 DEF States
<1>4. QED
  BY <1>2, <1>3
LEMMA StateWithDecoder ==
  ASSUME NEW t \in States, NEW e \in Decoders, NEW r, r = [t EXCEPT !.d = e]
  PROVE  /\ r \in States /\ r.d = e /\ r.cloud = t.cloud /\ r.delivered = t.delivered
         /\ r.imus = t.imus /\ r.ret = t.ret
BY DEF States

\* What a packet may do to a state of a mechanical lidar.
MechTaken(t, r) ==
  /\ r \in States /\ MechDecoder(r.d) /\ r.d.type = t.d.type /\ r.d.param = t.d.param
  /\ NoFrames(t) => NoFrames(r)
\* A packet of one of the three kinds.
MechKind(type, p) ==
  \/ p.kind = "msop" /\ MechPacket(type, p)
  \/ p.kind = "difop" /\ MechDifop(p)
  \/ p.kind = "imu"
\* The count of blocks that a DIFOP packet leads to.
ToldBlks(d, p) ==
  (IF difopMode(d.type, p.mode) THEN 2 ELSE 1)
    * blksPerFrame(roundsPerSecond(p.rpm \div 60), d.const.BLOCK_DURATION)
\* What becomes of the count of blocks of which a frame of fixed length is made.
BlksFollow(t, p, r) ==
  IF p.kind = "difop" /\ TakesDifop(t.d, p) THEN r.d.split_blks = ToldBlks(t.d, p)
  ELSE r.d.split_blks = t.d.split_blks
LEMMA MechProcess ==
  ASSUME NEW t \in States, MechDecoder(t.d), NEW p, MechKind(t.d.type, p),
         NEW r, r = internalProcessPacket(t, p)
  PROVE  MechTaken(t, r) /\ (t.d.type \in Followers => BlksFollow(t, p, r))
<1>1. CASE p.kind = "msop" /\ MechPacket(t.d.type, p)
  <2>1. r = processMsopPkt(t, p)
    BY SMT, <1>1 DEF internalProcessPacket
  <2>2. MechDecoded(t, r)
    BY <1>1, <2>1, MechProcessMsop
  <2>3. MechTaken(t, r)
    BY <2>2 DEF MechTaken, MechDecoded, Learnt
  <2>4. t.d.type \in Followers => r.d.split_blks = t.d.split_blks
    BY <2>2 DEF MechDecoded, Learnt, Followers, StaleCount
  <2>5. QED
    BY <1>1, <2>3, <2>4 DEF BlksFollow
<1>2. CASE p.kind = "difop" /\ MechDifop(p)
  <2> DEFINE e == decodeDifopPkt(t.d, p)
             u == [t EXCEPT !.d = e]
             blks == ToldBlks(t.d, p)
  <2>1. r = IF TakesDifop(t.d, p) THEN u ELSE t
    <3>1. r = processDifopPkt(t, p)
      BY SMT, <1>2 DEF internalProcessPacket
    <3>2. QED
      BY Zenon, <3>1, DifopCases
  <2>2. Tuned(t.d, e) /\ (t.d.type \in Followers => e.split_blks = blks)
    BY Zenon, <1>2, MechDifopTuned DEF ToldBlks
  <2> HIDE DEF e, blks
  <2>3. e \in Decoders
    BY <2>2 DEF Tuned, MechDecoder
  <2>4. u \in States /\ u.d = e /\ u.cloud = t.cloud /\ u.delivered = t.delivered
    BY <2>3, StateWithDecoder
  <2> HIDE DEF u
  <2>5. MechTaken(t, u) /\ MechTaken(t, t)
    BY <2>2, <2>4 DEF MechTaken, Tuned, NoFrames
  <2>6. t.d.type \in Followers =>
              \/ ~ TakesDifop(t.d, p) /\ r.d.split_blks = t.d.split_blks
              \/ TakesDifop(t.d, p) /\ r.d.split_blks = blks
    BY <2>1, <2>2, <2>4
  <2>7. MechTaken(t, r) /\ p.kind = "difop"
    BY <1>2, <2>1, <2>5
  <2>8. QED
    BY Zenon, <2>6, <2>7 DEF blks, BlksFollow
<1>3. CASE p.kind = "imu"
  <2>1. r = processImuPkt(t, p)
    BY SMT, <1>3 DEF internalProcessPacket
  <2>2. /\ r \in States /\ r.d = t.d /\ r.cloud = t.cloud /\ r.delivered = t.delivered
    BY <2>1, ImuTyped
  <2>3. QED
    BY <1>3, <2>2 DEF MechTaken, NoFrames, BlksFollow
<1>4. QED
  BY <1>1, <1>2, <1>3 DEF MechKind

\* The copy of the strategy that paces a replay, and what it says of a packet.
LEMMA MechPreSplit ==
  ASSUME NEW t \in States, MechDecoder(t.d), NEW p, MechKind(t.d.type, p),
         NEW pre, pre = preSplit(t, p)
  PROVE  pre.pre \in BlockSplits /\ pre.new \in BOOLEAN
<1> DEFINE keep == [pre |-> t.d.pre, new |-> t.ret]
           told == isNewFrame(t.d, p)
           asks == PacedByFrames(t.d) /\ p.kind = "msop"
<1>1. pre = IF asks THEN told ELSE keep
  BY Zenon DEF preSplit
<1>2. MechPaces(keep)
  <2>1. t.d.pre \in BlockSplits /\ t.ret \in BOOLEAN
    BY DEF MechDecoder, States
  <2> DEFINE x == t.d.pre
             y == t.ret
  <2>2. x \in BlockSplits /\ y \in BOOLEAN
    BY <2>1
  <2>3. keep = [pre |-> x, new |-> y]
    OBVIOUS
  <2> HIDE DEF x, y, keep
  <2>4. keep.pre = x /\ keep.new = y
    BY <2>3
  <2>5. QED
    BY <2>2, <2>4 DEF MechPaces
<1>3. asks => MechPaces(told)
  <2>1. asks => MechPacket(t.d.type, p)
    BY DEF MechKind
  <2>2. QED
    BY <2>1, MechIsNewFrame
<1> HIDE DEF keep, told, asks
<1>4. MechPaces(pre)
  BY <1>1, <1>2, <1>3
<1>5. QED
  BY <1>4 DEF MechPaces

\* A packet that the driver takes from a mechanical lidar.
LEMMA MechTake ==
  ASSUME NEW t \in States, MechDecoder(t.d), NEW p, MechKind(t.d.type, p),
         NEW pre, pre = preSplit(t, p), NEW u, u = WithPre(t, pre.pre),
         NEW r, r = internalProcessPacket(u, p)
  PROVE  /\ MechTaken(t, r) /\ pre.new \in BOOLEAN
         /\ t.d.type \in Followers => BlksFollow(t, p, r)
<1>1. pre.pre \in BlockSplits /\ pre.new \in BOOLEAN
  BY MechPreSplit
<1> DEFINE x == pre.pre
<1>2. x \in Splits /\ x \in BlockSplits
  BY <1>1 DEF Splits
<1>3. u = WithPre(t, x)
  OBVIOUS
<1> HIDE DEF x
<1>4. /\ u \in States /\ u.d = [t.d EXCEPT !.pre = x] /\ u.cloud = t.cloud
      /\ u.delivered = t.delivered /\ u.imus = t.imus /\ u.ret = t.ret
  BY <1>2, <1>3, PreOfState
<1>5. t.d \in Decoders
  BY DEF MechDecoder
<1> DEFINE e == u.d
<1>6. /\ e \in Decoders /\ e.pre = x /\ e.split = t.d.split /\ e.type = t.d.type
      /\ e.const = t.d.const /\ e.param = t.d.param
      /\ e.split_blks = t.d.split_blks /\ e.packet_duration = t.d.packet_duration
      /\ e.model = t.d.model /\ e.init = t.d.init
  BY <1>2, <1>4, <1>5, PreChanges
<1>7. MechDecoder(e)
  BY <1>2, <1>6 DEF MechDecoder
<1>8. e = u.d
  OBVIOUS
<1> HIDE DEF e
<1>9. MechDecoder(u.d) /\ MechKind(u.d.type, p)
  BY <1>6, <1>7, <1>8
<1>10. MechTaken(u, r) /\ (u.d.type \in Followers => BlksFollow(u, p, r))
  BY <1>4, <1>9, MechProcess
<1>11. u.d.type = t.d.type /\ u.d.const = t.d.const /\ u.d.split_blks = t.d.split_blks
       /\ u.d.param = t.d.param
  BY <1>6, <1>8
<1>12. MechTaken(t, r)
  BY <1>4, <1>10, <1>11 DEF MechTaken, NoFrames
<1>13. BlksFollow(u, p, r) => BlksFollow(t, p, r)
  BY Zenon, <1>11 DEF BlksFollow, TakesDifop, ToldBlks
<1>14. QED
  BY <1>1, <1>10, <1>11, <1>12, <1>13

-----------------------------------------------------------------------------
(* The packets of the mechanical lidars, as they come *)

LEMMA ChangedPacket ==
  ASSUME NEW type, NEW p, p.kind = "msop", MechPacket(type, p),
         {"kind", "az", "fired", "bad", "ts", "host", "model"} \subseteq DOMAIN p,
         NEW f \in {"len", "id", "raw", "data_type"}, NEW x, NEW q, q = [p EXCEPT ![f] = x]
  PROVE  q.kind = "msop" /\ MechKind(type, q)
<1>1. \A g \in DOMAIN p : g # f => q[g] = p[g]
  OBVIOUS
<1>2. /\ q.kind = p.kind /\ q.az = p.az /\ q.fired = p.fired /\ q.bad = p.bad /\ q.ts = p.ts
      /\ q.host = p.host /\ q.model = p.model
  BY <1>1
<1>3. MechPacket(type, q)
  BY <1>2 DEF MechPacket
<1>4. QED
  BY <1>2, <1>3 DEF MechKind

LEMMA BrokenPacket ==
  ASSUME NEW type, NEW p, p.kind = "msop", MechPacket(type, p),
         {"kind", "az", "fired", "bad", "ts", "host", "model"} \subseteq DOMAIN p,
         NEW x \in 0 .. BlockCount(type), NEW q, q = [p EXCEPT !.bad = x]
  PROVE  q.kind = "msop" /\ MechKind(type, q)
<1>1. /\ \A g \in DOMAIN p : g # "bad" => q[g] = p[g]
      /\ q.bad = x
  OBVIOUS
<1>2. /\ q.kind = p.kind /\ q.az = p.az /\ q.fired = p.fired /\ q.ts = p.ts
      /\ q.host = p.host /\ q.model = p.model
  BY <1>1
<1>3. MechPacket(type, q)
  BY <1>1, <1>2 DEF MechPacket
<1>4. QED
  BY <1>2, <1>3 DEF MechKind

LEMMA MsopVariants ==
  ASSUME NEW l \in MechLidars, NEW d, NEW q,
         \/ q = Msop(l, d)
         \/ q \in {[Msop(l, d) EXCEPT !.bad = 1], [Msop(l, d) EXCEPT !.bad = l.blocks],
                   [Msop(l, d) EXCEPT !.raw = 0]}
         \/ q \in {[Msop(l, d) EXCEPT !.len = @ - 1], [Msop(l, d) EXCEPT !.id = FALSE]}
         \/ q = [Msop(l, d) EXCEPT !.data_type = 1]
  PROVE  q.kind = "msop" /\ MechKind(l.type, q)
<1> DEFINE p == Msop(l, d)
           n == p.len - 1
           bad == FALSE
<1>1. MechPacket(l.type, p) /\ p.kind = "msop"
      /\ {"kind", "az", "fired", "bad", "ts", "host", "model"} \subseteq DOMAIN p
  BY SensorMsop
<1>2. l.blocks = BlockCount(l.type)
  BY DEF MechLidars
<1>3. 1 \in 0 .. BlockCount(l.type) /\ BlockCount(l.type) \in 0 .. BlockCount(l.type)
  BY BlockCounts
<1>4. \/ q = p
      \/ q = [p EXCEPT !.bad = 1]
      \/ q = [p EXCEPT !.bad = BlockCount(l.type)]
      \/ \E f \in {"len", "id", "raw", "data_type"} : \E x : q = [p EXCEPT ![f] = x]
  <2>1. \/ q = p
        \/ q = [p EXCEPT !.bad = 1]
        \/ q = [p EXCEPT !.bad = l.blocks]
        \/ q = [p EXCEPT !["raw"] = 0]
        \/ q = [p EXCEPT !["len"] = n]
        \/ q = [p EXCEPT !["id"] = bad]
        \/ q = [p EXCEPT !["data_type"] = 1]
    OBVIOUS
  <2> HIDE DEF p, n, bad
  <2>2. {"raw", "len", "id", "data_type"} = {"len", "id", "raw", "data_type"}
    OBVIOUS
  <2>3. QED
    BY <1>2, <2>1
<1> HIDE DEF p
<1>5. CASE q = p
  BY <1>1, <1>5 DEF MechKind
<1>6. CASE q = [p EXCEPT !.bad = 1] \/ q = [p EXCEPT !.bad = BlockCount(l.type)]
  BY <1>1, <1>3, <1>6, BrokenPacket
<1>7. CASE \E f \in {"len", "id", "raw", "data_type"} : \E x : q = [p EXCEPT ![f] = x]
  <2>5. PICK f \in {"len", "id", "raw", "data_type"} : \E x : q = [p EXCEPT ![f] = x]
    BY <1>7
  <2>1. PICK x : q = [p EXCEPT ![f] = x]
    BY <2>5
  <2> DEFINE type == l.type
  <2>2. MechPacket(type, p)
    BY <1>1
  <2> HIDE DEF type
  <2>3. q.kind = "msop" /\ MechKind(type, q)
    BY <1>1, <2>1, <2>2, ChangedPacket
  <2>4. QED
    BY <2>3 DEF type
<1>8. QED
  BY <1>4, <1>5, <1>6, <1>7

LEMMA ChangedDifop ==
  ASSUME NEW p, p.kind = "difop", MechDifop(p), "kind" \in DOMAIN p,
         NEW f \in {"len", "id", "vert", "horiz"}, NEW x, NEW q, q = [p EXCEPT ![f] = x]
  PROVE  q.kind = "difop" /\ MechDifop(q) /\ DOMAIN q = DOMAIN p
<1>1. (\A g \in DOMAIN p : g # f => q[g] = p[g]) /\ DOMAIN q = DOMAIN p
  OBVIOUS
<1>2. q.kind = p.kind /\ q.rpm = p.rpm /\ q.fov = p.fov /\ q.mode = p.mode /\ q.install = p.install
  BY <1>1 DEF MechDifop
<1>3. QED
  BY <1>1, <1>2 DEF MechDifop

\* A DIFOP packet of a sensor that has not measured its speed yet, or whose
\* calibration is empty; one of the wrong length or identifier.
PoorDifop(l, d, p) ==
  LET q == Difop(l, d)
      unset == [i \in 1 .. 2 |-> Unset]
  IN p \in {[q EXCEPT !.rpm = 0], [q EXCEPT !.vert = unset, !.horiz = unset]}
WrongDifop(l, d, p) ==
  LET q == Difop(l, d) IN p \in {[q EXCEPT !.len = @ - 1], [q EXCEPT !.id = FALSE]}
LEMMA PoorDifopTyped ==
  ASSUME NEW l \in MechLidars, NEW d, NEW q, PoorDifop(l, d, q)
  PROVE  q.kind = "difop" /\ MechDifop(q)
<1> DEFINE p == Difop(l, d)
           unset == [i \in 1 .. 2 |-> Unset]
           r == [p EXCEPT !["vert"] = unset]
<1>1. MechDifop(p) /\ p.kind = "difop" /\ "kind" \in DOMAIN p
  BY SensorDifop
<1>2. \/ q = [p EXCEPT !.rpm = 0]
      \/ q = [r EXCEPT !["horiz"] = unset]
  BY DEF PoorDifop
<1> HIDE DEF p, unset
<1>3. r.kind = "difop" /\ MechDifop(r) /\ "kind" \in DOMAIN r
  <2>1. r = [p EXCEPT !["vert"] = unset]
    OBVIOUS
  <2> HIDE DEF r
  <2>2. QED
    BY <1>1, <2>1, ChangedDifop
<1> HIDE DEF r
<1>4. CASE q = [r EXCEPT !["horiz"] = unset]
  BY <1>3, <1>4, ChangedDifop
<1>5. CASE q = [p EXCEPT !.rpm = 0]
  <2>1. /\ \A g \in DOMAIN p : g # "rpm" => q[g] = p[g]
        /\ DOMAIN q = DOMAIN p /\ ("rpm" \in DOMAIN p => q.rpm = 0)
    BY <1>5
  <2>2. q.kind = p.kind /\ q.fov = p.fov /\ q.mode = p.mode /\ q.install = p.install /\ q.rpm = 0
    BY <1>1, <2>1 DEF MechDifop
  <2>3. QED
    BY <1>1, <2>1, <2>2 DEF MechDifop
<1>6. QED
  BY <1>2, <1>4, <1>5
LEMMA WrongDifopTyped ==
  ASSUME NEW l \in MechLidars, NEW d, d.const.DIFOP_LEN \in Nat, NEW q, WrongDifop(l, d, q)
  PROVE  q.kind = "difop" /\ MechDifop(q) /\ (q.len # d.const.DIFOP_LEN \/ ~ q.id)
<1> DEFINE p == Difop(l, d)
           n == p.len - 1
           no == FALSE
<1>1. MechDifop(p) /\ p.kind = "difop" /\ "kind" \in DOMAIN p /\ {"len", "id"} \subseteq DOMAIN p
  BY SensorDifop
<1>2. p.len = d.const.DIFOP_LEN
  BY DEF Difop
<1>3. \/ q = [p EXCEPT !["len"] = n]
      \/ q = [p EXCEPT !["id"] = no]
  BY DEF WrongDifop
<1>4. n # d.const.DIFOP_LEN /\ ~ no
  BY <1>2
<1> HIDE DEF n, no, p
<1>5. CASE q = [p EXCEPT !["len"] = n]
  BY <1>1, <1>4, <1>5, ChangedDifop
<1>6. CASE q = [p EXCEPT !["id"] = no]
  BY <1>1, <1>4, <1>6, ChangedDifop
<1>7. QED
  BY <1>3, <1>5, <1>6

-----------------------------------------------------------------------------
(* The invariant: mechanical lidars *)

Counters == used \in [packets : Nat, trouble : Nat] /\ used.packets <= MaxMsop
            /\ used.trouble <= TroubleBound
Flags == running \in BOOLEAN /\ paced \in BOOLEAN /\ instep \in BOOLEAN /\ steady \in BOOLEAN
\* Once a DIFOP packet has told the settings, the count of blocks is that of
\* the speed and the returns the sensor has.
ToldCount(l, d) ==
  l.told /\ l.type \in Followers =>
    \E D \in Durations(l.type) :
      d.split_blks = (IF difopMode(l.type, l.mode) THEN 2 ELSE 1)
                       * blksPerFrame(roundsPerSecond(l.rpm \div 60), D)
MechState(l, t) ==
  /\ l \in MechLidars /\ t \in States /\ MechDecoder(t.d) /\ t.d.type = l.type /\ NoFrames(t)
MechInv == MechState(lidar, s) /\ ToldCount(lidar, s.d)

\* The driver takes a packet.
Took(p) ==
  /\ running /\ running' = running
  /\ s' = internalProcessPacket(WithPre(s, preSplit(s, p).pre), p)
  /\ paced' = IF p.kind = "msop" THEN preSplit(s, p).new ELSE s'.ret
  /\ instep' \in BOOLEAN

LEMMA MechTook ==
  ASSUME MechInv, Flags, NEW p, MechKind(lidar.type, p), Took(p)
  PROVE  /\ s' \in States /\ MechDecoder(s'.d) /\ s'.d.type = lidar.type /\ NoFrames(s')
         /\ running' \in BOOLEAN /\ paced' \in BOOLEAN /\ instep' \in BOOLEAN
         /\ lidar.type \in Followers => BlksFollow(s, p, s')
<1> DEFINE pre == preSplit(s, p)
           u == WithPre(s, pre.pre)
           r == internalProcessPacket(u, p)
<1>1. s \in States /\ MechDecoder(s.d) /\ s.d.type = lidar.type /\ MechKind(s.d.type, p)
      /\ NoFrames(s)
  BY DEF MechInv, MechState
<1>2. pre = preSplit(s, p) /\ u = WithPre(s, pre.pre) /\ r = internalProcessPacket(u, p)
  OBVIOUS
<1>3. s' = r /\ paced' = IF p.kind = "msop" THEN pre.new ELSE s'.ret
  BY Zenon DEF Took
<1> HIDE DEF pre, u, r
<1>4. MechTaken(s, r) /\ pre.new \in BOOLEAN /\ (s.d.type \in Followers => BlksFollow(s, p, r))
  BY <1>1, <1>2, MechTake
<1>5. MechTaken(s, s') /\ (s.d.type \in Followers => BlksFollow(s, p, s'))
  BY Zenon, <1>3, <1>4
<1>6. s'.ret \in BOOLEAN
  BY <1>5 DEF MechTaken, States
<1>7. paced' \in BOOLEAN
  BY <1>3, <1>4, <1>6
<1>8. running' \in BOOLEAN /\ instep' \in BOOLEAN
  BY DEF Took, Flags
<1>9. QED
  BY <1>1, <1>5, <1>7, <1>8 DEF MechTaken

LEMMA TakeTook ==
  ASSUME NEW p, NEW sane, Take(p, sane)
  PROVE  Took(p)
<1>1. instep' \in BOOLEAN
  BY DEF Take
<1>2. QED
  BY Zenon, <1>1 DEF Take, Took, WithPre

\* The sensor sends a packet of points.
LEMMA Emitted ==
  ASSUME lidar \in MechLidars, Emit
  PROVE  /\ lidar' \in MechLidars /\ lidar'.type = lidar.type /\ lidar'.mode = lidar.mode
         /\ lidar'.rpm = lidar.rpm /\ lidar'.told = lidar.told /\ steady' = steady
<1> DEFINE n == lidar.n + lidar.blocks
<1>1. lidar' = [lidar EXCEPT !.n = n] /\ steady' = steady
  BY DEF Emit
<1>2. n \in Nat
  BY DEF MechLidars
<1> HIDE DEF n
<1>3. QED
  BY <1>1, <1>2 DEF MechLidars

\* Packets of points leave the count of blocks alone.
LEMMA CountKept ==
  ASSUME ToldCount(lidar, s.d), lidar'.type = lidar.type, lidar'.mode = lidar.mode,
         lidar'.rpm = lidar.rpm, lidar'.told = lidar.told,
         lidar.type \in Followers => s'.d.split_blks = s.d.split_blks
  PROVE  ToldCount(lidar', s'.d)
BY Zenon DEF ToldCount

\* A packet other than a DIFOP packet that is taken, from a sensor that stays
\* the one it was.
LEMMA PointsTaken ==
  ASSUME MechInv, Flags, NEW p, MechKind(lidar.type, p), p.kind # "difop", Took(p),
         lidar' \in MechLidars, lidar'.type = lidar.type, lidar'.mode = lidar.mode,
         lidar'.rpm = lidar.rpm, lidar'.told = lidar.told, steady' = steady
  PROVE  MechInv' /\ Flags'
<1>1. /\ s' \in States /\ MechDecoder(s'.d) /\ s'.d.type = lidar.type /\ NoFrames(s')
      /\ running' \in BOOLEAN /\ paced' \in BOOLEAN /\ instep' \in BOOLEAN
      /\ lidar.type \in Followers => BlksFollow(s, p, s')
  BY MechTook
<1>2. lidar.type \in Followers => s'.d.split_blks = s.d.split_blks
  BY <1>1 DEF BlksFollow
<1>3. ToldCount(lidar, s.d)
  BY DEF MechInv
<1>4. ToldCount(lidar', s'.d)
  BY <1>2, <1>3, CountKept
<1>5. MechState(lidar', s')
  BY <1>1 DEF MechState
<1>6. Flags'
  BY <1>1 DEF Flags
<1>7. QED
  BY <1>4, <1>5, <1>6 DEF MechInv

LEMMA CountersUsed ==
  ASSUME Counters, lidar'.type = lidar.type,
         \/ used' = used
         \/ Trouble
         \/ used.packets < MaxMsop /\ used' = [used EXCEPT !.packets = @ + 1]
  PROVE  Counters'
<1>1. TroubleBound' = TroubleBound /\ TroubleBound \in Nat /\ MaxMsop \in Nat
  BY BoundsAssumption DEF TroubleBound
<1>2. used' \in [packets : Nat, trouble : Nat] /\ used'.packets <= MaxMsop
      /\ used'.trouble <= TroubleBound
  BY <1>1 DEF Counters, Trouble
<1>3. QED
  BY <1>1, <1>2 DEF Counters

LEMMA SendMsopKeeps ==
  ASSUME MechInv, Flags, Counters, SendMsop
  PROVE  MechInv' /\ Flags' /\ Counters' /\ lidar'.type = lidar.type
<1> DEFINE p == Msop(lidar, s.d)
<1>1. lidar \in MechLidars
  BY DEF MechInv, MechState
<1>2. p.kind = "msop" /\ MechKind(lidar.type, p)
  BY <1>1, MsopVariants
<1>3. /\ Emit /\ used.packets < MaxMsop /\ used' = [used EXCEPT !.packets = @ + 1]
      /\ \E sane : Take(p, sane)
  BY Zenon DEF SendMsop, Emit
<1> HIDE DEF p
<1>4. Took(p)
  BY Zenon, <1>3, TakeTook
<1>5. /\ lidar' \in MechLidars /\ lidar'.type = lidar.type /\ lidar'.mode = lidar.mode
      /\ lidar'.rpm = lidar.rpm /\ lidar'.told = lidar.told /\ steady' = steady
  BY <1>1, <1>3, Emitted
<1>6. MechInv' /\ Flags'
  BY <1>2, <1>4, <1>5, PointsTaken
<1>7. Counters'
  BY <1>3, <1>5, CountersUsed
<1>8. QED
  BY <1>5, <1>6, <1>7

LEMMA SendPoorMsopKeeps ==
  ASSUME MechInv, Flags, Counters, SendPoorMsop \/ SendWrongMsop
  PROVE  MechInv' /\ Flags' /\ Counters' /\ lidar'.type = lidar.type
<1>1. lidar \in MechLidars
  BY DEF MechInv, MechState
<1> DEFINE q == Msop(lidar, s.d)
           V == \/ \E p \in {[q EXCEPT !.bad = 1], [q EXCEPT !.bad = lidar.blocks],
                             [q EXCEPT !.raw = 0]} : \E sane : Take(p, sane)
                \/ \E p \in {[q EXCEPT !.len = @ - 1], [q EXCEPT !.id = FALSE]} :
                     \E sane : Take(p, sane)
<1>2. Emit /\ Trouble /\ V
  <2>1. CASE SendPoorMsop
    BY Zenon, <2>1 DEF SendPoorMsop
  <2>2. CASE SendWrongMsop
    BY Zenon, <2>2 DEF SendWrongMsop
  <2>3. QED
    BY <2>1, <2>2
<1>3. PICK p : /\ \/ p \in {[q EXCEPT !.bad = 1], [q EXCEPT !.bad = lidar.blocks], [q EXCEPT !.raw = 0]}
                  \/ p \in {[q EXCEPT !.len = @ - 1], [q EXCEPT !.id = FALSE]}
               /\ \E sane : Take(p, sane)
  <2> HIDE DEF q
  <2>1. QED
    BY Zenon, <1>2
<1>4. p.kind = "msop" /\ MechKind(lidar.type, p)
  BY <1>1, <1>3, MsopVariants
<1>5. Took(p)
  BY Zenon, <1>3, TakeTook
<1>6. /\ lidar' \in MechLidars /\ lidar'.type = lidar.type /\ lidar'.mode = lidar.mode
      /\ lidar'.rpm = lidar.rpm /\ lidar'.told = lidar.told /\ steady' = steady
  BY <1>1, <1>2, Emitted
<1>7. MechInv' /\ Flags'
  <2> HIDE DEF q
  <2>1. p.kind # "difop"
    BY <1>4
  <2>2. QED
    BY <1>4, <1>5, <1>6, <2>1, PointsTaken
<1>8. Counters'
  BY <1>2, <1>6, CountersUsed
<1>9. QED
  BY <1>6, <1>7, <1>8

LEMMA LoseMsopKeeps ==
  ASSUME MechInv, Flags, Counters, LoseMsop
  PROVE  MechInv' /\ Flags' /\ Counters' /\ lidar'.type = lidar.type
<1>1. lidar \in MechLidars
  BY DEF MechInv, MechState
<1>2. Emit /\ Trouble /\ s' = s /\ running' = running /\ paced' = paced /\ instep' = instep
  BY DEF LoseMsop
<1>3. /\ lidar' \in MechLidars /\ lidar'.type = lidar.type /\ lidar'.mode = lidar.mode
      /\ lidar'.rpm = lidar.rpm /\ lidar'.told = lidar.told /\ steady' = steady
  BY <1>1, <1>2, Emitted
<1>4. ToldCount(lidar', s'.d)
  BY <1>2, <1>3, CountKept DEF MechInv
<1>5. MechState(lidar', s')
  BY <1>2, <1>3 DEF MechInv, MechState
<1>6. Flags'
  BY <1>2, <1>3 DEF Flags
<1>7. Counters'
  BY <1>2, <1>3, CountersUsed
<1>8. QED
  BY <1>3, <1>4, <1>5, <1>6, <1>7 DEF MechInv

LEMMA SameSensor ==
  ASSUME MechInv, Flags, Counters, NEW p, MechKind(lidar.type, p), p.kind # "difop",
         Took(p), Trouble, lidar' = lidar, steady' = steady
  PROVE  MechInv' /\ Flags' /\ Counters' /\ lidar'.type = lidar.type
<1>1. lidar' \in MechLidars
  BY DEF MechInv, MechState
<1>2. MechInv' /\ Flags'
  BY <1>1, PointsTaken
<1>3. Counters'
  BY CountersUsed
<1>4. QED
  BY <1>2, <1>3

LEMMA SendNoPointsKeeps ==
  ASSUME MechInv, Flags, Counters, SendNoPoints
  PROVE  MechInv' /\ Flags' /\ Counters' /\ lidar'.type = lidar.type
<1> DEFINE p == [Msop(lidar, s.d) EXCEPT !.data_type = 1]
<1>1. lidar \in MechLidars
  BY DEF MechInv, MechState
<1>2. p.kind = "msop" /\ MechKind(lidar.type, p)
  BY <1>1, MsopVariants
<1>3. Trouble /\ lidar' = lidar /\ steady' = steady /\ \E sane : Take(p, sane)
  BY Zenon DEF SendNoPoints
<1> HIDE DEF p
<1>4. Took(p)
  BY Zenon, <1>3, TakeTook
<1>5. p.kind # "difop"
  BY <1>2
<1>6. QED
  BY <1>2, <1>3, <1>4, <1>5, SameSensor

LEMMA MechImuKeeps ==
  ASSUME MechInv, Flags, Counters, SendImu
  PROVE  MechInv' /\ Flags' /\ Counters' /\ lidar'.type = lidar.type
<1>1. PICK p \in ImuPackets(s.d) : Take(p, TRUE)
  BY Zenon DEF SendImu
<1>2. p.kind = "imu"
  BY <1>1 DEF ImuPackets, Imu
<1>3. Trouble /\ lidar' = lidar /\ steady' = steady
  BY DEF SendImu
<1>5. Took(p)
  BY Zenon, <1>1, TakeTook
<1>6. MechKind(lidar.type, p) /\ p.kind # "difop"
  BY <1>2 DEF MechKind
<1>7. QED
  BY <1>3, <1>5, <1>6, SameSensor

LEMMA SendDifopKeeps ==
  ASSUME MechInv, Flags, Counters, SendDifop
  PROVE  MechInv' /\ Flags' /\ Counters' /\ lidar'.type = lidar.type
<1> DEFINE p == Difop(lidar, s.d)
           D == s.d.const.BLOCK_DURATION
<1>1. lidar \in MechLidars /\ MechDecoder(s.d) /\ s.d.type = lidar.type
  BY DEF MechInv, MechState
<1>2. p.kind = "difop" /\ MechDifop(p) /\ p.rpm = lidar.rpm /\ p.mode = lidar.mode
  BY <1>1, SensorDifop
<1>3. p.len = s.d.const.DIFOP_LEN /\ p.id
  BY DEF Difop
<1>4. /\ lidar' = [lidar EXCEPT !.told = TRUE] /\ steady' = steady /\ used' = used
      /\ \E sane : Take(p, sane)
  BY Zenon DEF SendDifop
<1> HIDE DEF p
<1>5. Took(p)
  BY Zenon, <1>4, TakeTook
<1>6. MechKind(lidar.type, p)
  BY <1>2 DEF MechKind
<1>7. /\ s' \in States /\ MechDecoder(s'.d) /\ s'.d.type = lidar.type /\ NoFrames(s')
      /\ running' \in BOOLEAN /\ paced' \in BOOLEAN /\ instep' \in BOOLEAN
      /\ lidar.type \in Followers => BlksFollow(s, p, s')
  BY <1>5, <1>6, MechTook
<1>8. /\ lidar' \in MechLidars /\ lidar'.type = lidar.type /\ lidar'.mode = lidar.mode
      /\ lidar'.rpm = lidar.rpm
  <2> DEFINE yes == TRUE
  <2>1. lidar' = [lidar EXCEPT !.told = yes] /\ yes \in BOOLEAN
    BY <1>4
  <2> HIDE DEF yes
  <2>2. QED
    BY <1>1, <2>1 DEF MechLidars
<1>9. ToldCount(lidar', s'.d)
  <2>1. D \in Durations(lidar.type)
    BY <1>1 DEF MechDecoder
  <2>2. TakesDifop(s.d, p)
    BY <1>3 DEF TakesDifop
  <2>3. lidar.type \in Followers => s'.d.split_blks = ToldBlks(s.d, p)
    BY <1>2, <1>7, <2>2 DEF BlksFollow
  <2>4. ToldBlks(s.d, p) = (IF difopMode(lidar.type, lidar.mode) THEN 2 ELSE 1)
                             * blksPerFrame(roundsPerSecond(lidar.rpm \div 60), D)
    BY Zenon, <1>1, <1>2 DEF ToldBlks
  <2> HIDE DEF D
  <2>5. lidar.type \in Followers =>
          \E E \in Durations(lidar.type) :
            s'.d.split_blks = (IF difopMode(lidar.type, lidar.mode) THEN 2 ELSE 1)
                                * blksPerFrame(roundsPerSecond(lidar.rpm \div 60), E)
    BY Zenon, <2>1, <2>3, <2>4
  <2>6. QED
    BY Zenon, <1>8, <2>5 DEF ToldCount
<1>10. MechState(lidar', s')
  BY <1>7, <1>8 DEF MechState
<1>11. Flags'
  BY <1>4, <1>7 DEF Flags
<1>12. Counters'
  BY <1>4, <1>8, CountersUsed
<1>13. QED
  BY <1>8, <1>9, <1>10, <1>11, <1>12 DEF MechInv

LEMMA SendPoorDifopKeeps ==
  ASSUME MechInv, Flags, Counters, SendPoorDifop
  PROVE  MechInv' /\ Flags' /\ Counters' /\ lidar'.type = lidar.type
<1>1. lidar \in MechLidars /\ MechDecoder(s.d) /\ s.d.type = lidar.type
  BY DEF MechInv, MechState
<1>2. /\ Trouble /\ lidar' = [lidar EXCEPT !.told = FALSE] /\ steady' = steady
      /\ \E p : PoorDifop(lidar, s.d, p) /\ \E sane : Take(p, sane)
  BY Zenon DEF SendPoorDifop, PoorDifop
<1>3. PICK p : PoorDifop(lidar, s.d, p) /\ \E sane : Take(p, sane)
  BY Zenon, <1>2
<1>4. p.kind = "difop" /\ MechDifop(p)
  BY <1>1, <1>3, PoorDifopTyped
<1>5. Took(p)
  BY Zenon, <1>3, TakeTook
<1>6. MechKind(lidar.type, p)
  BY <1>4 DEF MechKind
<1>7. /\ s' \in States /\ MechDecoder(s'.d) /\ s'.d.type = lidar.type /\ NoFrames(s')
      /\ running' \in BOOLEAN /\ paced' \in BOOLEAN /\ instep' \in BOOLEAN
  BY <1>5, <1>6, MechTook
<1>8. lidar' \in MechLidars /\ lidar'.type = lidar.type /\ ~ lidar'.told
  <2> DEFINE no == FALSE
  <2>1. lidar' = [lidar EXCEPT !.told = no] /\ no \in BOOLEAN /\ ~ no
    BY <1>2
  <2> HIDE DEF no
  <2>2. QED
    BY <1>1, <2>1 DEF MechLidars
<1>9. ToldCount(lidar', s'.d)
  BY Zenon, <1>8 DEF ToldCount
<1>10. MechState(lidar', s')
  BY <1>7, <1>8 DEF MechState
<1>11. Flags'
  BY <1>2, <1>7 DEF Flags
<1>12. Counters'
  BY <1>2, <1>8, CountersUsed
<1>13. QED
  BY <1>8, <1>9, <1>10, <1>11, <1>12 DEF MechInv

LEMMA SendWrongDifopKeeps ==
  ASSUME MechInv, Flags, Counters, SendWrongDifop
  PROVE  MechInv' /\ Flags' /\ Counters' /\ lidar'.type = lidar.type
<1>1. lidar \in MechLidars /\ MechDecoder(s.d) /\ s.d.type = lidar.type
  BY DEF MechInv, MechState
<1>2. /\ Trouble /\ lidar' = lidar /\ steady' = steady
      /\ \E p : WrongDifop(lidar, s.d, p) /\ \E sane : Take(p, sane)
  BY Zenon DEF SendWrongDifop, WrongDifop
<1>3. PICK p : WrongDifop(lidar, s.d, p) /\ \E sane : Take(p, sane)
  BY Zenon, <1>2
<1>0. s.d.const.DIFOP_LEN \in Nat /\ s.d.type # "RSEMX"
  BY <1>1 DEF MechDecoder, Decoders, Consts, MechTypes, AiryTypes
<1>4. p.kind = "difop" /\ MechDifop(p) /\ (p.len # s.d.const.DIFOP_LEN \/ ~ p.id)
  BY <1>0, <1>1, <1>3, WrongDifopTyped
<1>5. ~ TakesDifop(s.d, p)
  BY <1>0, <1>4 DEF TakesDifop
<1>6. Took(p)
  BY Zenon, <1>3, TakeTook
<1>7. MechKind(lidar.type, p)
  BY <1>4 DEF MechKind
<1>8. /\ s' \in States /\ MechDecoder(s'.d) /\ s'.d.type = lidar.type /\ NoFrames(s')
      /\ running' \in BOOLEAN /\ paced' \in BOOLEAN /\ instep' \in BOOLEAN
      /\ lidar.type \in Followers => BlksFollow(s, p, s')
  BY <1>6, <1>7, MechTook
<1>9. lidar.type \in Followers => s'.d.split_blks = s.d.split_blks
  BY <1>5, <1>8 DEF BlksFollow
<1>10. ToldCount(lidar', s'.d)
  BY <1>2, <1>9, CountKept DEF MechInv
<1>11. MechState(lidar', s')
  BY <1>1, <1>2, <1>8 DEF MechState
<1>12. Flags'
  BY <1>2, <1>8 DEF Flags
<1>13. Counters'
  BY <1>2, CountersUsed
<1>14. QED
  BY <1>2, <1>10, <1>11, <1>12, <1>13 DEF MechInv

LEMMA ChangeSettingsKeeps ==
  ASSUME MechInv, Flags, Counters, ChangeSettings
  PROVE  MechInv' /\ Flags' /\ Counters' /\ lidar'.type = lidar.type
<1>1. lidar \in MechLidars /\ MechDecoder(s.d) /\ s.d.type = lidar.type
  BY DEF MechInv, MechState
<1>2. /\ Trouble /\ s' = s /\ running' = running /\ paced' = paced /\ instep' = FALSE
      /\ steady' = steady
      /\ \E mode \in {0, 3}, rpm \in Speeds(lidar.type), full \in BOOLEAN :
           lidar' = Mech(lidar.type, s.d.const, lidar.model, mode, rpm, full, FiredAt(lidar, lidar.n))
  BY Zenon DEF ChangeSettings
<1>3. PICK mode \in {0, 3}, rpm \in Speeds(lidar.type), full \in BOOLEAN :
           lidar' = Mech(lidar.type, s.d.const, lidar.model, mode, rpm, full, FiredAt(lidar, lidar.n))
  BY Zenon, <1>2
<1> DEFINE t0 == FiredAt(lidar, lidar.n)
           type == lidar.type
           const == s.d.const
           model == lidar.model
<1>4. lidar.n \in Nat /\ type \in MechTypes /\ model \in Nat /\ lidar.t0 \in Nat
      /\ lidar.t0 >= 100000000
  BY <1>1 DEF MechLidars
<1>5. t0 \in Nat /\ t0 >= 100000000
  <2>1. t0 \in Nat /\ t0 >= lidar.t0
    BY <1>1, <1>4, Firings
  <2> HIDE DEF t0
  <2>2. QED
    BY <1>4, <2>1
<1>6. const.BLOCKS_PER_PKT = BlockCount(type) /\ const.BLOCK_DURATION \in Durations(type)
  BY <1>1 DEF MechDecoder
<1>7. rpm \in {600, 1200}
  BY <1>3 DEF Speeds
<1>8. lidar' = Mech(type, const, model, mode, rpm, full, t0)
  BY <1>3
<1> HIDE DEF t0, type, const, model
<1>9. lidar' \in MechLidars /\ lidar'.type = type /\ lidar'.told = FALSE
  <2>0. Settings(mode, rpm, full)
    BY <1>3, <1>7 DEF Settings
  <2>1. Renewed(Mech(type, const, model, mode, rpm, full, t0), type)
    BY SMT, <1>4, <1>5, <1>6, <2>0, NewSensor
  <2>2. QED
    BY Zenon, <1>8, <2>1 DEF Renewed
<1>10. lidar'.type = lidar.type
  BY <1>9 DEF type
<1>11. ToldCount(lidar', s'.d)
  BY Zenon, <1>9 DEF ToldCount
<1>12. MechState(lidar', s')
  BY <1>2, <1>9, <1>10 DEF MechInv, MechState
<1>13. Flags'
  BY <1>2 DEF Flags
<1>14. Counters'
  BY <1>2, <1>10, CountersUsed
<1>15. QED
  BY <1>10, <1>11, <1>12, <1>13, <1>14 DEF MechInv

\* Stopping drops the cloud under way.
LEMMA CloudDropped ==
  ASSUME NEW t \in States, NEW r, r = [t EXCEPT !.cloud = EmptyCloud]
  PROVE  /\ r \in States /\ r.d = t.d /\ r.delivered = t.delivered /\ r.imus = t.imus
         /\ r.cloud.frames = {}
<1>1. EmptyCloud \in Clouds /\ EmptyCloud.frames = {}
  BY CloudsTyped DEF EmptyCloud
<1>2. QED
  BY <1>1 DEF States

LEMMA MechStopKeeps ==
  ASSUME MechInv, Flags, Counters, StopFront
  PROVE  MechInv' /\ Flags' /\ Counters' /\ lidar'.type = lidar.type
<1>1. /\ Trouble /\ running' = FALSE /\ s' = [s EXCEPT !.cloud = EmptyCloud] /\ steady' = FALSE
      /\ lidar' = lidar /\ paced' = paced /\ instep' = instep
  BY DEF StopFront
<1>2. /\ s' \in States /\ s'.d = s.d /\ s'.delivered = s.delivered /\ s'.cloud.frames = {}
  BY <1>1, CloudDropped DEF MechInv, MechState
<1>3. MechState(lidar', s')
  BY <1>1, <1>2 DEF MechInv, MechState, NoFrames
<1>4. ToldCount(lidar', s'.d)
  BY Zenon, <1>1, <1>2 DEF MechInv
<1>5. Flags'
  BY <1>1 DEF Flags
<1>6. Counters'
  BY <1>1, CountersUsed
<1>7. QED
  BY <1>1, <1>3, <1>4, <1>5, <1>6 DEF MechInv

LEMMA MechStartKeeps ==
  ASSUME MechInv, Flags, Counters, StartFront \/ UNCHANGED frontVars
  PROVE  MechInv' /\ Flags' /\ Counters' /\ lidar'.type = lidar.type
<1>1. /\ s' = s /\ lidar' = lidar /\ used' = used /\ paced' = paced /\ instep' = instep
      /\ steady' = steady /\ (running' = TRUE \/ running' = running)
  BY DEF StartFront, frontVars
<1>2. MechInv'
  BY Zenon, <1>1 DEF MechInv
<1>3. Flags'
  BY <1>1 DEF Flags
<1>4. Counters'
  BY <1>1, CountersUsed
<1>5. QED
  BY <1>1, <1>2, <1>3, <1>4

LEMMA MechStep ==
  ASSUME MechInv, Flags, Counters, [FrontNext]_frontVars
  PROVE  MechInv' /\ Flags' /\ Counters' /\ lidar'.type = lidar.type
<1>1. lidar.type \in MechTypes
  BY DEF MechInv, MechState, MechLidars
<1>2. lidar.type \notin SeqTypes
  BY <1>1 DEF MechTypes, AiryTypes, SeqTypes
<1>3. ~ (SendSeq \/ LoseSeq \/ HoldSeq \/ ReleaseSeq \/ SendFarSeq \/ SendWrongSeq \/ SendSeqDifop)
  BY Zenon, <1>2 DEF SendSeq, LoseSeq, HoldSeq, ReleaseSeq, SendFarSeq, SendWrongSeq, SendSeqDifop, More
<1>4. \/ SendMsop \/ SendPoorMsop \/ SendWrongMsop \/ SendNoPoints \/ LoseMsop
      \/ SendDifop \/ SendPoorDifop \/ SendWrongDifop \/ SendImu \/ ChangeSettings
      \/ StopFront \/ StartFront \/ UNCHANGED frontVars
  BY Zenon, <1>3 DEF FrontNext
<1>5. QED
  BY Zenon, <1>4, SendMsopKeeps, SendPoorMsopKeeps, LoseMsopKeeps, SendNoPointsKeeps,
     SendDifopKeeps, SendPoorDifopKeeps, SendWrongDifopKeeps, MechImuKeeps, ChangeSettingsKeeps,
     MechStopKeeps, MechStartKeeps

-----------------------------------------------------------------------------
(* The decoders as they are made *)

\* createDecoder and the constructors: each type's constants, split and settings.

MechConst(c, B, D) == c \in Consts /\ c.BLOCKS_PER_PKT = B /\ c.BLOCK_DURATION = D
LEMMA ConstTyped ==
  ASSUME NEW msop \in Nat, NEW difop \in Nat, NEW lasers \in Nat, lasers > 0, NEW blks \in Nat,
         blks > 0, NEW chans \in Nat, chans > 0, NEW min \in Nat, NEW max \in Nat, NEW res \in Nat
  PROVE  MechConst(RSDecoderConstParam(msop, difop, lasers, blks, chans, min, max, res), blks, 0)
BY DEF MechConst, Consts, RSDecoderConstParam
LEMMA MechConstTyped ==
  ASSUME NEW first, NEW B, NEW D0, MechConst(first, B, D0), NEW D \in Nat, NEW last \in Nat
  PROVE  MechConst(RSDecoderMechConstParam(first, D, last), B, D)
BY DEF MechConst, Consts, RSDecoderMechConstParam
Sizes(msop, difop, lasers, blks, chans, min, max, res, D, last) ==
  /\ msop \in Nat /\ difop \in Nat /\ lasers \in Nat \ {0} /\ blks \in Nat \ {0}
  /\ chans \in Nat \ {0} /\ min \in Nat /\ max \in Nat /\ res \in Nat /\ D \in Nat /\ last \in Nat
LEMMA MechMade ==
  ASSUME NEW msop, NEW difop, NEW lasers, NEW blks, NEW chans, NEW min, NEW max, NEW res, NEW D,
         NEW last, Sizes(msop, difop, lasers, blks, chans, min, max, res, D, last)
  PROVE  MechConst(RSDecoderMechConstParam(
                     RSDecoderConstParam(msop, difop, lasers, blks, chans, min, max, res), D, last),
                   blks, D)
<1> DEFINE first == RSDecoderConstParam(msop, difop, lasers, blks, chans, min, max, res)
<1>0. /\ msop \in Nat /\ difop \in Nat /\ lasers \in Nat /\ lasers > 0 /\ blks \in Nat /\ blks > 0
      /\ chans \in Nat /\ chans > 0 /\ min \in Nat /\ max \in Nat /\ res \in Nat
      /\ D \in Nat /\ last \in Nat
  BY DEF Sizes
<1>1. MechConst(first, blks, 0)
  BY <1>0, ConstTyped
<1> HIDE DEF first
<1>2. MechConst(RSDecoderMechConstParam(first, D, last), blks, D)
  BY <1>0, <1>1, MechConstTyped
<1>3. QED
  BY <1>2 DEF first

LEMMA MechConsts ==
  /\ MechConst(RS16_getConstParam, 12, 55500)
  /\ MechConst(RS32_getConstParam, 12, 55520)
  /\ MechConst(RSBP_getConstParam, 12, 55520)
  /\ MechConst(RS48_getConstParam, 8, 55552)
  /\ MechConst(RS80_getConstParam, 4, 55552)
  /\ MechConst(RS128_getConstParam, 3, 55550)
  /\ MechConst(RSP48_getConstParam, 8, 55560)
  /\ MechConst(RSP80_getConstParam, 4, 55560)
  /\ MechConst(RSP128_getConstParam, 3, 55560)
  /\ MechConst(RSHELIOS_getConstParam, 12, 55560)
  /\ MechConst(RSHELIOS_16P_getConstParam, 12, 55560)
  /\ MechConst(RSAIRY_getConstParam, 8, 111080)
  /\ MechConst(RSFAIRY_getConstParam, 8, 69462)
  /\ MechConst(RSAIRYLITE_getConstParam, 16, 166667)
<1>1. MechConst(RS16_getConstParam, 12, 55500)
  <2>1. Sizes(1248, 1248, 16, 12, 32, 4000, 2300000, 50, 55500, 0)
    BY SMT DEF Sizes
  <2> DEFINE c == RSDecoderMechConstParam(RSDecoderConstParam(1248, 1248, 16, 12, 32, 4000, 2300000, 50), 55500, 0)
  <2>2. MechConst(c, 12, 55500)
    BY SMT, <2>1, MechMade
  <2>3. RS16_getConstParam = c
    BY SMT DEF RS16_getConstParam
  <2> HIDE DEF c
  <2>4. QED
    BY SMT, <2>2, <2>3
<1>2. MechConst(RS32_getConstParam, 12, 55520)
  <2>1. Sizes(1248, 1248, 32, 12, 32, 4000, 2300000, 50, 55520, 46080)
    BY SMT DEF Sizes
  <2> DEFINE c == RSDecoderMechConstParam(RSDecoderConstParam(1248, 1248, 32, 12, 32, 4000, 2300000, 50), 55520, 46080)
  <2>2. MechConst(c, 12, 55520)
    BY SMT, <2>1, MechMade
  <2>3. RS32_getConstParam = c
    BY SMT DEF RS32_getConstParam
  <2> HIDE DEF c
  <2>4. QED
    BY SMT, <2>2, <2>3
<1>3. MechConst(RSBP_getConstParam, 12, 55520)
  <2>1. Sizes(1248, 1248, 32, 12, 32, 1000, 1500000, 50, 55520, 44880)
    BY SMT DEF Sizes
  <2> DEFINE c == RSDecoderMechConstParam(RSDecoderConstParam(1248, 1248, 32, 12, 32, 1000, 1500000, 50), 55520, 44880)
  <2>2. MechConst(c, 12, 55520)
    BY SMT, <2>1, MechMade
  <2>3. RSBP_getConstParam = c
    BY SMT DEF RSBP_getConstParam
  <2> HIDE DEF c
  <2>4. QED
    BY SMT, <2>2, <2>3
<1>4. MechConst(RS48_getConstParam, 8, 55552)
  <2>1. Sizes(1268, 1248, 48, 8, 48, 4000, 2500000, 50, 55552, 48540)
    BY SMT DEF Sizes
  <2> DEFINE c == RSDecoderMechConstParam(RSDecoderConstParam(1268, 1248, 48, 8, 48, 4000, 2500000, 50), 55552, 48540)
  <2>2. MechConst(c, 8, 55552)
    BY SMT, <2>1, MechMade
  <2>3. RS48_getConstParam = c
    BY SMT DEF RS48_getConstParam
  <2> HIDE DEF c
  <2>4. QED
    BY SMT, <2>2, <2>3
<1>5. MechConst(RS80_getConstParam, 4, 55552)
  <2>1. Sizes(1248, 1248, 80, 4, 80, 4000, 2500000, 50, 55552, 48540)
    BY SMT DEF Sizes
  <2> DEFINE c == RSDecoderMechConstParam(RSDecoderConstParam(1248, 1248, 80, 4, 80, 4000, 2500000, 50), 55552, 48540)
  <2>2. MechConst(c, 4, 55552)
    BY SMT, <2>1, MechMade
  <2>3. RS80_getConstParam = c
    BY SMT DEF RS80_getConstParam
  <2> HIDE DEF c
  <2>4. QED
    BY SMT, <2>2, <2>3
<1>6. MechConst(RS128_getConstParam, 3, 55550)
  <2>1. Sizes(1248, 1248, 128, 3, 128, 4000, 2500000, 50, 55550, 48540)
    BY SMT DEF Sizes
  <2> DEFINE c == RSDecoderMechConstParam(RSDecoderConstParam(1248, 1248, 128, 3, 128, 4000, 2500000, 50), 55550, 48540)
  <2>2. MechConst(c, 3, 55550)
    BY SMT, <2>1, MechMade
  <2>3. RS128_getConstParam = c
    BY SMT DEF RS128_getConstParam
  <2> HIDE DEF c
  <2>4. QED
    BY SMT, <2>2, <2>3
<1>7. MechConst(RSP48_getConstParam, 8, 55560)
  <2>1. Sizes(1268, 1248, 48, 8, 48, 4000, 2500000, 50, 55560, 40666)
    BY SMT DEF Sizes
  <2> DEFINE c == RSDecoderMechConstParam(RSDecoderConstParam(1268, 1248, 48, 8, 48, 4000, 2500000, 50), 55560, 40666)
  <2>2. MechConst(c, 8, 55560)
    BY SMT, <2>1, MechMade
  <2>3. RSP48_getConstParam = c
    BY SMT DEF RSP48_getConstParam
  <2> HIDE DEF c
  <2>4. QED
    BY SMT, <2>2, <2>3
<1>8. MechConst(RSP80_getConstParam, 4, 55560)
  <2>1. Sizes(1248, 1248, 80, 4, 80, 4000, 2500000, 50, 55560, 0)
    BY SMT DEF Sizes
  <2> DEFINE c == RSDecoderMechConstParam(RSDecoderConstParam(1248, 1248, 80, 4, 80, 4000, 2500000, 50), 55560, 0)
  <2>2. MechConst(c, 4, 55560)
    BY SMT, <2>1, MechMade
  <2>3. RSP80_getConstParam = c
    BY SMT DEF RSP80_getConstParam
  <2> HIDE DEF c
  <2>4. QED
    BY SMT, <2>2, <2>3
<1>9. MechConst(RSP128_getConstParam, 3, 55560)
  <2>1. Sizes(1248, 1248, 128, 3, 128, 4000, 2500000, 50, 55560, 53771)
    BY SMT DEF Sizes
  <2> DEFINE c == RSDecoderMechConstParam(RSDecoderConstParam(1248, 1248, 128, 3, 128, 4000, 2500000, 50), 55560, 53771)
  <2>2. MechConst(c, 3, 55560)
    BY SMT, <2>1, MechMade
  <2>3. RSP128_getConstParam = c
    BY SMT DEF RSP128_getConstParam
  <2> HIDE DEF c
  <2>4. QED
    BY SMT, <2>2, <2>3
<1>10. MechConst(RSHELIOS_getConstParam, 12, 55560)
  <2>1. Sizes(1248, 1248, 32, 12, 32, 1000, 1800000, 25, 55560, 53630)
    BY SMT DEF Sizes
  <2> DEFINE c == RSDecoderMechConstParam(RSDecoderConstParam(1248, 1248, 32, 12, 32, 1000, 1800000, 25), 55560, 53630)
  <2>2. MechConst(c, 12, 55560)
    BY SMT, <2>1, MechMade
  <2>3. RSHELIOS_getConstParam = c
    BY SMT DEF RSHELIOS_getConstParam
  <2> HIDE DEF c
  <2>4. QED
    BY SMT, <2>2, <2>3
<1>11. MechConst(RSHELIOS_16P_getConstParam, 12, 55560)
  <2>1. Sizes(1248, 1248, 16, 12, 32, 1000, 1800000, 25, 55560, 0)
    BY SMT DEF Sizes
  <2> DEFINE c == RSDecoderMechConstParam(RSDecoderConstParam(1248, 1248, 16, 12, 32, 1000, 1800000, 25), 55560, 0)
  <2>2. MechConst(c, 12, 55560)
    BY SMT, <2>1, MechMade
  <2>3. RSHELIOS_16P_getConstParam = c
    BY SMT DEF RSHELIOS_16P_getConstParam
  <2> HIDE DEF c
  <2>4. QED
    BY SMT, <2>2, <2>3
<1>12. MechConst(RSAIRY_getConstParam, 8, 111080)
  <2>1. Sizes(1248, 1248, 96, 8, 48, 1000, 600000, 50, 111080, 97104)
    BY SMT DEF Sizes
  <2> DEFINE first == RSDecoderMechConstParam(RSDecoderConstParam(1248, 1248, 96, 8, 48, 1000, 600000, 50), 111080, 97104)
  <2>2. MechConst(first, 8, 111080)
    BY SMT, <2>1, MechMade
  <2> DEFINE imu == 51
             mid == 42840
             near == [first EXCEPT !.IMU_LEN = imu]
  <2>3. RSAIRY_getConstParam = [near EXCEPT !.MID_TSS = mid] /\ imu \in Nat /\ mid \in Nat
    BY SMT DEF RSAIRY_getConstParam
  <2> HIDE DEF first, imu, mid
  <2>4. MechConst(near, 8, 111080)
    BY SMT, <2>2, <2>3 DEF MechConst, Consts
  <2> HIDE DEF near
  <2>5. QED
    BY SMT, <2>3, <2>4 DEF MechConst, Consts
<1>13. MechConst(RSFAIRY_getConstParam, 8, 69462)
  <2>1. Sizes(1248, 1248, 96, 8, 48, 1000, 1500000, 50, 69462, 53856)
    BY SMT DEF Sizes
  <2> DEFINE first == RSDecoderMechConstParam(RSDecoderConstParam(1248, 1248, 96, 8, 48, 1000, 1500000, 50), 69462, 53856)
  <2>2. MechConst(first, 8, 69462)
    BY SMT, <2>1, MechMade
  <2> DEFINE imu == 51
             mid == 8160
             near == [first EXCEPT !.IMU_LEN = imu]
  <2>3. RSFAIRY_getConstParam = [near EXCEPT !.MID_TSS = mid] /\ imu \in Nat /\ mid \in Nat
    BY SMT DEF RSFAIRY_getConstParam
  <2> HIDE DEF first, imu, mid
  <2>4. MechConst(near, 8, 69462)
    BY SMT, <2>2, <2>3 DEF MechConst, Consts
  <2> HIDE DEF near
  <2>5. QED
    BY SMT, <2>3, <2>4 DEF MechConst, Consts
<1>14. MechConst(RSAIRYLITE_getConstParam, 16, 166667)
  <2>1. Sizes(1280, 540, 24, 16, 24, 1000, 1000000, 50, 166667, 107300)
    BY SMT DEF Sizes
  <2> DEFINE first == RSDecoderMechConstParam(RSDecoderConstParam(1280, 540, 24, 16, 24, 1000, 1000000, 50), 166667, 107300)
  <2>2. MechConst(first, 16, 166667)
    BY SMT, <2>1, MechMade
  <2> DEFINE imu == 51
             mid == 0
  <2>3. RSAIRYLITE_getConstParam = [first EXCEPT !.IMU_LEN = imu] /\ imu \in Nat /\ mid \in Nat
    BY SMT DEF RSAIRYLITE_getConstParam
  <2> HIDE DEF first, imu, mid
  <2>4. QED
    BY SMT, <2>2, <2>3 DEF MechConst, Consts
<1>15. QED
  BY <1>1, <1>2, <1>3, <1>4, <1>5, <1>6, <1>7, <1>8, <1>9, <1>10, <1>11, <1>12, <1>13, <1>14

\* The ways to run a lidar.
LEMMA ConfigTyped ==
  ASSUME NEW mode \in {"angle", "custom", "fixed"}, NEW first \in BOOLEAN, NEW dense \in BOOLEAN,
         NEW wait \in BOOLEAN, NEW file \in BOOLEAN, NEW file_ok \in BOOLEAN, NEW clock \in BOOLEAN,
         NEW replay \in BOOLEAN
  PROVE  Config(mode, first, dense, wait, file, file_ok, clock, replay) \in Params
BY DEF Config, Params
LEMMA ParamsTyped == {Online, Replay, ByCount, ByTurn} \subseteq Params
<1>1. TRUE \in BOOLEAN /\ FALSE \in BOOLEAN
  OBVIOUS
<1>2. "angle" \in {"angle", "custom", "fixed"} /\ "custom" \in {"angle", "custom", "fixed"}
      /\ "fixed" \in {"angle", "custom", "fixed"}
  OBVIOUS
<1>3. Online \in Params
  BY Zenon, <1>1, <1>2, ConfigTyped DEF Online
<1>4. Replay \in Params
  BY Zenon, <1>1, <1>2, ConfigTyped DEF Replay
<1>5. ByCount \in Params
  BY Zenon, <1>1, <1>2, ConfigTyped DEF ByCount
<1>6. ByTurn \in Params
  BY Zenon, <1>1, <1>2, ConfigTyped DEF ByTurn
<1>7. QED
  BY <1>3, <1>4, <1>5, <1>6

LEMMA StrategyTyped ==
  ASSUME NEW param \in Params
  PROVE  splitStrategy(param) \in BlockSplits
BY DEF splitStrategy, SplitStrategyByNum, SplitStrategyByAngle, BlockSplits, Params

\* A decoder of the first class.
Fresh(e, type, const, param) ==
  /\ e \in Decoders /\ e.type = type /\ e.const = const /\ e.param = param
  /\ e.init = FALSE /\ e.split = SplitStrategyBySeq /\ e.pre = SplitStrategyBySeq
  /\ SplitStrategyBySeq \in SeqSplits /\ e.packet_duration = 0
LEMMA DecoderTyped ==
  ASSUME NEW type \in AllTypes, NEW const \in Consts, NEW param \in Params
  PROVE  Fresh(Decoder(type, const, param), type, const, param)
<1> DEFINE e == Decoder(type, const, param)
           no == FALSE
           sp == SplitStrategyBySeq
<1>1. sp \in SeqSplits
  <2>1. sp = [kind |-> "seq", prev |-> 0, max |-> 0, looped |-> no] /\ no \in BOOLEAN
    BY DEF SplitStrategyBySeq
  <2> HIDE DEF no, sp
  <2>2. QED
    BY <2>1 DEF SeqSplits
<1>2. /\ no \in BOOLEAN /\ no = FALSE /\ sp = SplitStrategyBySeq
      /\ e = [type |-> type, const |-> const, param |-> param, echo |-> "single", ready |-> no,
              packet_duration |-> 0, prev_pkt_ts |-> 0, prev_point_ts |-> 0, first_point_ts |-> 0,
              split |-> sp, pre |-> sp,
              rps |-> 0, blks |-> 0, split_blks |-> 0, blind |-> 0,
              model |-> 0, init |-> no, install |-> 255]
  BY DEF Decoder
<1> HIDE DEF no, sp, e
<1>3. sp \in Splits
  BY <1>1 DEF Splits
<1>4. /\ e \in Decoders /\ e.type = type /\ e.const = const /\ e.param = param
      /\ e.init = no /\ e.split = sp /\ e.pre = sp /\ e.packet_duration = 0
  BY <1>2, <1>3 DEF Decoders, Echoes
<1>5. QED
  BY Zenon, <1>1, <1>2, <1>4 DEF Fresh, e

LEMMA WaitChanges ==
  ASSUME NEW param \in Params, NEW q,
         q = [param EXCEPT !.wait_for_difop = @ /\ ~ param.config_from_file]
  PROVE  q \in Params
<1> DEFINE w == param.wait_for_difop /\ ~ param.config_from_file
<1>1. w \in BOOLEAN
  OBVIOUS
<1>2. q = [param EXCEPT !.wait_for_difop = w]
  OBVIOUS
<1> HIDE DEF w
<1>3. QED
  BY <1>1, <1>2 DEF Params

\* The decoder that the first class of the mechanical lidars makes.
MadeSo(type, e) ==
  MechDecoder(e) /\ e.type = type /\ e.packet_duration <= 50000000 /\ e.init = FALSE
LEMMA DecoderMechTyped ==
  ASSUME NEW type \in MechTypes, NEW B, NEW D, B = BlockCount(type), D \in Durations(type),
         NEW const, MechConst(const, B, D), NEW param \in Params
  PROVE  MadeSo(type, DecoderMech(type, const, param))
<1> DEFINE e == DecoderMech(type, const, param)
           q == [param EXCEPT !.wait_for_difop = @ /\ ~ param.config_from_file]
           b == Decoder(type, const, q)
           blks == blksPerFrame(10, const.BLOCK_DURATION)
           dur == const.BLOCK_DURATION * const.BLOCKS_PER_PKT
           sp == splitStrategy(param)
           ready == param.config_from_file /\ param.angle_file_ok
<1>1. e = [b EXCEPT !.packet_duration = dur, !.rps = 10, !.blks = blks, !.split_blks = blks,
                    !.split = sp, !.pre = sp, !.ready = ready]
  BY Zenon DEF DecoderMech
<1>2. q \in Params
  BY WaitChanges
<1>3. const \in Consts /\ const.BLOCKS_PER_PKT = B /\ const.BLOCK_DURATION = D
  BY DEF MechConst
<1>4. type \in AllTypes
  BY DEF AllTypes
<1> HIDE DEF q
<1>0. Fresh(b, type, const, q)
  BY <1>2, <1>3, <1>4, DecoderTyped
<1> HIDE DEF b
<1> HIDE DEF e
<1>5. /\ b \in Decoders /\ b.type = type /\ b.const = const /\ b.param = q /\ b.init = FALSE
      /\ b.packet_duration = 0
  BY <1>0 DEF Fresh
<1>6. dur <= 50000000 /\ dur \in Nat
  <2>1. D \in {55500, 55520, 55560, 55552, 55550, 111080, 69462, 166667}
    BY DurationValues
  <2>2. B \in {3, 4, 8, 12, 16}
    BY BlockCounts
  <2>3. D \in Nat /\ D <= 166667
    BY <2>1
  <2>4. QED
    BY <1>3, <2>2, <2>3
<1>7. blks \in Nat
  <2>1. D \in Nat \ {0}
    BY DurationsPositive
  <2>2. 10 * D \in Nat \ {0}
    BY <2>1
  <2> DEFINE m == 10 * D
  <2>3. blks = 1000000000 \div m
    BY <1>3 DEF blksPerFrame
  <2> HIDE DEF m, blks
  <2>4. QED
    BY <2>2, <2>3, Quotient DEF m
<1>8. sp \in BlockSplits /\ sp \in Splits
  BY StrategyTyped DEF Splits
<1>9. ready \in BOOLEAN
  OBVIOUS
<1> HIDE DEF dur, blks, sp, ready
<1> DEFINE w == [b EXCEPT !.ready = ready]
           x == [w EXCEPT !.packet_duration = dur, !.rps = 10]
           y == [x EXCEPT !.blks = blks, !.split_blks = blks]
<1>17. dur \in Nat
  BY <1>6
<1>16. w \in Decoders /\ w.type = type /\ w.const = const /\ w.init = b.init
  BY <1>5, <1>9 DEF Decoders
<1>10. x \in Decoders /\ x.type = type /\ x.const = const /\ x.packet_duration = dur
       /\ x.init = b.init
  <2> HIDE DEF w
  <2>1. QED
    BY <1>16, <1>17 DEF Decoders
<1>11. e = [y EXCEPT !.split = sp, !.pre = sp]
  BY <1>1, <1>5 DEF Decoders
<1> HIDE DEF x
<1>14. y \in Decoders /\ y.type = type /\ y.const = const /\ y.packet_duration = dur
       /\ y.init = b.init
  BY <1>7, <1>10 DEF Decoders
<1> HIDE DEF y
<1>15. /\ e \in Decoders /\ e.type = type /\ e.const = const /\ e.split = sp /\ e.pre = sp
       /\ e.packet_duration = dur /\ e.init = b.init
  BY <1>8, <1>11, <1>14 DEF Decoders
<1>12. MechDecoder(e)
  <2>1. e.packet_duration <= 100000000
    BY <1>6, <1>15
  <2>2. ~ e.init
    BY <1>5, <1>15
  <2>3. QED
    BY <1>3, <1>8, <1>15, <2>1, <2>2 DEF MechDecoder
<1>13. QED
  BY <1>5, <1>6, <1>12, <1>15 DEF MadeSo, e

\* The decoder that createDecoder makes for a mechanical lidar.
MadeFor(type, e) == MechDecoder(e) /\ e.type = type
LEMMA PlainMade ==
  ASSUME NEW type \in MechTypes, NEW B, NEW D, B = BlockCount(type), D \in Durations(type),
         NEW const, MechConst(const, B, D), NEW param \in Params
  PROVE  MadeFor(type, DecoderMech(type, const, param))
<1> DEFINE e == DecoderMech(type, const, param)
<1>1. MadeSo(type, e)
  BY DecoderMechTyped
<1>2. QED
  BY <1>1 DEF MadeFor, MadeSo

LEMMA LongerPackets ==
  ASSUME NEW d, MechDecoder(d), d.packet_duration <= 50000000, ~ d.init,
         NEW e, e = [d EXCEPT !.packet_duration = @ * 2]
  PROVE  MechDecoder(e) /\ e.type = d.type /\ ~ e.init
<1> DEFINE n == d.packet_duration * 2
<1>1. d \in Decoders /\ d.packet_duration \in Nat
  BY DEF MechDecoder, Decoders
<1>2. n \in Nat /\ n <= 100000000
  BY <1>1
<1>3. e = [d EXCEPT !.packet_duration = n]
  OBVIOUS
<1> HIDE DEF n
<1>4. /\ e \in Decoders /\ e.type = d.type /\ e.split = d.split /\ e.pre = d.pre /\ e.const = d.const
      /\ e.init = d.init /\ e.packet_duration = n
  BY <1>1, <1>2, <1>3 DEF Decoders
<1>5. QED
  BY <1>2, <1>4 DEF MechDecoder

LEMMA LastMade ==
  ASSUME NEW d, MechDecoder(d), ~ d.init, NEW n \in Nat, NEW e, e = WithLast(d, n)
  PROVE  MechDecoder(e) /\ e.type = d.type
<1>1. d \in Decoders
  BY DEF MechDecoder
<1>2. /\ Kept(d, e) /\ e.init = d.init
      /\ e.const.BLOCK_DURATION = d.const.BLOCK_DURATION
  BY <1>1, LastTssChanges
<1>3. QED
  BY <1>2 DEF MechDecoder, Kept

LEMMA MechCreated ==
  ASSUME NEW type \in MechTypes, NEW param \in Params
  PROVE  MadeFor(type, createDecoder(type, param))
<1>1. CASE type = "RS16"
  <2> DEFINE d == DecoderMech(type, RS16_getConstParam, param)
             x == [d EXCEPT !.packet_duration = @ * 2]
             n == IF Single(x) THEN 97500 ELSE 42000
             e == createDecoder(type, param)
  <2>1. e = RS16_calcParam(x)
    <3>1. e = DecoderRS16(param)
      BY SMT, <1>1 DEF createDecoder
    <3> HIDE DEF e
    <3>2. QED
      BY SMT, <1>1, <3>1 DEF DecoderRS16
  <2>2. 12 = BlockCount(type) /\ 55500 \in Durations(type)
    BY SMT, <1>1 DEF BlockCount, Durations, AiryTypes
  <2>3. MechConst(RS16_getConstParam, 12, 55500)
    BY SMT, MechConsts
  <2>4. MadeSo(type, d)
    BY SMT, <2>2, <2>3, DecoderMechTyped
  <2> HIDE DEF d, x, e
  <2>5. MechDecoder(d) /\ d.type = type /\ d.packet_duration <= 50000000 /\ ~ d.init
    BY SMT, <2>4 DEF MadeSo
  <2>6. MechDecoder(x) /\ x.type = d.type /\ ~ x.init
    BY SMT, <2>5, LongerPackets DEF x
  <2>7. e = WithLast(x, n) /\ n \in Nat
    BY SMT, <2>1 DEF RS16_calcParam, WithLast
  <2> HIDE DEF n
  <2>8. MechDecoder(e) /\ e.type = x.type
    BY SMT, <2>6, <2>7, LastMade
  <2>9. QED
    BY SMT, <2>5, <2>6, <2>8 DEF MadeFor, e
<1>2. CASE type = "RSHELIOS_16P"
  <2> DEFINE d == DecoderMech(type, RSHELIOS_16P_getConstParam, param)
             x == [d EXCEPT !.packet_duration = @ * 2]
             n == IF Single(x) THEN 53630 ELSE 25950
             e == createDecoder(type, param)
  <2>1. e = RSHELIOS_16P_calcParam(x)
    <3>1. e = DecoderRSHELIOS_16P(param)
      BY SMT, <1>2 DEF createDecoder
    <3> HIDE DEF e
    <3>2. QED
      BY SMT, <1>2, <3>1 DEF DecoderRSHELIOS_16P
  <2>2. 12 = BlockCount(type) /\ 55560 \in Durations(type)
    BY SMT, <1>2 DEF BlockCount, Durations, AiryTypes
  <2>3. MechConst(RSHELIOS_16P_getConstParam, 12, 55560)
    BY SMT, MechConsts
  <2>4. MadeSo(type, d)
    BY SMT, <2>2, <2>3, DecoderMechTyped
  <2> HIDE DEF d, x, e
  <2>5. MechDecoder(d) /\ d.type = type /\ d.packet_duration <= 50000000 /\ ~ d.init
    BY SMT, <2>4 DEF MadeSo
  <2>6. MechDecoder(x) /\ x.type = d.type /\ ~ x.init
    BY SMT, <2>5, LongerPackets DEF x
  <2>7. e = WithLast(x, n) /\ n \in Nat
    BY SMT, <2>1 DEF RSHELIOS_16P_calcParam, WithLast
  <2> HIDE DEF n
  <2>8. MechDecoder(e) /\ e.type = x.type
    BY SMT, <2>6, <2>7, LastMade
  <2>9. QED
    BY SMT, <2>5, <2>6, <2>8 DEF MadeFor, e
<1>3. CASE type = "RSP80"
  <2> DEFINE d == DecoderMech(type, RSP80_getConstParam, param)
             n == IF d.model = 3 THEN 31963 ELSE 53771
             e == createDecoder(type, param)
  <2>1. e = RSP80_calcParam(d)
    <3>1. e = DecoderRSP80(param)
      BY SMT, <1>3 DEF createDecoder
    <3> HIDE DEF e
    <3>2. QED
      BY SMT, <1>3, <3>1 DEF DecoderRSP80
  <2>2. 4 = BlockCount(type) /\ 55560 \in Durations(type)
    BY SMT, <1>3 DEF BlockCount, Durations, AiryTypes
  <2>3. MechConst(RSP80_getConstParam, 4, 55560)
    BY SMT, MechConsts
  <2>4. MadeSo(type, d)
    BY SMT, <2>2, <2>3, DecoderMechTyped
  <2> HIDE DEF d, e
  <2>5. MechDecoder(d) /\ d.type = type /\ d.packet_duration <= 50000000 /\ ~ d.init
    BY SMT, <2>4 DEF MadeSo
  <2>7. e = WithLast(d, n) /\ n \in Nat
    BY SMT, <2>1 DEF RSP80_calcParam, WithLast
  <2> HIDE DEF n
  <2>8. MechDecoder(e) /\ e.type = d.type
    BY SMT, <2>5, <2>7, LastMade
  <2>9. QED
    BY SMT, <2>5, <2>8 DEF MadeFor, e
<1>4. CASE type = "RS32"
  <2>1. createDecoder(type, param) = DecoderMech(type, RS32_getConstParam, param)
    BY SMT, <1>4 DEF createDecoder
  <2>2. 12 = BlockCount(type) /\ 55520 \in Durations(type)
    BY <1>4 DEF BlockCount, Durations, AiryTypes
  <2>3. MechConst(RS32_getConstParam, 12, 55520)
    BY MechConsts
  <2>4. QED
    BY <2>1, <2>2, <2>3, PlainMade
<1>5. CASE type = "RSBP"
  <2>1. createDecoder(type, param) = DecoderMech(type, RSBP_getConstParam, param)
    BY SMT, <1>5 DEF createDecoder
  <2>2. 12 = BlockCount(type) /\ 55520 \in Durations(type)
    BY <1>5 DEF BlockCount, Durations, AiryTypes
  <2>3. MechConst(RSBP_getConstParam, 12, 55520)
    BY MechConsts
  <2>4. QED
    BY <2>1, <2>2, <2>3, PlainMade
<1>6. CASE type = "RSAIRY"
  <2>1. createDecoder(type, param) = DecoderMech(type, RSAIRY_getConstParam, param)
    BY SMT, <1>6 DEF createDecoder
  <2>2. 8 = BlockCount(type) /\ 111080 \in Durations(type)
    BY <1>6 DEF BlockCount, Durations, AiryTypes
  <2>3. MechConst(RSAIRY_getConstParam, 8, 111080)
    BY MechConsts
  <2>4. QED
    BY <2>1, <2>2, <2>3, PlainMade
<1>7. CASE type = "RSAIRYLITE"
  <2>1. createDecoder(type, param) = DecoderMech(type, RSAIRYLITE_getConstParam, param)
    BY SMT, <1>7 DEF createDecoder
  <2>2. 16 = BlockCount(type) /\ 166667 \in Durations(type)
    BY <1>7 DEF BlockCount, Durations, AiryTypes
  <2>3. MechConst(RSAIRYLITE_getConstParam, 16, 166667)
    BY MechConsts
  <2>4. QED
    BY <2>1, <2>2, <2>3, PlainMade
<1>8. CASE type = "RSFAIRY"
  <2>1. createDecoder(type, param) = DecoderMech(type, RSFAIRY_getConstParam, param)
    BY SMT, <1>8 DEF createDecoder
  <2>2. 8 = BlockCount(type) /\ 69462 \in Durations(type)
    BY <1>8 DEF BlockCount, Durations, AiryTypes
  <2>3. MechConst(RSFAIRY_getConstParam, 8, 69462)
    BY MechConsts
  <2>4. QED
    BY <2>1, <2>2, <2>3, PlainMade
<1>9. CASE type = "RSHELIOS"
  <2>1. createDecoder(type, param) = DecoderMech(type, RSHELIOS_getConstParam, param)
    BY SMT, <1>9 DEF createDecoder
  <2>2. 12 = BlockCount(type) /\ 55560 \in Durations(type)
    BY <1>9 DEF BlockCount, Durations, AiryTypes
  <2>3. MechConst(RSHELIOS_getConstParam, 12, 55560)
    BY MechConsts
  <2>4. QED
    BY <2>1, <2>2, <2>3, PlainMade
<1>10. CASE type = "RS128"
  <2>1. createDecoder(type, param) = DecoderMech(type, RS128_getConstParam, param)
    BY SMT, <1>10 DEF createDecoder
  <2>2. 3 = BlockCount(type) /\ 55550 \in Durations(type)
    BY <1>10 DEF BlockCount, Durations, AiryTypes
  <2>3. MechConst(RS128_getConstParam, 3, 55550)
    BY MechConsts
  <2>4. QED
    BY <2>1, <2>2, <2>3, PlainMade
<1>11. CASE type = "RS80"
  <2>1. createDecoder(type, param) = DecoderMech(type, RS80_getConstParam, param)
    BY SMT, <1>11 DEF createDecoder
  <2>2. 4 = BlockCount(type) /\ 55552 \in Durations(type)
    BY <1>11 DEF BlockCount, Durations, AiryTypes
  <2>3. MechConst(RS80_getConstParam, 4, 55552)
    BY MechConsts
  <2>4. QED
    BY <2>1, <2>2, <2>3, PlainMade
<1>12. CASE type = "RS48"
  <2>1. createDecoder(type, param) = DecoderMech(type, RS48_getConstParam, param)
    BY SMT, <1>12 DEF createDecoder
  <2>2. 8 = BlockCount(type) /\ 55552 \in Durations(type)
    BY <1>12 DEF BlockCount, Durations, AiryTypes
  <2>3. MechConst(RS48_getConstParam, 8, 55552)
    BY MechConsts
  <2>4. QED
    BY <2>1, <2>2, <2>3, PlainMade
<1>13. CASE type = "RSP128"
  <2>1. createDecoder(type, param) = DecoderMech(type, RSP128_getConstParam, param)
    BY SMT, <1>13 DEF createDecoder
  <2>2. 3 = BlockCount(type) /\ 55560 \in Durations(type)
    BY <1>13 DEF BlockCount, Durations, AiryTypes
  <2>3. MechConst(RSP128_getConstParam, 3, 55560)
    BY MechConsts
  <2>4. QED
    BY <2>1, <2>2, <2>3, PlainMade
<1>14. CASE type = "RSP48"
  <2>1. createDecoder(type, param) = DecoderMech(type, RSP48_getConstParam, param)
    BY SMT, <1>14 DEF createDecoder
  <2>2. 8 = BlockCount(type) /\ 55560 \in Durations(type)
    BY <1>14 DEF BlockCount, Durations, AiryTypes
  <2>3. MechConst(RSP48_getConstParam, 8, 55560)
    BY MechConsts
  <2>4. QED
    BY <2>1, <2>2, <2>3, PlainMade
<1>15. QED
  BY <1>1, <1>2, <1>3, <1>4, <1>5, <1>6, <1>7, <1>8, <1>9, <1>10, <1>11, <1>12, <1>13, <1>14 DEF MechTypes, AiryTypes

\* The state that a driver with decoder d begins in.
LEMMA FirstState ==
  ASSUME NEW d \in Decoders, NEW t, t = StateOf(d)
  PROVE  t \in States /\ t.d = d /\ NoFrames(t) /\ t.ret = FALSE
<1> DEFINE no == FALSE
           none == {}
<1>1. /\ t = [d |-> d, cloud |-> EmptyCloud, out |-> NoCloud, delivered |-> none, imus |-> 0, ret |-> no]
      /\ no \in BOOLEAN /\ none = {} /\ none \in SUBSET Nat
  BY DEF StateOf
<1>2. EmptyCloud \in Clouds /\ NoCloud \in Outs /\ EmptyCloud.frames = {}
  BY CloudsTyped DEF EmptyCloud
<1> HIDE DEF no, none
<1>3. t \in States /\ t.d = d /\ t.cloud = EmptyCloud /\ t.delivered = none /\ t.ret = no
  BY <1>1, <1>2 DEF States
<1>4. NoFrames(t)
  BY <1>1, <1>2, <1>3 DEF NoFrames
<1>5. t.ret = FALSE
  BY Zenon, <1>3 DEF no
<1>6. QED
  BY <1>3, <1>4, <1>5

\* How the front end begins: with a mechanical lidar, or one that numbers its
\* packets.
BeganMech(type, param) ==
  /\ type \in LidarTypes /\ param \in Params
  /\ s = StateOf(createDecoder(type, param)) /\ MechSensor(type, s.d.const, param)
BeganSeq(type, param) ==
  /\ type \in LidarTypes /\ param \in Params
  /\ s = StateOf(createDecoder(type, param)) /\ SeqSensor(type, param)
LEMMA Began ==
  ASSUME FrontInit
  PROVE  /\ \E type, param : BeganMech(type, param) \/ BeganSeq(type, param)
         /\ Flags /\ used = [packets |-> 0, trouble |-> 0]
<1>1. PICK type \in LidarTypes, param \in {Online, Replay, ByCount, ByTurn} :
        /\ s = StateOf(createDecoder(type, param))
        /\ MechSensor(type, s.d.const, param) \/ SeqSensor(type, param)
  BY Zenon DEF FrontInit
<1>2. param \in Params
  BY <1>1, ParamsTyped
<1>3. BeganMech(type, param) \/ BeganSeq(type, param)
  BY Zenon, <1>1, <1>2 DEF BeganMech, BeganSeq
<1>4. Flags /\ used = [packets |-> 0, trouble |-> 0]
  BY DEF FrontInit, Flags
<1>5. QED
  BY Zenon, <1>3, <1>4

LEMMA CountersStart ==
  ASSUME used = [packets |-> 0, trouble |-> 0]
  PROVE  Counters
<1>1. TroubleBound \in Nat /\ MaxMsop \in Nat
  BY BoundsAssumption DEF TroubleBound
<1>2. QED
  BY <1>1 DEF Counters

LEMMA MechStarts ==
  ASSUME NEW type, NEW param, BeganMech(type, param)
  PROVE  MechInv /\ lidar.type = type
<1> DEFINE d == createDecoder(type, param)
<1>1. type \in MechTypes /\ param \in Params /\ s = StateOf(d)
  BY DEF BeganMech, MechSensor
<1>3. MadeFor(type, d)
  BY <1>1, MechCreated
<1> HIDE DEF d
<1>4. MechDecoder(d) /\ d.type = type
  BY <1>3 DEF MadeFor
<1>5. d \in Decoders /\ d.const.BLOCKS_PER_PKT = BlockCount(type) /\ d.const.BLOCK_DURATION \in Durations(type)
  BY <1>4 DEF MechDecoder
<1>6. s \in States /\ s.d = d /\ NoFrames(s)
  BY <1>1, <1>5, FirstState
<1>2. PICK model \in Models(type), mode \in {0, 3}, rpm \in Speeds(type), full \in BOOLEAN :
        lidar = Mech(type, s.d.const, model, mode, rpm, full, 100000000)
  BY SMT DEF BeganMech, MechSensor
<1>7. Renewed(lidar, type)
  <2> DEFINE t0 == 100000000
             const == d.const
  <2>1. model \in Nat
    BY DEF Models
  <2>2. Settings(mode, rpm, full)
    <3>1. rpm \in {600, 1200}
      BY DEF Speeds
    <3>2. QED
      BY <3>1 DEF Settings
  <2>3. t0 \in Nat /\ t0 >= 100000000 /\ const.BLOCKS_PER_PKT = BlockCount(type)
        /\ const.BLOCK_DURATION \in Durations(type)
    BY <1>5
  <2>4. lidar = Mech(type, const, model, mode, rpm, full, t0)
    BY <1>2, <1>6
  <2> HIDE DEF t0, const
  <2>5. Renewed(Mech(type, const, model, mode, rpm, full, t0), type)
    BY SMT, <1>1, <2>1, <2>2, <2>3, NewSensor
  <2>6. QED
    BY <2>4, <2>5
<1>8. lidar \in MechLidars /\ lidar.type = type /\ ~ lidar.told
  BY <1>7 DEF Renewed
<1>9. MechState(lidar, s) /\ ToldCount(lidar, s.d)
  BY <1>4, <1>6, <1>8 DEF MechState, ToldCount
<1>10. QED
  BY <1>8, <1>9 DEF MechInv

\* The blocks of a turn, when the decoder has the speed, the returns and a
\* duration of a block that its type may have.
LEMMA BlocksOfTurn ==
  ASSUME NEW l \in MechLidars, l.type \in Followers, NEW D \in Durations(l.type),
         NEW n, n = (IF difopMode(l.type, l.mode) THEN 2 ELSE 1)
                      * blksPerFrame(roundsPerSecond(l.rpm \div 60), D)
  PROVE  n - PerFiring(l) * (1000000000 \div (Rps(l) * Pace(l) * Duration(l)))
           \in -2 * PerFiring(l) .. 2 * PerFiring(l)
<1> DEFINE k == PerFiring(l)
           r == Rps(l)
           E == Duration(l)
           q == blksPerFrame(r, D)
           x == 1000000000 \div (r * Pace(l) * E)
<1>1. l.type \in MechTypes /\ l.type \notin AiryTypes /\ l.type \notin {"RS16", "RSHELIOS_16P"}
  BY DEF Followers, StaleCount
<1>2. k \in {1, 2} /\ k = IF difopMode(l.type, l.mode) THEN 2 ELSE 1
  BY <1>1 DEF PerFiring, Dual, difopMode, MechTypes
<1>3. Pace(l) = 1
  BY <1>1 DEF Pace
<1>4. r \in {10, 20} /\ r = l.rpm \div 60 /\ roundsPerSecond(l.rpm \div 60) = r
  BY DEF Rps, roundsPerSecond, MechLidars
<1>5. E \in Nat
  BY DEF Duration, MechLidars
<1>6. x = blksPerFrame(r, E)
  <2>1. r * 1 = r /\ r * Pace(l) = r * 1
    BY <1>3, <1>4
  <2>2. QED
    BY <2>1 DEF blksPerFrame
<1>7. q - x \in -2 .. 2 /\ q \in Int /\ x \in Int
  <2>1. CASE l.type = "RSBP"
    <3>1. D \in {55520, 55560} /\ E \in {55520, 55560}
      BY <2>1 DEF Durations, Duration
    <3> HIDE DEF E, r, x, q
    <3>2. \A y \in {55520, 55560} : blksPerFrame(10, y) \in {1799, 1801} /\ blksPerFrame(20, y) \in {899, 900}
      BY DEF blksPerFrame
    <3>3. CASE r = 10
      <4>1. q \in {1799, 1801} /\ x \in {1799, 1801}
        BY <1>6, <3>1, <3>2, <3>3 DEF q
      <4>2. QED
        BY <4>1
    <3>4. CASE r = 20
      <4>1. q \in {899, 900} /\ x \in {899, 900}
        BY <1>6, <3>1, <3>2, <3>4 DEF q
      <4>2. QED
        BY <4>1
    <3>5. QED
      BY <1>4, <3>3, <3>4
  <2>2. CASE l.type # "RSBP"
    <3>1. E = l.duration /\ l.duration \in Durations(l.type)
      BY <2>2 DEF Duration, MechLidars
    <3>2. E = D
      BY <1>1, <2>2, <3>1 DEF Durations
    <3>3. x = q
      BY <1>6, <3>2
    <3>4. q \in Nat
      <4>1. D \in Nat \ {0}
        BY DurationsPositive
      <4> DEFINE m == r * D
      <4>2. m \in Nat \ {0}
        BY <1>4, <4>1
      <4> HIDE DEF m, r
      <4>3. 1000000000 \div m \in Nat
        BY <4>2, Quotient
      <4>4. QED
        BY <4>3 DEF m, blksPerFrame
    <3> HIDE DEF x, q
    <3>5. QED
      BY <3>3, <3>4
  <2>3. QED
    BY <2>1, <2>2
<1>8. n = k * q
  BY <1>2, <1>4
<1> HIDE DEF k, q, x
<1>9. n - k * x \in -2 * k .. 2 * k
  <2>1. CASE k = 1
    BY <1>7, <1>8, <2>1
  <2>2. CASE k = 2
    BY <1>7, <1>8, <2>2
  <2>3. QED
    BY <1>2, <2>1, <2>2
<1>10. QED
  BY <1>9 DEF k, x

LEMMA CountsOneTurn ==
  ASSUME lidar.type \in MechTypes => MechInv
  PROVE  FixedSplitIsOneTurn
<1> SUFFICES ASSUME lidar.type \in MechTypes \ StaleCount, lidar.told
             PROVE  s.d.split_blks
                      - PerFiring(lidar) * (1000000000 \div (Rps(lidar) * Pace(lidar) * Duration(lidar)))
                      \in -2 * PerFiring(lidar) .. 2 * PerFiring(lidar)
  BY SMT DEF FixedSplitIsOneTurn
<1>1. lidar \in MechLidars /\ lidar.type \in Followers
  BY DEF MechInv, MechState, Followers
<1>2. PICK D \in Durations(lidar.type) :
        s.d.split_blks = (IF difopMode(lidar.type, lidar.mode) THEN 2 ELSE 1)
                           * blksPerFrame(roundsPerSecond(lidar.rpm \div 60), D)
  BY <1>1 DEF MechInv, ToldCount
<1>3. QED
  BY SMT, <1>1, <1>2, BlocksOfTurn

-----------------------------------------------------------------------------
(* The sensor that numbers its packets *)

\* Numbers from 1 to the length of a frame, and what two packets fewer than RANGE
\* apart may look like to newPacket.

LenOf(type) == IF type = "RSM1_JUMBO" THEN 3 ELSE FrameLen
Limit(l) == MaxFrames * l.frame_len + l.frame_len \div 5
SeqLidars ==
  {l \in [type : SeqTypes, mode : {0, 3}, frame_len : Nat, next : Nat, newest : Int,
          held : SUBSET Nat] :
     /\ l.frame_len = LenOf(l.type) /\ -1 <= l.newest /\ l.newest < l.next
     /\ \A i \in l.held : i < l.next /\ i # l.newest /\ i < Limit(l)}

\* What the split by sequence number answers to packet i after packet m, when
\* fewer than RANGE are missing between them or i is at most RANGE late: z is
\* what a decoder subtracts from the number.
Answer(m, i, z, sp, F, G, c, e, new) ==
  \/ /\ i > m /\ G = F /\ ~ new.split /\ new.state.prev = e - z
     /\ new.state.looped = sp.looped /\ e > c
  \/ /\ i > m /\ G = F + 1 /\ new.split /\ new.state.prev = e - z /\ new.state.looped /\ e < c
  \/ /\ i < m /\ G = F /\ ~ new.split /\ new.state.prev = sp.prev
     /\ new.state.looped = sp.looped /\ e < c
  \/ /\ i < m /\ G + 1 = F /\ ~ new.split /\ new.state.prev = sp.prev
     /\ new.state.looped = sp.looped /\ e > c
Nearby(L, m, i, z, sp) ==
  Answer(m, i, z, sp, m \div L, i \div L, (m % L) + 1, (i % L) + 1, newPacket(sp, ((i % L) + 1) - z))
LEMMA NumbersNearby ==
  ASSUME NEW L \in Nat, L > 2 * RANGE, L + RANGE < 65536, NEW m \in Nat, NEW i \in Nat, i # m,
         i - m <= RANGE, m - i <= RANGE, NEW z \in {0, 1}, NEW sp \in SeqSplits,
         sp.prev = ((m % L) + 1) - z, (i \div L) + 1 = m \div L => sp.prev # 0
  PROVE  Nearby(L, m, i, z, sp)
<1> DEFINE F == m \div L
           G == i \div L
           c == (m % L) + 1
           e == (i % L) + 1
           new == newPacket(sp, e - z)
<1>0. RANGE = 10 /\ L \in Nat \ {0}
  BY DEF RANGE
<1>1. /\ F \in Nat /\ G \in Nat /\ c \in 1 .. L /\ e \in 1 .. L
      /\ G = F => e = c + (i - m)
      /\ G = F + 1 => e = c + (i - m) - L
      /\ G + 1 = F => e = c + (i - m) + L
      /\ G >= F + 2 => i - m > L
      /\ G + 2 <= F => m - i > L
  <2>1. Placed(L, m, i)
    BY <1>0, PlaceValues
  <2>2. QED
    BY <2>1 DEF Placed
<1>11. sp.prev = c - z /\ (G + 1 = F => sp.prev # 0) /\ new = newPacket(sp, e - z)
  OBVIOUS
<1> HIDE DEF F, G, c, e, new
<1> SUFFICES Answer(m, i, z, sp, F, G, c, e, new)
  BY DEF Nearby, F, G, c, e, new
<1>2. G = F \/ G = F + 1 \/ G + 1 = F
  BY <1>0, <1>1
<1> DEFINE seq == e - z
<1>3. seq \in Nat /\ sp.prev \in Nat /\ sp.prev + RANGE < 65536
  BY <1>0, <1>1, <1>11 DEF SeqSplits
<1>4. new = newPacket(sp, seq)
  BY <1>11
<1> HIDE DEF seq
<1>5. /\ seq + RANGE < sp.prev => new.split /\ new.state.prev = seq /\ new.state.looped
      /\ sp.prev = 0 \/ (sp.prev <= seq /\ seq <= sp.prev + RANGE /\ sp.prev + RANGE < 65536) =>
           ~ new.split /\ new.state.prev = seq /\ new.state.looped = sp.looped
      /\ sp.prev # 0 /\ sp.prev + RANGE < seq /\ sp.prev + RANGE < 65536 =>
           ~ new.split /\ new.state.prev = sp.prev /\ new.state.looped = sp.looped
      /\ seq < sp.prev /\ sp.prev <= seq + RANGE =>
           ~ new.split /\ new.state.prev = sp.prev /\ new.state.looped = sp.looped
  BY <1>3, <1>4, NewPacketAnswers
<1>6. CASE G = F /\ i > m
  <2>1. e = c + (i - m) /\ seq = e - z
    BY <1>1, <1>6 DEF seq
  <2>2. sp.prev <= seq /\ seq <= sp.prev + RANGE /\ e > c
    BY <1>0, <1>1, <1>11, <1>6, <2>1
  <2>3. QED
    BY <1>3, <1>5, <1>6, <2>1, <2>2 DEF Answer
<1>7. CASE G = F /\ i < m
  <2>1. e = c + (i - m) /\ seq = e - z
    BY <1>1, <1>7 DEF seq
  <2>2. seq < sp.prev /\ sp.prev <= seq + RANGE /\ e < c
    BY <1>0, <1>1, <1>11, <1>7, <2>1
  <2>3. QED
    BY <1>3, <1>5, <1>7, <2>1, <2>2 DEF Answer
<1>8. CASE G = F + 1
  <2>1. e = c + (i - m) - L /\ seq = e - z
    BY <1>1, <1>8 DEF seq
  <2>2. seq + RANGE < sp.prev /\ e < c
    BY <1>0, <1>1, <1>11, <2>1
  <2>3. i > m
    BY <1>0, <1>1, <1>11, <2>1
  <2>4. QED
    BY <1>5, <1>8, <2>1, <2>2, <2>3 DEF Answer
<1>9. CASE G + 1 = F
  <2>1. e = c + (i - m) + L /\ seq = e - z
    BY <1>1, <1>9 DEF seq
  <2>2. sp.prev + RANGE < seq /\ e > c /\ i < m
    BY <1>0, <1>1, <1>11, <2>1
  <2>3. QED
    BY <1>3, <1>5, <1>9, <1>11, <2>1, <2>2 DEF Answer
<1>10. QED
  BY <1>2, <1>6, <1>7, <1>8, <1>9

\* The same for datagrams of 63 packets, three to a frame, which arrive in
\* order: prev tells the last packet of datagram m, or of the first one of its
\* frame when the second was missing.
JumboAnswer(F, G, c, e, first, sp, new) ==
  /\ first \in Nat /\ first <= 200 /\ first + PACKET_NUM = PACKET_NUM * e
  /\ \/ G = F /\ ~ new.split /\ new.state.prev = first + 1
     \/ G = F /\ sp.prev # 0 /\ sp.prev + RANGE < first + 1 /\ e = 3 /\ sp.prev = PACKET_NUM
     \/ G = F + 1 /\ new.split /\ new.state.prev = first + 1
JumboNear(m, i, sp) ==
  JumboAnswer(m \div 3, i \div 3, (m % 3) + 1, (i % 3) + 1, (((i % 3) + 1) - 1) * PACKET_NUM, sp,
              newPacket(sp, (((i % 3) + 1) - 1) * PACKET_NUM + 1))
LEMMA JumboNearby ==
  ASSUME NEW m \in Nat, NEW i \in Nat, i > m, i - m <= 3, NEW sp \in SeqSplits,
         \/ sp.prev = PACKET_NUM * ((m % 3) + 1)
         \/ (m % 3) + 1 = 3 /\ sp.prev = PACKET_NUM,
         i - m > 1 => sp.prev = ((m % 3) + 1) * PACKET_NUM
  PROVE  JumboNear(m, i, sp)
<1> DEFINE F == m \div 3
           G == i \div 3
           c == (m % 3) + 1
           e == (i % 3) + 1
           first == (e - 1) * PACKET_NUM
           new == newPacket(sp, first + 1)
<1>0. RANGE = 10 /\ PACKET_NUM = 63
  BY DEF RANGE, PACKET_NUM
<1>1. /\ F \in Nat /\ G \in Nat /\ c \in 1 .. 3 /\ e \in 1 .. 3
      /\ G = F => e = c + (i - m)
      /\ G = F + 1 => e = c + (i - m) - 3
      /\ G + 1 = F => e = c + (i - m) + 3
      /\ G >= F + 2 => i - m > 3
      /\ G + 2 <= F => m - i > 3
  <2>1. Placed(3, m, i)
    BY PlaceValues
  <2>2. QED
    BY <2>1 DEF Placed
<1>9. /\ (sp.prev = PACKET_NUM * c \/ (c = 3 /\ sp.prev = PACKET_NUM))
      /\ i - m > 1 => sp.prev = c * PACKET_NUM
      /\ first = (e - 1) * PACKET_NUM /\ new = newPacket(sp, first + 1)
  OBVIOUS
<1> HIDE DEF F, G, c, e, first, new
<1> SUFFICES JumboAnswer(F, G, c, e, first, sp, new)
  BY DEF JumboNear, F, G, c, e, first, new
<1>2. G = F \/ G = F + 1
  BY <1>1
<1>3. first \in Nat /\ first = 63 * e - 63 /\ first <= 200 /\ first + PACKET_NUM = PACKET_NUM * e
  BY <1>0, <1>1, <1>9
<1> DEFINE seq == first + 1
<1>4. seq \in Nat /\ seq = 63 * e - 62 /\ new = newPacket(sp, seq)
  <2>1. new = newPacket(sp, seq)
    BY Zenon, <1>9 DEF seq
  <2>2. seq \in Nat /\ seq = 63 * e - 62
    BY <1>1, <1>3 DEF seq
  <2>3. QED
    BY <2>1, <2>2
<1> HIDE DEF seq
<1>5. /\ seq + RANGE < sp.prev => new.split /\ new.state.prev = seq
      /\ sp.prev = 0 \/ (sp.prev <= seq /\ seq <= sp.prev + RANGE /\ sp.prev + RANGE < 65536) =>
           ~ new.split /\ new.state.prev = seq
  BY <1>4, NewPacketAnswers
<1>6. CASE G = F
  <2>1. e = c + (i - m) /\ e <= 3 /\ c >= 1
    BY <1>1, <1>6
  <2>2. CASE i - m = 1
    <3>1. sp.prev = 63 * c /\ seq = sp.prev + 1
      BY <1>0, <1>1, <1>9, <1>4, <2>1, <2>2
    <3>2. sp.prev <= seq /\ seq <= sp.prev + RANGE /\ sp.prev + RANGE < 65536
      BY <1>0, <1>1, <1>9, <3>1
    <3>3. QED
      BY <1>3, <1>5, <1>6, <3>2 DEF seq, JumboAnswer
  <2>3. CASE i - m # 1
    <3>1. i - m = 2 /\ c = 1 /\ e = 3 /\ sp.prev = 63
      BY <1>0, <1>1, <1>9, <2>1, <2>3
    <3>2. QED
      BY <1>0, <1>3, <1>6, <3>1 DEF JumboAnswer
  <2>4. QED
    BY <2>2, <2>3
<1>7. CASE G = F + 1
  <2>1. e = c + (i - m) - 3
    BY <1>1, <1>7
  <2>2. CASE sp.prev = 63 * c
    <3>1. seq + RANGE < sp.prev
      BY <1>0, <1>1, <1>9, <1>4, <2>1, <2>2
    <3>2. QED
      BY <1>3, <1>5, <1>7, <3>1 DEF seq, JumboAnswer
  <2>3. CASE sp.prev # 63 * c
    <3>1. c = 3 /\ sp.prev = 63 /\ i - m = 1 /\ e = 1
      BY <1>0, <1>1, <1>9, <2>1, <2>3
    <3>2. seq + RANGE < sp.prev
      BY <1>0, <1>4, <3>1
    <3>3. QED
      BY <1>3, <1>5, <1>7, <3>2 DEF seq, JumboAnswer
  <2>4. QED
    BY <1>0, <2>2, <2>3
<1>8. QED
  BY <1>2, <1>6, <1>7

-----------------------------------------------------------------------------
(* The invariant: lidars that number their packets *)

\* RSEMX counts from 0.
Less(type) == IF type = "RSEMX" THEN 1 ELSE 0
\* The split remembers packet m, the newest one of its stream.
Tracks(l, m, split) ==
  IF m < 0 THEN split.prev = 0 /\ ~ split.looped
  ELSE IF l.type = "RSM1_JUMBO"
  THEN \/ split.prev = PACKET_NUM * NumberOf(l, m)
       \/ NumberOf(l, m) = 3 /\ split.prev = PACKET_NUM
  ELSE split.prev = NumberOf(l, m) - Less(l.type)
\* The cloud holds points of one frame, and no cloud handed over does.
OneFrame(now, t) == t.cloud.frames \subseteq {now} /\ \A f \in t.delivered : f < now
\* RSM1: unless its last packet, the one with the highest number, c, has ended it.
Ended(now, c, t) ==
  /\ t.cloud.frames \subseteq {now} /\ \A f \in t.delivered : f <= now
  /\ now \in t.delivered => t.cloud.frames = {} /\ t.d.split.looped /\ t.d.split.max = c
  /\ t.d.split.max >= c
FramesApart(l, m, t) ==
  IF m < 0 THEN t.cloud.frames = {} /\ t.delivered = {}
  ELSE IF l.type = "RSM1" THEN Ended(FrameOf(l, m), NumberOf(l, m), t)
  ELSE OneFrame(FrameOf(l, m), t)

\* Where packet i is, and what the split answers to it after the newest one.
Answers(l, i, z, sp) ==
  LET m == l.newest
      F == FrameOf(l, m)
      G == FrameOf(l, i)
      c == NumberOf(l, m)
      e == NumberOf(l, i)
      new == newPacket(sp, e - z)
  IN Answer(m, i, z, sp, F, G, c, e, new)
LEMMA SeqAnswers ==
  ASSUME NEW l \in SeqLidars, l.type # "RSM1_JUMBO", l.newest >= 0, NEW i \in Nat, i # l.newest,
         i - l.newest <= RANGE, l.newest - i <= RANGE, NEW z \in {0, 1}, NEW sp \in SeqSplits,
         sp.prev = NumberOf(l, l.newest) - z,
         FrameOf(l, i) + 1 = FrameOf(l, l.newest) => sp.prev # 0
  PROVE  Answers(l, i, z, sp)
<1> DEFINE L == l.frame_len
           m == l.newest
<1>1. L = FrameLen /\ L \in Nat /\ L > 2 * RANGE /\ L + RANGE < 65536 /\ m \in Nat
  BY BoundsAssumption DEF SeqLidars, LenOf
<1>2. sp.prev = ((m % L) + 1) - z /\ ((i \div L) + 1 = m \div L => sp.prev # 0)
  BY Zenon DEF NumberOf, FrameOf
<1>3. i # m /\ i - m <= RANGE /\ m - i <= RANGE
  OBVIOUS
<1> HIDE DEF L, m
<1>4. Nearby(L, m, i, z, sp)
  BY <1>1, <1>2, <1>3, NumbersNearby
<1>5. QED
  BY Zenon, <1>4 DEF Answers, Nearby, FrameOf, NumberOf, L, m

\* The frames after a packet of frame G, when the newest one was of frame F.
LEMMA FramesFollow ==
  ASSUME NEW t \in States, NEW r, NEW p, NEW b, NEW F \in Int, NEW G \in Int, p.frame = G,
         OneFrame(F, t), Cut(t, r, p, b),
         \/ G = F /\ ~ b
         \/ G = F + 1 /\ b
         \/ G + 1 = F /\ ~ b /\ p.late
  PROVE  /\ G <= F => OneFrame(F, r)
         /\ G = F + 1 => OneFrame(G, r)
<1>1. t.delivered \subseteq Nat
  BY DEF States
<1>2. CASE G = F /\ ~ b
  <2>1. r.delivered = t.delivered /\ r.cloud.frames \subseteq t.cloud.frames \cup Own(p)
    BY <1>2 DEF Cut
  <2>2. QED
    BY <1>2, <2>1 DEF OneFrame, Own
<1>3. CASE G = F + 1 /\ b
  <2>1. r.delivered \subseteq t.delivered \cup t.cloud.frames /\ r.cloud.frames \subseteq Own(p)
    BY <1>3 DEF Cut
  <2>2. QED
    BY <1>1, <1>3, <2>1 DEF OneFrame, Own
<1>4. CASE G + 1 = F /\ ~ b /\ p.late
  <2>1. r.delivered = t.delivered /\ r.cloud.frames \subseteq t.cloud.frames
    BY <1>4 DEF Cut, Own
  <2>2. QED
    BY <1>4, <2>1 DEF OneFrame
<1>5. QED
  BY <1>2, <1>3, <1>4

\* The first packet that is taken.
LEMMA FramesBegin ==
  ASSUME NEW t, NEW r, NEW p, NEW b, ~ b, NEW G \in Int, p.frame = G,
         t.cloud.frames = {}, t.delivered = {}, Cut(t, r, p, b)
  PROVE  OneFrame(G, r) /\ r.delivered = {}
BY DEF Cut, Own, OneFrame

LEMMA NumbersTyped ==
  ASSUME NEW l \in SeqLidars, NEW i \in Nat
  PROVE  NumberOf(l, i) \in 1 .. l.frame_len /\ FrameOf(l, i) \in Nat /\ l.frame_len \in Nat
<1> DEFINE L == l.frame_len
<1>1. L \in Nat \ {0}
  BY BoundsAssumption DEF SeqLidars, LenOf, RANGE
<1> HIDE DEF L
<1>2. i % L \in 0 .. L - 1 /\ i \div L \in Nat
  <2>1. i \div L \in Nat
    BY <1>1, Quotient
  <2>2. i % L \in 0 .. L - 1
    BY <1>1, DivMod
  <2>3. QED
    BY <2>1, <2>2
<1>3. NumberOf(l, i) = (i % L) + 1 /\ FrameOf(l, i) = i \div L
  BY DEF NumberOf, FrameOf, L
<1>4. NumberOf(l, i) \in 1 .. L /\ FrameOf(l, i) \in Nat /\ L \in Nat
  <2> DEFINE x == i % L
  <2>1. x \in 0 .. L - 1 /\ NumberOf(l, i) = x + 1
    BY <1>2, <1>3
  <2> HIDE DEF x
  <2>2. QED
    BY <1>1, <1>2, <1>3, <2>1
<1>5. QED
  BY <1>4 DEF L

\* A packet of points that has the number and the frame of packet i.
Numbers(l, d, i, p) ==
  /\ SeqPacket(p) /\ p.seq = NumberOf(l, i) /\ p.frame = FrameOf(l, i)
  /\ p.late <=> Late(l, d, i)
\* The invariant after packet i is taken.
Newest(l, i) == IF i > l.newest THEN i ELSE l.newest
Followed(l, i, r) == Tracks(l, Newest(l, i), r.d.split) /\ FramesApart(l, Newest(l, i), r)
\* What precedes it.
Before(l, i, t) ==
  /\ i \in Nat /\ i # l.newest /\ l.newest - i <= RANGE
  /\ t \in States /\ SeqDecoder(t.d) /\ t.d.type = l.type
  /\ Tracks(l, l.newest, t.d.split) /\ FramesApart(l, l.newest, t)

\* The answers for a packet that RSEMX, RSM1 and the plain decoders can place.
LEMMA Answered ==
  ASSUME NEW l \in SeqLidars, l.type # "RSM1_JUMBO", l.newest >= 0, NEW t, NEW i, Before(l, i, t),
         i - l.newest <= RANGE, NEW p, Numbers(l, t.d, i, p),
         l.type = "RSEMX" => ~ (p.late /\ t.d.split.prev = 0)
  PROVE  Answers(l, i, Less(l.type), t.d.split)
<1> DEFINE z == Less(l.type)
           sp == t.d.split
           F == FrameOf(l, l.newest)
           G == FrameOf(l, i)
<1>1. l.newest \in Nat /\ i \in Nat /\ sp \in SeqSplits
  BY DEF SeqLidars, Before, SeqDecoder
<1>2. NumberOf(l, l.newest) \in 1 .. l.frame_len /\ F \in Nat /\ G \in Nat /\ l.frame_len \in Nat
  BY <1>1, NumbersTyped
<1>3. sp.prev = NumberOf(l, l.newest) - z /\ z \in {0, 1}
  BY <1>1 DEF Before, Tracks, Less
<1>4. ASSUME G + 1 = F PROVE sp.prev # 0
  <2>1. F > G
    BY <1>2, <1>4
  <2>2. Late(l, t.d, i)
    BY <2>1 DEF Late
  <2>3. p.late
    BY <2>2 DEF Numbers
  <2>4. CASE l.type = "RSEMX"
    BY <2>3, <2>4
  <2>5. CASE l.type # "RSEMX"
    BY <1>2, <1>3, <2>5 DEF Less
  <2>6. QED
    BY <2>4, <2>5
<1>5. i # l.newest /\ l.newest - i <= RANGE
  BY DEF Before
<1> HIDE DEF z, sp, F, G
<1>6. FrameOf(l, i) + 1 = FrameOf(l, l.newest) => sp.prev # 0
  BY <1>4 DEF F, G
<1>7. Answers(l, i, z, sp)
  BY <1>1, <1>3, <1>5, <1>6, SeqAnswers
<1>8. QED
  BY <1>7 DEF z, sp

\* The first packet that is taken begins the stream.
LEMMA FirstAnswered ==
  ASSUME NEW l \in SeqLidars, l.newest < 0, NEW t, NEW i, Before(l, i, t), NEW seq \in Nat,
         NEW new, new = newPacket(t.d.split, seq)
  PROVE  ~ new.split /\ new.state.prev = seq /\ ~ new.state.looped /\ new.state.max >= seq
         /\ new.state \in SeqSplits
<1> DEFINE sp == t.d.split
<1>1. sp \in SeqSplits /\ sp.prev = 0 /\ ~ sp.looped /\ new = newPacket(sp, seq)
  BY DEF Before, SeqDecoder, Tracks
<1> HIDE DEF sp
<1>2. /\ new.state \in SeqSplits /\ new.split \in BOOLEAN
      /\ new.state.max = IF seq > sp.max THEN seq ELSE sp.max
      /\ ~ new.split /\ new.state.prev = seq /\ new.state.looped = sp.looped
  BY <1>1, NewPacketAnswers
<1>3. QED
  BY <1>1, <1>2 DEF SeqSplits

LEMMA PlainFollows ==
  ASSUME NEW l \in SeqLidars, l.type \notin {"RSM1_JUMBO", "RSM1"}, NEW t, NEW i, Before(l, i, t),
         l.newest >= 0 => i - l.newest <= RANGE, NEW p, Numbers(l, t.d, i, p),
         l.newest >= 0 => (l.type = "RSEMX" => ~ (p.late /\ t.d.split.prev = 0)),
         NEW new, new = newPacket(t.d.split, p.seq - Less(l.type)),
         NEW r, r.d.split = new.state, Cut(t, r, p, new.split)
  PROVE  Followed(l, i, r)
<1> DEFINE z == Less(l.type)
           m == l.newest
           F == FrameOf(l, m)
           G == FrameOf(l, i)
           c == NumberOf(l, m)
           e == NumberOf(l, i)
           seq == e - z
<1>1. i \in Nat /\ t \in States /\ m \in Int /\ z \in {0, 1} /\ l.type # "RSM1"
      /\ l.type # "RSM1_JUMBO"
  BY DEF Before, SeqLidars, Less
<1>2. e \in 1 .. l.frame_len /\ G \in Nat /\ l.frame_len \in Nat /\ p.seq = e /\ p.frame = G
  BY <1>1, NumbersTyped DEF Numbers
<1>3. new = newPacket(t.d.split, seq) /\ seq \in Nat
  BY <1>1, <1>2
<1>4. CASE m < 0
  <2> HIDE DEF seq
  <2>1. ~ new.split /\ new.state.prev = seq
    BY <1>3, <1>4, FirstAnswered
  <2>2. t.cloud.frames = {} /\ t.delivered = {}
    BY <1>4 DEF Before, FramesApart
  <2>3. OneFrame(G, r)
    BY <1>2, <2>1, <2>2, FramesBegin
  <2>4. Newest(l, i) = i
    BY <1>1, <1>4 DEF Newest
  <2>5. Tracks(l, i, r.d.split) /\ FramesApart(l, i, r)
    BY <1>1, <2>1, <2>3 DEF Tracks, FramesApart, seq
  <2>6. QED
    BY <2>4, <2>5 DEF Followed
<1>5. CASE m >= 0
  <2>1. Answers(l, i, z, t.d.split)
    BY <1>1, <1>5, Answered
  <2>2. c \in 1 .. l.frame_len /\ F \in Nat
    BY <1>1, <1>5, NumbersTyped
  <2>3. t.d.split.prev = c - z /\ OneFrame(F, t)
    BY <1>1, <1>5 DEF Before, Tracks, FramesApart
  <2>4. Late(l, t.d, i) <=> p.late
    BY DEF Numbers
  <2> DEFINE sp == t.d.split
  <2>5. Answer(m, i, z, sp, F, G, c, e, new)
    BY Zenon, <1>3, <2>1 DEF Answers
  <2>6. F > G => Late(l, t.d, i)
    BY DEF Late
  <2> HIDE DEF z, F, G, c, e, seq, sp
  <2>7. CASE i > m /\ G = F /\ ~ new.split /\ new.state.prev = e - z
    <3> DEFINE b == new.split
    <3>5. Cut(t, r, p, b)
      OBVIOUS
    <3>6. ~ b /\ G = F
      BY <2>7
    <3> HIDE DEF b
    <3>1. OneFrame(G, r)
      BY <1>1, <1>2, <2>2, <2>3, <3>5, <3>6, FramesFollow
    <3>2. Newest(l, i) = i
      BY <2>7 DEF Newest, m
    <3>3. Tracks(l, i, r.d.split) /\ FramesApart(l, i, r)
      BY <1>1, <2>7, <3>1 DEF Tracks, FramesApart, z, G, e
    <3>4. QED
      BY <3>2, <3>3 DEF Followed
  <2>8. CASE i > m /\ G = F + 1 /\ new.split /\ new.state.prev = e - z
    <3> DEFINE b == new.split
    <3>5. Cut(t, r, p, b)
      OBVIOUS
    <3>6. b /\ G = F + 1
      BY <2>8
    <3> HIDE DEF b
    <3>7. F \in Int /\ G \in Int /\ t \in States /\ p.frame = G /\ OneFrame(F, t)
      BY <1>1, <1>2, <2>2, <2>3
    <3>8. G = F + 1 => OneFrame(G, r)
      BY Zenon, <3>5, <3>6, <3>7, FramesFollow
    <3>1. OneFrame(G, r)
      BY <3>6, <3>8
    <3>2. Newest(l, i) = i
      BY <2>8 DEF Newest, m
    <3>3. Tracks(l, i, r.d.split) /\ FramesApart(l, i, r)
      BY <1>1, <2>8, <3>1 DEF Tracks, FramesApart, z, G, e
    <3>4. QED
      BY <3>2, <3>3 DEF Followed
  <2>9. CASE i < m /\ ~ new.split /\ new.state.prev = sp.prev /\ (G = F \/ G + 1 = F)
    <3>1. G + 1 = F => p.late
      BY <1>2, <2>2, <2>4, <2>6
    <3> DEFINE b == new.split
    <3>7. Cut(t, r, p, b)
      OBVIOUS
    <3>8. ~ b /\ (G = F \/ (G + 1 = F /\ p.late)) /\ G <= F
      BY <1>2, <2>2, <2>9, <3>1
    <3> HIDE DEF b
    <3>9. F \in Int /\ G \in Int /\ t \in States /\ p.frame = G /\ OneFrame(F, t)
      BY <1>1, <1>2, <2>2, <2>3
    <3>10. G <= F => OneFrame(F, r)
      BY Zenon, <3>7, <3>8, <3>9, FramesFollow
    <3>2. OneFrame(F, r)
      BY <3>8, <3>10
    <3>3. Newest(l, i) = m
      BY <1>1, <2>9 DEF Newest, m
    <3>4. Tracks(l, m, r.d.split)
      BY <1>1, <1>5, <2>3, <2>9 DEF Tracks, z, c, sp
    <3>5. FramesApart(l, m, r)
      BY <1>1, <1>5, <3>2 DEF FramesApart, F
    <3>6. QED
      BY <3>3, <3>4, <3>5 DEF Followed
  <2>10. QED
    BY <2>5, <2>7, <2>8, <2>9 DEF Answer
<1>6. QED
  BY <1>1, <1>4, <1>5

\* RSM1: what the last packet of a frame does after the others' part, w.
Ends(sp, seq, w, r) ==
  /\ r.d.split = sp
  /\ maxSeq(sp) # seq => r.cloud.frames = w.cloud.frames /\ r.delivered = w.delivered
  /\ maxSeq(sp) = seq =>
       \/ r.cloud.frames = w.cloud.frames /\ r.delivered = w.delivered
       \/ r.cloud.frames = {} /\ r.delivered \subseteq w.delivered \cup w.cloud.frames

\* RSM1: a packet of the frame the cloud holds, behind the newest one of it.
LEMMA EndedOn ==
  ASSUME NEW t \in States, NEW r, NEW w, NEW p, NEW b, ~ b, NEW G \in Int, p.frame = G,
         NEW c \in Int, NEW e \in Int, c < e, e # 0, Ended(G, c, t), Cut(t, w, p, b),
         NEW sp \in SeqSplits, sp.looped = t.d.split.looped, sp.max >= e,
         t.d.split.looped => e <= t.d.split.max, Ends(sp, e, w, r)
  PROVE  Ended(G, e, r)
<1>1. G \notin t.delivered
  BY DEF Ended
<1>2. w.delivered = t.delivered /\ w.cloud.frames \subseteq {G}
  BY DEF Cut, Own, Ended
<1>3. \A f \in t.delivered : f <= G
  BY DEF Ended
<1>4. CASE r.cloud.frames = w.cloud.frames /\ r.delivered = w.delivered
  BY <1>1, <1>2, <1>3, <1>4 DEF Ended, Ends
<1>5. CASE /\ r.cloud.frames = {} /\ r.delivered \subseteq w.delivered \cup w.cloud.frames
           /\ maxSeq(sp) = e
  <2>1. sp.looped /\ sp.max = e
    BY <1>5 DEF maxSeq
  <2>2. r.d.split = sp
    BY DEF Ends
  <2>3. \A f \in r.delivered : f <= G
    BY <1>2, <1>3, <1>5
  <2>4. QED
    BY <1>5, <2>1, <2>2, <2>3 DEF Ended
<1>6. QED
  BY <1>4, <1>5 DEF Ends
\* RSM1: the first packet of the next frame that comes.
LEMMA EndedNext ==
  ASSUME NEW t \in States, NEW r, NEW w, NEW F \in Int, NEW G \in Int, G = F + 1,
         NEW c \in Int, NEW e \in Int, e < c, e # 0, Ended(F, c, t),
         w.delivered \subseteq t.delivered \cup t.cloud.frames, w.cloud.frames \subseteq {G},
         NEW sp \in SeqSplits, sp.max >= c, Ends(sp, e, w, r)
  PROVE  Ended(G, e, r)
<1>1. w.delivered \subseteq t.delivered \cup t.cloud.frames /\ w.cloud.frames \subseteq {G}
  OBVIOUS
<1>2. maxSeq(sp) # e
  BY DEF maxSeq, SeqSplits
<1>3. r.cloud.frames = w.cloud.frames /\ r.delivered = w.delivered /\ r.d.split = sp
  BY <1>2 DEF Ends
<1>4. \A f \in r.delivered : f <= F
  BY <1>1, <1>3 DEF Ended
<1>5. t.delivered \subseteq Nat
  BY DEF States
<1>6. \A f \in r.delivered : f <= G /\ f # G
  <2>1. t.cloud.frames \subseteq {F}
    BY DEF Ended
  <2>2. \A f \in r.delivered : f \in Int
    BY <1>1, <1>3, <1>5, <2>1
  <2>3. QED
    BY <1>4, <2>2
<1>7. sp.max >= e
  BY DEF SeqSplits
<1>8. QED
  BY <1>1, <1>3, <1>6, <1>7 DEF Ended
\* RSM1: a packet that others have overtaken.
LEMMA EndedStill ==
  ASSUME NEW t \in States, NEW r, NEW w, NEW p, NEW b, ~ b, NEW F \in Int,
         NEW c \in Int, NEW e \in Int, e # 0, Ended(F, c, t), Cut(t, w, p, b),
         p.late \/ (p.frame = F /\ F \notin t.delivered),
         NEW sp \in SeqSplits, sp.looped = t.d.split.looped, sp.max >= t.d.split.max,
         t.d.split.looped => sp.max = t.d.split.max, t.d.split.max \in Int,
         maxSeq(sp) # e, Ends(sp, e, w, r)
  PROVE  Ended(F, c, r)
<1>1. r.cloud.frames = w.cloud.frames /\ r.delivered = w.delivered /\ r.d.split = sp
  BY DEF Ends
<1>2. w.delivered = t.delivered /\ w.cloud.frames \subseteq t.cloud.frames \cup Own(p)
  BY DEF Cut
<1>3. Own(p) \subseteq {F} /\ (F \in t.delivered => Own(p) = {})
  BY DEF Own, Ended
<1>4. sp.max >= c
  BY DEF Ended, SeqSplits
<1>5. F \in r.delivered => r.cloud.frames = {} /\ sp.looped /\ sp.max = c
  BY <1>1, <1>2, <1>3 DEF Ended
<1>6. r.cloud.frames \subseteq {F} /\ \A f \in r.delivered : f <= F
  BY <1>1, <1>2, <1>3 DEF Ended
<1>7. QED
  BY <1>1, <1>4, <1>5, <1>6 DEF Ended

LEMMA RSM1Follows ==
  ASSUME NEW l \in SeqLidars, l.type = "RSM1", NEW t, NEW i, Before(l, i, t),
         l.newest >= 0 => i - l.newest <= RANGE, NEW p, Numbers(l, t.d, i, p),
         t.d.split.looped => p.seq <= t.d.split.max /\ ~ (p.late /\ p.seq = t.d.split.max),
         NEW new, new = newPacket(t.d.split, p.seq), NEW w, Cut(t, w, p, new.split),
         NEW r, Ends(new.state, p.seq, w, r)
  PROVE  Followed(l, i, r)
<1> DEFINE m == l.newest
           F == FrameOf(l, m)
           G == FrameOf(l, i)
           c == NumberOf(l, m)
           e == NumberOf(l, i)
           sp == new.state
           b == new.split
           old == t.d.split
<1>1. i \in Nat /\ t \in States /\ m \in Int /\ l.type # "RSM1_JUMBO" /\ Less(l.type) = 0
      /\ old \in SeqSplits
  BY DEF Before, SeqLidars, Less, SeqDecoder
<1>2. e \in 1 .. l.frame_len /\ G \in Nat /\ l.frame_len \in Nat /\ p.seq = e /\ p.frame = G
  BY <1>1, NumbersTyped DEF Numbers
<1>3. new = newPacket(old, e) /\ e \in Nat
  BY <1>1, <1>2
<1>4. sp \in SeqSplits /\ b \in BOOLEAN /\ sp.max = IF e > old.max THEN e ELSE old.max
  BY <1>1, <1>3, NewPacketAnswers
<1>5. Cut(t, w, p, b) /\ Ends(sp, e, w, r) /\ r.d.split = sp
  BY <1>2 DEF Ends
<1>6. old.looped => e <= old.max /\ ~ (p.late /\ e = old.max)
  BY <1>2
<1>7. old.max \in Nat
  BY <1>1 DEF SeqSplits
<1>8. CASE m < 0
  <2> HIDE DEF e, old
  <2>1. ~ new.split /\ new.state.prev = e /\ ~ new.state.looped /\ new.state.max >= e
    BY <1>3, <1>8, FirstAnswered DEF old
  <2>2. t.cloud.frames = {} /\ t.delivered = {}
    BY <1>8 DEF Before, FramesApart
  <2>3. w.cloud.frames \subseteq {G} /\ w.delivered = {}
    BY <1>2, <1>5, <2>1, <2>2 DEF Cut, Own
  <2>4. maxSeq(sp) # e
    BY <1>2, <2>1 DEF maxSeq
  <2>5. Ended(G, e, r)
    BY <1>5, <2>1, <2>3, <2>4 DEF Ended, Ends
  <2>6. Newest(l, i) = i
    BY <1>1, <1>8 DEF Newest
  <2>7. Tracks(l, i, r.d.split) /\ FramesApart(l, i, r)
    BY <1>1, <1>2, <1>5, <2>1, <2>5 DEF Tracks, FramesApart, e
  <2>8. QED
    BY <2>6, <2>7 DEF Followed
<1>9. CASE m >= 0
  <2>1. Answers(l, i, 0, t.d.split)
    BY <1>1, <1>9, Answered
  <2>2. c \in 1 .. l.frame_len /\ F \in Nat
    BY <1>1, <1>9, NumbersTyped
  <2>3. old.prev = c /\ Ended(F, c, t)
    BY <1>1, <1>9, <2>2 DEF Before, Tracks, FramesApart
  <2>4. Late(l, t.d, i) <=> p.late
    BY DEF Numbers
  <2>5. Answer(m, i, 0, old, F, G, c, e, new)
    <3>1. e - 0 = e
      BY <1>3
    <3>2. Answer(m, i, 0, old, F, G, c, e, newPacket(old, e - 0))
      BY Zenon, <2>1 DEF Answers
    <3>3. QED
      BY <1>3, <3>1, <3>2
  <2>6. F > G => Late(l, t.d, i)
    BY DEF Late
  <2>7. F = G /\ m > i /\ c = old.max => Late(l, t.d, i)
    BY DEF Late
  <2>8. old.max >= c
    BY <2>3 DEF Ended
  <2>9. new.split = b /\ new.state = sp
    OBVIOUS
  <2> HIDE DEF F, G, c, e, sp, b, old
  <2>10. CASE i > m /\ G = F /\ ~ b /\ sp.prev = e /\ sp.looped = old.looped /\ e > c
    <3>1. sp.max >= e
      BY <1>2, <1>4, <1>7
    <3>2. Ended(G, e, r)
      <4>1. sp.looped = t.d.split.looped /\ (t.d.split.looped => e <= t.d.split.max)
        BY <1>6, <2>10 DEF old
      <4>2. G \in Int /\ c \in Int /\ e \in Int /\ c < e /\ e # 0 /\ p.frame = G /\ Ended(G, c, t)
        BY <1>2, <2>2, <2>3, <2>10
      <4>3. ~ b
        BY <2>10
      <4>4. QED
        BY <1>1, <1>4, <1>5, <3>1, <4>1, <4>2, <4>3, EndedOn
    <3>3. Newest(l, i) = i
      BY <2>10 DEF Newest, m
    <3>4. Tracks(l, i, r.d.split) /\ FramesApart(l, i, r)
      BY <1>1, <1>2, <1>5, <2>10, <3>2 DEF Tracks, FramesApart, G, e
    <3>5. QED
      BY <3>3, <3>4 DEF Followed
  <2>11. CASE i > m /\ G = F + 1 /\ b /\ sp.prev = e /\ sp.looped /\ e < c
    <3>1. sp.max >= c
      BY <1>2, <1>4, <1>7, <2>2, <2>8
    <3>2. Ended(G, e, r)
      <4>1. /\ F \in Int /\ G \in Int /\ c \in Int /\ e \in Int /\ e < c /\ e # 0 /\ p.frame = G
            /\ Ended(F, c, t) /\ G = F + 1
        BY <1>2, <2>2, <2>3, <2>11
      <4>2. w.delivered \subseteq t.delivered \cup t.cloud.frames /\ w.cloud.frames \subseteq {G}
        BY <1>2, <1>5, <2>11 DEF Cut, Own
      <4>3. QED
        BY <1>1, <1>4, <1>5, <3>1, <4>1, <4>2, EndedNext
    <3>3. Newest(l, i) = i
      BY <2>11 DEF Newest, m
    <3>4. Tracks(l, i, r.d.split) /\ FramesApart(l, i, r)
      BY <1>1, <1>2, <1>5, <2>11, <3>2 DEF Tracks, FramesApart, G, e
    <3>5. QED
      BY <3>3, <3>4 DEF Followed
  <2>12. CASE /\ i < m /\ ~ b /\ sp.prev = old.prev /\ sp.looped = old.looped
              /\ (G = F /\ e < c) \/ (G + 1 = F /\ e > c)
    <3>1. p.late \/ (p.frame = F /\ F \notin t.delivered)
      <4>1. CASE G + 1 = F
        BY <1>2, <2>2, <2>4, <2>6, <4>1
      <4>2. CASE G = F
        <5>1. F \in t.delivered => c = old.max
          BY <2>3 DEF Ended, old
        <5>2. QED
          BY <1>2, <2>4, <2>7, <2>12, <4>2, <5>1
      <4>3. QED
        BY <2>12, <4>1, <4>2
    <3>2. old.looped => e < old.max
      <4>1. CASE G + 1 = F
        <5>1. p.late
          BY <1>2, <2>2, <2>4, <2>6, <4>1
        <5>2. QED
          BY <1>2, <1>6, <1>7, <5>1
      <4>2. CASE G = F /\ e < c
        BY <1>2, <1>7, <2>2, <2>8, <4>2
      <4>3. QED
        BY <2>12, <4>1, <4>2
    <3>3. maxSeq(sp) # e
      <4>1. sp.looped => sp.max # e
        BY <1>2, <1>4, <1>7, <2>12, <3>2
      <4>2. QED
        BY <1>2, <4>1 DEF maxSeq
    <3>4. sp.max >= old.max /\ (old.looped => sp.max = old.max)
      BY <1>2, <1>4, <1>7, <3>2
    <3>5. Ended(F, c, r)
      <4>1. /\ F \in Int /\ c \in Int /\ e \in Int /\ e # 0 /\ Ended(F, c, t)
            /\ sp.looped = t.d.split.looped /\ sp.max >= t.d.split.max
            /\ (t.d.split.looped => sp.max = t.d.split.max) /\ t.d.split.max \in Int
        BY <1>2, <1>7, <2>2, <2>3, <2>12, <3>4 DEF old
      <4>2. ~ b
        BY <2>12
      <4>3. QED
        BY <1>1, <1>4, <1>5, <3>1, <3>3, <4>1, <4>2, EndedStill
    <3>6. Newest(l, i) = m
      BY <1>1, <2>12 DEF Newest, m
    <3>7. Tracks(l, m, r.d.split)
      BY <1>1, <1>5, <1>9, <2>2, <2>3, <2>12 DEF Tracks, c
    <3>8. FramesApart(l, m, r)
      BY <1>1, <1>9, <3>5 DEF FramesApart, F, c
    <3>9. QED
      BY <3>6, <3>7, <3>8 DEF Followed
  <2>13. e - 0 = e
    BY <1>3
  <2>14. QED
    BY <2>5, <2>9, <2>10, <2>11, <2>12, <2>13 DEF Answer
<1>10. QED
  BY <1>1, <1>8, <1>9

\* Jumbo datagrams, which arrive in order, at most a frame's worth apart, and
\* two apart only when the one before them came whole.
LEMMA JumboFollows ==
  ASSUME NEW l \in SeqLidars, l.type = "RSM1_JUMBO", NEW t, NEW i, Before(l, i, t),
         l.newest >= 0 => /\ i > l.newest /\ i - l.newest <= 3
                          /\ i - l.newest > 1 => t.d.split.prev = NumberOf(l, l.newest) * PACKET_NUM,
         NEW p, Numbers(l, t.d, i, p), p.len = RSM1_JUMBO_Packets.msop,
         NEW r, r = decodeMsopPkt(t, p)
  PROVE  Followed(l, i, r)
<1> DEFINE m == l.newest
           F == FrameOf(l, m)
           G == FrameOf(l, i)
           c == NumberOf(l, m)
           e == NumberOf(l, i)
           sp == t.d.split
           first == (p.seq - 1) * PACKET_NUM
           new == newPacket(sp, first + 1)
           b == new.split
<1>1. i \in Nat /\ t \in States /\ m \in Int /\ SeqDecoder(t.d) /\ sp \in SeqSplits
      /\ SeqPacket(p) /\ t.d.type = "RSM1_JUMBO" /\ l.frame_len = 3
  BY DEF Before, SeqLidars, SeqDecoder, Numbers, LenOf
<1>2. e \in 1 .. 3 /\ G \in Nat /\ p.seq = e /\ p.frame = G
  BY <1>1, NumbersTyped DEF Numbers
<1>3. /\ \A x \in Nat : x <= 200 /\ x = (p.seq - 1) * PACKET_NUM =>
           /\ \A y : y = newPacket(t.d.split, x + 1) /\ y.state.prev = x + 1 =>
                r.d.split.prev = x + PACKET_NUM /\ Cut(t, r, p, y.split)
           /\ t.d.split.prev # 0 /\ t.d.split.prev + RANGE < x + 1 =>
                r.d.split.prev = t.d.split.prev /\ Joins(t, r, p)
  BY <1>1, JumboMsop
<1>4. first \in Nat /\ first <= 200 /\ first = (p.seq - 1) * PACKET_NUM /\ first + PACKET_NUM = PACKET_NUM * e
  BY <1>2 DEF PACKET_NUM
<1>5. new = newPacket(sp, first + 1)
  OBVIOUS
<1> HIDE DEF first, new
<1>6. new.state.prev = first + 1 => r.d.split.prev = PACKET_NUM * e /\ Cut(t, r, p, b)
  BY <1>3, <1>4, <1>5
<1>7. sp.prev # 0 /\ sp.prev + RANGE < first + 1 => r.d.split.prev = sp.prev /\ Joins(t, r, p)
  BY <1>3, <1>4
<1>8. Newest(l, i) = i
  BY <1>1 DEF Newest
<1>9. ASSUME r.d.split.prev = PACKET_NUM * e \/ (e = 3 /\ r.d.split.prev = PACKET_NUM), OneFrame(G, r)
      PROVE  Followed(l, i, r)
  <2>1. Tracks(l, i, r.d.split) /\ FramesApart(l, i, r)
    BY <1>1, <1>9 DEF Tracks, FramesApart
  <2>2. QED
    BY <1>8, <2>1 DEF Followed
<1>10. CASE m < 0
  <2>1. ~ b /\ new.state.prev = first + 1
    <3> DEFINE seq == first + 1
    <3>1. seq \in Nat /\ new = newPacket(t.d.split, seq)
      BY <1>4, <1>5
    <3> HIDE DEF seq
    <3>2. ~ new.split /\ new.state.prev = seq
      BY <1>10, <3>1, FirstAnswered
    <3>3. QED
      BY <3>2 DEF seq
  <2>2. t.cloud.frames = {} /\ t.delivered = {}
    BY <1>10 DEF Before, FramesApart
  <2>3. Cut(t, r, p, b)
    BY <1>6, <2>1
  <2> HIDE DEF b, G
  <2>4. OneFrame(G, r)
    BY <1>2, <2>1, <2>2, <2>3, FramesBegin
  <2>5. r.d.split.prev = PACKET_NUM * e
    BY <1>6, <2>1
  <2>6. QED
    BY <1>9, <2>4, <2>5
<1>11. CASE m >= 0
  <2>12. m \in Nat /\ i > m /\ i - m <= 3 /\ l.frame_len = 3
    BY <1>1, <1>11
  <2>13. c \in 1 .. l.frame_len /\ F \in Nat
    BY Zenon, <2>12, NumbersTyped
  <2>1. m \in Nat /\ i > m /\ i - m <= 3 /\ c \in 1 .. 3 /\ F \in Nat
    BY <2>12, <2>13
  <2>2. OneFrame(F, t) /\ (sp.prev = PACKET_NUM * c \/ (c = 3 /\ sp.prev = PACKET_NUM))
    BY <1>1, <1>11 DEF Before, Tracks, FramesApart
  <2>3. i - m > 1 => sp.prev = c * PACKET_NUM
    BY <1>11
  <2>4. /\ F = m \div 3 /\ G = i \div 3 /\ c = (m % 3) + 1 /\ e = (i % 3) + 1
    BY <1>1 DEF FrameOf, NumberOf
  <2>5. JumboNear(m, i, sp)
    <3>1. /\ \/ sp.prev = PACKET_NUM * ((m % 3) + 1)
             \/ (m % 3) + 1 = 3 /\ sp.prev = PACKET_NUM
          /\ i - m > 1 => sp.prev = ((m % 3) + 1) * PACKET_NUM
      BY <2>2, <2>3, <2>4
    <3> HIDE DEF m, sp
    <3>2. QED
      BY <1>1, <2>1, <3>1, JumboNearby
  <2>6. JumboAnswer(F, G, c, e, (e - 1) * PACKET_NUM, sp, newPacket(sp, (e - 1) * PACKET_NUM + 1))
    BY <2>4, <2>5 DEF JumboNear
  <2>7. first = (e - 1) * PACKET_NUM /\ new = newPacket(sp, (e - 1) * PACKET_NUM + 1)
    BY <1>2, <1>4, <1>5
  <2>8. JumboAnswer(F, G, c, e, first, sp, new)
    BY <2>6, <2>7
  <2> HIDE DEF F, G, c, e, sp, b, m
  <2>9. CASE G = F /\ ~ new.split /\ new.state.prev = first + 1
    <3>1. Cut(t, r, p, b) /\ ~ b
      BY <1>6, <2>9 DEF b
    <3>2. OneFrame(F, r)
      BY <1>1, <1>2, <2>1, <2>2, <2>9, <3>1, FramesFollow
    <3>3. r.d.split.prev = PACKET_NUM * e
      BY <1>6, <2>9
    <3>4. QED
      BY <1>9, <2>9, <3>2, <3>3
  <2>10. CASE G = F /\ sp.prev # 0 /\ sp.prev + RANGE < first + 1 /\ e = 3 /\ sp.prev = PACKET_NUM
    <3>1. r.d.split.prev = PACKET_NUM /\ Joins(t, r, p)
      BY <1>7, <2>10
    <3>2. OneFrame(F, r)
      BY <1>2, <2>2, <2>10, <3>1 DEF Joins, Own, OneFrame
    <3>3. QED
      BY <1>9, <2>10, <3>1, <3>2
  <2>11. CASE G = F + 1 /\ new.split /\ new.state.prev = first + 1
    <3>1. Cut(t, r, p, b) /\ b
      BY <1>6, <2>11 DEF b
    <3>2. F \in Int /\ G \in Int /\ t \in States /\ p.frame = G /\ OneFrame(F, t) /\ G = F + 1
      BY <1>1, <1>2, <2>1, <2>2, <2>11
    <3>3. G = F + 1 => OneFrame(G, r)
      BY Zenon, <3>1, <3>2, FramesFollow
    <3>4. r.d.split.prev = PACKET_NUM * e
      BY <1>6, <2>11
    <3>5. QED
      BY <1>9, <3>2, <3>3, <3>4
  <2>16. QED
    BY <2>8, <2>9, <2>10, <2>11 DEF JumboAnswer
<1>12. QED
  BY <1>1, <1>10, <1>11

\* What the split can cope with, for each type.
LEMMA Settled ==
  ASSUME NEW l \in SeqLidars, NEW d, d.type = l.type, NEW i \in Nat, NEW p, ~ Unsettles(l, d, p, i)
  PROVE  /\ l.type = "RSM1_JUMBO" /\ l.newest >= 0 /\ i # l.newest =>
              /\ i > l.newest /\ i - l.newest <= 3
              /\ i - l.newest > 1 => d.split.prev = NumberOf(l, l.newest) * PACKET_NUM
         /\ l.type # "RSM1_JUMBO" /\ l.newest >= 0 => i - l.newest <= RANGE
         /\ l.type = "RSEMX" => ~ (p.late /\ d.split.prev = 0)
         /\ l.type = "RSM1" /\ d.split.looped =>
              ~ (p.seq > d.split.max) /\ ~ (p.late /\ p.seq = d.split.max)
<1>1. l.newest \in Int /\ (l.type = "RSM1_JUMBO" => l.frame_len = 3)
  BY DEF SeqLidars, LenOf
<1> DEFINE gap == IF l.newest < 0 THEN 1 ELSE i - l.newest
           n == NumberOf(l, l.newest) * PACKET_NUM
<1>2. CASE l.type = "RSM1_JUMBO"
  <2>1. ~ (gap < 0) /\ ~ (gap > l.frame_len) /\ ~ (gap > 1 /\ d.split.prev # n)
    BY SMT, <1>2 DEF Unsettles
  <2> HIDE DEF n
  <2>2. l.newest >= 0 => gap = i - l.newest
    BY <1>1
  <2> HIDE DEF gap
  <2>3. l.newest >= 0 /\ i # l.newest =>
              i > l.newest /\ i - l.newest <= 3 /\ (i - l.newest > 1 => d.split.prev = n)
    BY <1>1, <1>2, <2>1, <2>2
  <2>4. QED
    BY <1>2, <2>3 DEF n
<1>3. CASE l.type = "RSEMX"
  <2>1. ~ (gap > RANGE) /\ ~ (p.late /\ d.split.prev = 0)
    BY SMT, <1>3 DEF Unsettles
  <2>2. l.newest >= 0 => i - l.newest <= RANGE
    BY <1>1, <2>1 DEF RANGE
  <2>3. QED
    BY <1>3, <2>1, <2>2
<1>4. CASE l.type = "RSM1"
  <2>1. ~ (gap > RANGE) /\ ~ (d.split.looped /\ p.seq > d.split.max)
        /\ ~ (d.split.looped /\ p.late /\ p.seq = d.split.max)
    BY SMT, <1>4 DEF Unsettles
  <2>2. l.newest >= 0 => i - l.newest <= RANGE
    BY <1>1, <2>1 DEF RANGE
  <2>3. QED
    BY <1>4, <2>1, <2>2
<1>5. CASE l.type \notin {"RSM1_JUMBO", "RSEMX", "RSM1"}
  <2>1. ~ (gap > RANGE)
    BY SMT, <1>5 DEF Unsettles
  <2>2. l.newest >= 0 => i - l.newest <= RANGE
    BY <1>1, <2>1 DEF RANGE
  <2>3. QED
    BY <1>5, <2>2
<1>6. QED
  BY <1>2, <1>3, <1>4, <1>5

\* A packet of points leaves a decoder in its type.
LEMMA SeqMsopTyped ==
  ASSUME NEW t \in States, SeqDecoder(t.d), NEW p, SeqPacket(p), p.len = t.d.const.MSOP_LEN,
         NEW r, r = decodeMsopPkt(t, p)
  PROVE  SeqDecoded(t, r, p)
<1> DEFINE u == [t EXCEPT !.ret = FALSE]
           seq == p.seq
           before == p.seq - 1
           offset == p.offset
<1>1. seq \in Nat /\ before \in Nat /\ offset \in Nat
  BY DEF SeqPacket
<1>2. u \in States /\ u.d = t.d /\ u.cloud = t.cloud /\ u.delivered = t.delivered /\ u.imus = t.imus
  BY Quiet
<1>3. SeqDecoded(t, u, p)
  <2> HIDE DEF u
  <2>1. SameSettings(t.d, u.d)
    BY <1>2 DEF SameSettings
  <2>2. QED
    BY <1>2, <2>1 DEF SeqDecoded
<1>4. u = [t EXCEPT !.ret = FALSE]
  OBVIOUS
<1> HIDE DEF u, seq, before, offset
<1>5. \A per \in Nat : SeqDecoded(t, decodePacket(u, p, seq, per, offset), p)
  <2> TAKE per \in Nat
  <2> DEFINE new == newPacket(t.d.split, seq)
             w == decodePacket(u, p, seq, per, offset)
  <2>1. new = newPacket(t.d.split, seq) /\ w = decodePacket(u, p, seq, per, offset)
    OBVIOUS
  <2> HIDE DEF new, w
  <2>2. SeqDecoded(t, w, p)
    <3>1. OneMore(t, w, p, new)
      BY Zenon, <1>1, <1>4, <2>1, OnePacket
    <3>2. QED
      BY Zenon, <3>1 DEF OneMore
  <2>3. QED
    BY <2>2 DEF w
<1>6. SeqDecoded(t, decodePacket(u, p, before, 1, 0), p)
  <2> DEFINE new == newPacket(t.d.split, before)
             w == decodePacket(u, p, before, 1, 0)
  <2>1. new = newPacket(t.d.split, before) /\ w = decodePacket(u, p, before, 1, 0)
        /\ 1 \in Nat /\ 0 \in Nat
    OBVIOUS
  <2> HIDE DEF new, w
  <2>2. SeqDecoded(t, w, p)
    <3>1. OneMore(t, w, p, new)
      BY Zenon, <1>1, <1>4, <2>1, OnePacket
    <3>2. QED
      BY Zenon, <3>1 DEF OneMore
  <2>3. QED
    BY <2>2 DEF w
<1>7. CASE t.d.type \in SimpleTypes
  <2>1. PICK per \in {1, 2} :
          decodeMsopPkt(t, p) = decodePacket([t EXCEPT !.ret = FALSE], p, p.seq, per, p.offset)
    BY <1>7, SimpleMsop
  <2>2. r = decodePacket(u, p, seq, per, offset)
    BY Zenon, <2>1 DEF u, seq, offset
  <2>3. per \in Nat
    OBVIOUS
  <2>4. QED
    BY Zenon, <1>5, <2>2, <2>3
<1>8. CASE t.d.type = "RSM1"
  <2> DEFINE new == newPacket(t.d.split, p.seq)
  <2>1. new = newPacket(t.d.split, p.seq)
    OBVIOUS
  <2> HIDE DEF new
  <2>2. QED
    BY <1>8, <2>1, RSM1Msop
<1>9. CASE t.d.type = "RSEMX"
  <2>1. r = IF p.surface >= EMX_SURFACE_NUM THEN u ELSE decodePacket(u, p, before, 1, 0)
    BY <1>9, RSEMXMsop DEF u, before
  <2>2. QED
    BY <1>3, <1>6, <2>1
<1>10. CASE t.d.type = "RSM1_JUMBO"
  <2>1. p.len = RSM1_JUMBO_Packets.msop
    BY <1>10 DEF SeqDecoder
  <2>2. QED
    BY <1>10, <2>1, JumboMsop
<1>11. t.d.type \in SeqTypes
  BY DEF SeqDecoder
<1>12. QED
  BY <1>7, <1>8, <1>9, <1>10, <1>11 DEF SeqTypes, SimpleTypes

\* What decodePacket does, from a state whose ret is reset.
Stepped(t, p, seq, per, offset) ==
  LET new == newPacket(t.d.split, seq)
      r == decodePacket([t EXCEPT !.ret = FALSE], p, seq, per, offset)
  IN r.d.split = new.state /\ Cut(t, r, p, new.split)
LEMMA OneStep ==
  ASSUME NEW t \in States, SeqDecoder(t.d), NEW p, SeqPacket(p), NEW seq \in Nat, NEW per \in Nat,
         NEW offset \in Nat
  PROVE  Stepped(t, p, seq, per, offset)
<1> DEFINE new == newPacket(t.d.split, seq)
           u == [t EXCEPT !.ret = FALSE]
           r == decodePacket(u, p, seq, per, offset)
<1>1. new = newPacket(t.d.split, seq) /\ u = [t EXCEPT !.ret = FALSE]
      /\ r = decodePacket(u, p, seq, per, offset)
  OBVIOUS
<1> HIDE DEF new, u, r
<1>2. r.d.split = new.state /\ Cut(t, r, p, new.split)
  <2>1. OneMore(t, r, p, new)
    BY Zenon, <1>1, OnePacket
  <2>2. QED
    BY Zenon, <2>1 DEF OneMore
<1>3. QED
  BY Zenon, <1>2 DEF Stepped, new, u, r

\* A packet of points that is decoded and that the split can cope with.
LEMMA SeqMsopFollows ==
  ASSUME NEW l \in SeqLidars, NEW t, NEW i, Before(l, i, t), NEW p, Numbers(l, t.d, i, p),
         p.len = t.d.const.MSOP_LEN, p.surface = 0,
         NEW d, d.type = l.type, d.split = t.d.split, ~ Unsettles(l, d, p, i),
         NEW r, r = decodeMsopPkt(t, p)
  PROVE  Followed(l, i, r)
<1> DEFINE u == [t EXCEPT !.ret = FALSE]
           seq == p.seq - Less(l.type)
           new == newPacket(t.d.split, seq)
<1>1. /\ i \in Nat /\ i # l.newest /\ t \in States /\ SeqDecoder(t.d) /\ t.d.type = l.type
      /\ SeqPacket(p) /\ l.type \in SeqTypes
  BY DEF Before, Numbers, SeqLidars
<1>3. /\ l.type = "RSM1_JUMBO" /\ l.newest >= 0 /\ i # l.newest =>
           /\ i > l.newest /\ i - l.newest <= 3
           /\ i - l.newest > 1 => d.split.prev = NumberOf(l, l.newest) * PACKET_NUM
      /\ l.type # "RSM1_JUMBO" /\ l.newest >= 0 => i - l.newest <= RANGE
      /\ l.type = "RSEMX" => ~ (p.late /\ d.split.prev = 0)
      /\ l.type = "RSM1" /\ d.split.looped =>
           ~ (p.seq > d.split.max) /\ ~ (p.late /\ p.seq = d.split.max)
  BY <1>1, Settled
<1>4. seq \in Nat /\ p.seq \in Nat \ {0} /\ new = newPacket(t.d.split, seq)
  BY <1>1 DEF SeqPacket, Less
<1>5. u = [t EXCEPT !.ret = FALSE]
  OBVIOUS
<1> HIDE DEF u, seq, new
<1>6. ASSUME NEW per \in Nat, NEW offset \in Nat, r = decodePacket(u, p, seq, per, offset),
             l.type \notin {"RSM1_JUMBO", "RSM1"}
      PROVE  Followed(l, i, r)
  <2>1. r.d.split = new.state /\ Cut(t, r, p, new.split)
    <3>1. Stepped(t, p, seq, per, offset)
      BY <1>1, <1>4, <1>6, OneStep
    <3>2. QED
      BY Zenon, <1>4, <1>5, <1>6, <3>1 DEF Stepped
  <2>2. l.newest >= 0 => i - l.newest <= RANGE
    BY <1>3, <1>6
  <2>3. l.newest >= 0 => (l.type = "RSEMX" => ~ (p.late /\ t.d.split.prev = 0))
    BY <1>3
  <2>4. new = newPacket(t.d.split, p.seq - Less(l.type))
    BY <1>4 DEF seq
  <2>5. l.type \notin {"RSM1_JUMBO", "RSM1"}
    BY <1>6
  <2>6. QED
    BY Zenon, <2>1, <2>2, <2>3, <2>4, <2>5, PlainFollows
<1>7. CASE l.type \in SimpleTypes
  <2>1. PICK per \in {1, 2} :
          decodeMsopPkt(t, p) = decodePacket([t EXCEPT !.ret = FALSE], p, p.seq, per, p.offset)
    BY <1>1, <1>7, SimpleMsop
  <2>2. seq = p.seq
    BY <1>4, <1>7 DEF seq, Less, SimpleTypes
  <2> DEFINE offset == p.offset
  <2>3. offset \in Nat /\ per \in Nat
    BY <1>1 DEF SeqPacket
  <2>4. r = decodePacket(u, p, seq, per, offset)
    BY Zenon, <2>1, <2>2 DEF u
  <2> HIDE DEF offset
  <2>5. l.type \notin {"RSM1_JUMBO", "RSM1"}
    BY <1>7 DEF SimpleTypes
  <2>6. QED
    BY Zenon, <1>6, <2>3, <2>4, <2>5
<1>8. CASE l.type = "RSEMX"
  <2>1. r = IF p.surface >= EMX_SURFACE_NUM THEN u ELSE decodePacket(u, p, p.seq - 1, 1, 0)
    BY <1>1, <1>8, RSEMXMsop DEF u
  <2>2. ~ (p.surface >= EMX_SURFACE_NUM)
    BY DEF EMX_SURFACE_NUM
  <2>3. seq = p.seq - 1
    BY <1>8 DEF seq, Less
  <2>4. r = decodePacket(u, p, seq, 1, 0) /\ 1 \in Nat /\ 0 \in Nat
    BY <2>1, <2>2, <2>3
  <2>5. l.type \notin {"RSM1_JUMBO", "RSM1"}
    BY <1>8
  <2>6. QED
    BY Zenon, <1>6, <2>4, <2>5
<1>9. CASE l.type = "RSM1"
  <2> DEFINE nw == newPacket(t.d.split, p.seq)
  <2>0. nw = newPacket(t.d.split, p.seq)
    OBVIOUS
  <2> HIDE DEF nw
  <2>1. PICK w : /\ r.d.split = nw.state /\ Cut(t, w, p, nw.split)
                 /\ maxSeq(r.d.split) # p.seq => r.cloud.frames = w.cloud.frames
                                                 /\ r.delivered = w.delivered
                 /\ maxSeq(r.d.split) = p.seq =>
                      \/ r.cloud.frames = w.cloud.frames /\ r.delivered = w.delivered
                      \/ r.cloud.frames = {} /\ r.delivered \subseteq w.delivered \cup w.cloud.frames
    BY <1>1, <1>9, <2>0, RSM1Msop
  <2>2. Ends(nw.state, p.seq, w, r)
    BY <2>1 DEF Ends
  <2>3. t.d.split.looped => p.seq <= t.d.split.max /\ ~ (p.late /\ p.seq = t.d.split.max)
    <3>1. t.d.split.max \in Nat
      BY <1>1 DEF SeqDecoder, SeqSplits
    <3>2. t.d.split.looped => ~ (p.seq > t.d.split.max) /\ ~ (p.late /\ p.seq = t.d.split.max)
      BY <1>3, <1>9
    <3>3. QED
      BY <1>4, <3>1, <3>2
  <2>4. l.newest >= 0 => i - l.newest <= RANGE
    BY <1>3, <1>9
  <2>5. Cut(t, w, p, nw.split)
    BY <2>1
  <2>6. QED
    BY Zenon, <1>9, <2>0, <2>2, <2>3, <2>4, <2>5, RSM1Follows
<1>10. CASE l.type = "RSM1_JUMBO"
  <2>1. p.len = RSM1_JUMBO_Packets.msop
    BY <1>1, <1>10 DEF SeqDecoder
  <2>2. l.newest >= 0 => /\ i > l.newest /\ i - l.newest <= 3
                         /\ i - l.newest > 1 => t.d.split.prev = NumberOf(l, l.newest) * PACKET_NUM
    BY <1>1, <1>3, <1>10
  <2>3. QED
    BY Zenon, <1>10, <2>1, <2>2, JumboFollows
<1>11. QED
  BY <1>1, <1>7, <1>8, <1>9, <1>10 DEF SeqTypes, SimpleTypes

-----------------------------------------------------------------------------
(* Lidars that number their packets: a packet through the driver *)

\* What a packet may do to a state, of frame f if it has points.
Grew(t, r, f) ==
  /\ r \in States /\ SeqDecoder(r.d) /\ r.d.type = t.d.type
  /\ r.cloud.frames \subseteq t.cloud.frames \cup {f}
  /\ r.delivered \subseteq t.delivered \cup t.cloud.frames \cup {f}
\* A packet that adds no points.
Ignored(t, r) ==
  /\ r \in States /\ SeqDecoder(r.d) /\ r.d.type = t.d.type /\ r.d.split = t.d.split
  /\ r.delivered = t.delivered /\ r.cloud.frames \subseteq t.cloud.frames

LEMMA FramesIgnored ==
  ASSUME NEW l \in SeqLidars, NEW m, NEW t, NEW r, Ignored(t, r),
         Tracks(l, m, t.d.split), FramesApart(l, m, t)
  PROVE  Tracks(l, m, r.d.split) /\ FramesApart(l, m, r)
<1>1. r.d.split = t.d.split /\ r.delivered = t.delivered /\ r.cloud.frames \subseteq t.cloud.frames
  BY DEF Ignored
<1>2. Tracks(l, m, r.d.split)
  BY Zenon, <1>1
<1>3. CASE m < 0
  BY <1>1, <1>3 DEF FramesApart
<1>4. CASE ~ (m < 0) /\ l.type = "RSM1"
  <2>1. Ended(FrameOf(l, m), NumberOf(l, m), t)
    BY <1>4 DEF FramesApart
  <2>2. Ended(FrameOf(l, m), NumberOf(l, m), r)
    BY <1>1, <2>1 DEF Ended
  <2>3. QED
    BY <1>2, <1>4, <2>2 DEF FramesApart
<1>5. CASE ~ (m < 0) /\ l.type # "RSM1"
  <2>1. OneFrame(FrameOf(l, m), t)
    BY <1>5 DEF FramesApart
  <2>2. OneFrame(FrameOf(l, m), r)
    BY <1>1, <2>1 DEF OneFrame
  <2>3. QED
    BY <1>2, <1>5, <2>2 DEF FramesApart
<1>6. QED
  BY <1>2, <1>3, <1>4, <1>5

LEMMA SeqPreSplit ==
  ASSUME NEW t \in States, SeqDecoder(t.d), NEW p, p.kind = "msop" => p.seq \in Nat,
         NEW pre, pre = preSplit(t, p)
  PROVE  pre.pre \in SeqSplits /\ pre.new \in BOOLEAN
<1> DEFINE asks == PacedByFrames(t.d) /\ p.kind = "msop"
           x == t.d.pre
           y == t.ret
           keep == [pre |-> x, new |-> y]
           told == isNewFrame(t.d, p)
           new == newPacket(t.d.pre, p.seq)
           st == new.state
           b == new.split
<1>1. pre = IF asks THEN told ELSE keep
  BY Zenon DEF preSplit
<1>2. x \in SeqSplits /\ y \in BOOLEAN /\ t.d.type \in SeqTypes
  BY DEF SeqDecoder, States
<1>3. told = [pre |-> st, new |-> b]
  <2>1. told = isNewFrameCommon(t.d, p)
    BY SMT, <1>2 DEF isNewFrame, SeqTypes
  <2>2. QED
    BY Zenon, <2>1 DEF isNewFrameCommon
<1>4. p.kind = "msop" => st \in SeqSplits /\ b \in BOOLEAN
  BY <1>2, NewPacketTyped
<1>5. asks => p.kind = "msop"
  OBVIOUS
<1> HIDE DEF asks, x, y, keep, told, new, st, b
<1>6. told.pre = st /\ told.new = b
  BY <1>3
<1>7. keep.pre = x /\ keep.new = y
  BY DEF keep
<1>8. QED
  BY <1>1, <1>2, <1>4, <1>5, <1>6, <1>7

LEMMA SeqWithPre ==
  ASSUME NEW t \in States, SeqDecoder(t.d), NEW x \in SeqSplits, NEW u, u = WithPre(t, x)
  PROVE  /\ u \in States /\ SeqDecoder(u.d) /\ u.d.split = t.d.split /\ u.d.type = t.d.type
         /\ u.d.const = t.d.const /\ u.d.param = t.d.param /\ u.d.ready = t.d.ready
         /\ u.cloud = t.cloud /\ u.delivered = t.delivered /\ u.imus = t.imus /\ u.ret = t.ret
<1>1. x \in Splits /\ t.d \in Decoders
  BY DEF Splits, SeqDecoder
<1>2. /\ u \in States /\ u.d = [t.d EXCEPT !.pre = x] /\ u.cloud = t.cloud
      /\ u.delivered = t.delivered /\ u.imus = t.imus /\ u.ret = t.ret
  BY <1>1, PreOfState
<1> DEFINE e == u.d
           d == t.d
<1>3. d \in Decoders /\ e = [d EXCEPT !.pre = x]
  BY <1>1, <1>2
<1> HIDE DEF e
<1>4. /\ e \in Decoders /\ e.pre = x /\ e.split = d.split /\ e.type = d.type /\ e.const = d.const
      /\ e.param = d.param /\ e.echo = d.echo /\ e.ready = d.ready
      /\ e.split_blks = d.split_blks /\ e.packet_duration = d.packet_duration
      /\ e.model = d.model /\ e.init = d.init
  BY <1>1, <1>3, PreChanges
<1>5. SeqDecoder(e)
  BY <1>4 DEF SeqDecoder
<1>6. QED
  BY <1>2, <1>4, <1>5 DEF e

LEMMA SeqRefused ==
  ASSUME NEW t \in States, SeqDecoder(t.d), NEW r, r = [t EXCEPT !.ret = FALSE]
  PROVE  Ignored(t, r)
<1>1. r \in States /\ r.d = t.d /\ r.cloud = t.cloud /\ r.delivered = t.delivered /\ r.imus = t.imus
  BY Quiet
<1>2. QED
  BY <1>1 DEF Ignored

LEMMA IgnoredOn ==
  ASSUME NEW t, NEW u, Ignored(t, u), NEW r, Ignored(u, r)
  PROVE  Ignored(t, r)
BY DEF Ignored

LEMMA IgnoredGrows ==
  ASSUME NEW t, NEW r, Ignored(t, r), NEW f
  PROVE  Grew(t, r, f)
BY DEF Ignored, Grew

\* A packet of points: refused, of a surface that RSEMX does not have, or taken.
LEMMA SeqProcessMsop ==
  ASSUME NEW t \in States, SeqDecoder(t.d), NEW p, SeqPacket(p), NEW r, r = processMsopPkt(t, p)
  PROVE  /\ Grew(t, r, p.frame)
         /\ Refuses(t.d, p) \/ (t.d.type = "RSEMX" /\ p.surface >= EMX_SURFACE_NUM) => Ignored(t, r)
         /\ \E u : /\ Ignored(t, u)
                   /\ ~ Refuses(t.d, p) => r = decodeMsopPkt(u, p) /\ p.len = u.d.const.MSOP_LEN
<1> DEFINE u == Trimmed(t)
           v == [u EXCEPT !.ret = FALSE]
           w == decodeMsopPkt(u, p)
<1>1. u = Trimmed(t)
  OBVIOUS
<1> HIDE DEF u
<1>2. /\ u \in States /\ u.d = t.d /\ u.delivered = t.delivered /\ u.imus = t.imus
      /\ u.cloud.frames \subseteq t.cloud.frames
  BY <1>1, TrimmedTyped
<1>3. r = IF Refuses(u.d, p) THEN v ELSE w
  BY Zenon, <1>1, MsopCases
<1>4. SeqDecoder(u.d)
  BY <1>2
<1>5. Ignored(t, u)
  BY <1>2, <1>4 DEF Ignored
<1>6. Ignored(u, v)
  BY <1>2, <1>4, SeqRefused
<1>7. Ignored(t, v)
  BY <1>5, <1>6, IgnoredOn
<1>8. ~ Refuses(u.d, p) => p.len = u.d.const.MSOP_LEN
  BY DEF Refuses
<1>9. p.len = u.d.const.MSOP_LEN => SeqDecoded(u, w, p)
  BY <1>2, <1>4, SeqMsopTyped
<1>10. u.d.type = "RSEMX" /\ p.surface >= EMX_SURFACE_NUM => w = v
  BY RSEMXMsop
<1> HIDE DEF v, w
<1>11. SeqDecoded(u, w, p) => Grew(t, w, p.frame)
  BY <1>2 DEF SeqDecoded, Grew, SameSettings
<1>12. Grew(t, v, p.frame)
  BY <1>7, IgnoredGrows
<1>13. Grew(t, r, p.frame)
  BY <1>3, <1>8, <1>9, <1>11, <1>12
<1>14. Refuses(t.d, p) \/ (t.d.type = "RSEMX" /\ p.surface >= EMX_SURFACE_NUM) => r = v
  BY <1>2, <1>3, <1>10
<1>15. ~ Refuses(t.d, p) => r = decodeMsopPkt(u, p) /\ p.len = u.d.const.MSOP_LEN
  BY <1>2, <1>3, <1>8 DEF w
<1>16. \E x : /\ Ignored(t, x)
              /\ ~ Refuses(t.d, p) => r = decodeMsopPkt(x, p) /\ p.len = x.d.const.MSOP_LEN
  BY Zenon, <1>5, <1>15
<1>17. QED
  BY <1>7, <1>13, <1>14, <1>16

\* A DIFOP packet tells the returns, or RSEMX that it may begin.
LEMMA SeqDifopTuned ==
  ASSUME NEW d, SeqDecoder(d), NEW p, NEW e, e = decodeDifopPkt(d, p)
  PROVE  SeqDecoder(e) /\ e.type = d.type /\ e.split = d.split /\ e.pre = d.pre /\ e.param = d.param
<1>1. d \in Decoders /\ d.type \in SeqTypes
  BY DEF SeqDecoder
<1>2. ASSUME NEW x \in Echoes, NEW y, y = [d EXCEPT !.echo = x]
      PROVE  SeqDecoder(y) /\ y.type = d.type /\ y.split = d.split /\ y.pre = d.pre /\ y.param = d.param
  <2>1. y \in Decoders
    BY <1>1, <1>2 DEF Decoders
  <2>2. y.type = d.type /\ y.split = d.split /\ y.pre = d.pre /\ y.const = d.const
        /\ y.packet_duration = d.packet_duration /\ y.param = d.param
    BY <1>1, <1>2 DEF Decoders
  <2>3. QED
    BY <2>1, <2>2 DEF SeqDecoder
<1>3. CASE d.type \in {"RSM1", "RSM2", "RSM1_JUMBO"}
  <2> DEFINE x == IF p.mode = 0 THEN "dual" ELSE "single"
  <2>1. x \in Echoes
    BY DEF Echoes
  <2>2. e = [d EXCEPT !.echo = x]
    <3>1. CASE d.type = "RSM1"
      <4>1. e = RSM1_decodeDifopPkt(d, p)
        BY SMT, <3>1 DEF decodeDifopPkt
      <4>2. QED
        BY Zenon, <4>1 DEF RSM1_decodeDifopPkt, RSM1_getEchoMode
    <3>2. CASE d.type = "RSM2"
      <4>1. e = RSM2_decodeDifopPkt(d, p)
        BY SMT, <3>2 DEF decodeDifopPkt
      <4>2. QED
        BY Zenon, <4>1 DEF RSM2_decodeDifopPkt, RSM2_getEchoMode
    <3>3. CASE d.type = "RSM1_JUMBO"
      <4>1. e = RSM1_JUMBO_decodeDifopPkt(d, p)
        BY SMT, <3>3 DEF decodeDifopPkt
      <4>2. QED
        BY Zenon, <4>1 DEF RSM1_JUMBO_decodeDifopPkt, RSM1_JUMBO_getEchoMode
    <3>4. QED
      BY <1>3, <3>1, <3>2, <3>3
  <2> HIDE DEF x
  <2>3. QED
    BY <1>2, <2>1, <2>2
<1>4. CASE d.type \in {"RSM3", "RSE1", "RSMX"}
  <2>1. e = d
    <3>1. CASE d.type = "RSM3"
      BY SMT, <3>1 DEF decodeDifopPkt, RSM3_decodeDifopPkt
    <3>2. CASE d.type = "RSE1"
      BY SMT, <3>2 DEF decodeDifopPkt, RSE1_decodeDifopPkt
    <3>3. CASE d.type = "RSMX"
      BY SMT, <3>3 DEF decodeDifopPkt, RSMX_decodeDifopPkt
    <3>4. QED
      BY <1>4, <3>1, <3>2, <3>3
  <2>2. QED
    BY <2>1
<1>5. CASE d.type = "RSEMX"
  <2> DEFINE yes == TRUE
             y == [d EXCEPT !.ready = yes]
  <2>1. e = RSEMX_decodeDifopPkt(d, p)
    BY SMT, <1>5 DEF decodeDifopPkt
  <2>2. e = y \/ e = d
    BY <2>1 DEF RSEMX_decodeDifopPkt
  <2>3. yes \in BOOLEAN
    OBVIOUS
  <2> HIDE DEF yes
  <2>4. y \in Decoders
    BY <1>1, <2>3 DEF Decoders
  <2>5. y.type = d.type /\ y.split = d.split /\ y.pre = d.pre /\ y.const = d.const
        /\ y.packet_duration = d.packet_duration /\ y.param = d.param
    BY <1>1 DEF Decoders
  <2> HIDE DEF y
  <2>6. SeqDecoder(y)
    BY <2>4, <2>5 DEF SeqDecoder
  <2>7. QED
    BY <2>2, <2>5, <2>6
<1>6. QED
  BY <1>1, <1>3, <1>4, <1>5 DEF SeqTypes
LEMMA SeqProcessDifop ==
  ASSUME NEW t \in States, SeqDecoder(t.d), NEW p, NEW r, r = processDifopPkt(t, p)
  PROVE  Ignored(t, r)
<1> DEFINE e == decodeDifopPkt(t.d, p)
           u == [t EXCEPT !.d = e]
<1>1. r = IF TakesDifop(t.d, p) THEN u ELSE t
  BY Zenon, DifopCases
<1>2. SeqDecoder(e) /\ e.type = t.d.type /\ e.split = t.d.split
  BY SeqDifopTuned
<1> HIDE DEF e
<1>3. e \in Decoders
  BY <1>2 DEF SeqDecoder
<1>4. u \in States /\ u.d = e /\ u.cloud = t.cloud /\ u.delivered = t.delivered
  BY <1>3, StateWithDecoder
<1> HIDE DEF u
<1>5. Ignored(t, u) /\ Ignored(t, t)
  BY <1>2, <1>4 DEF Ignored
<1>6. QED
  BY <1>1, <1>5
LEMMA SeqProcessImu ==
  ASSUME NEW t \in States, SeqDecoder(t.d), NEW p, NEW r, r = processImuPkt(t, p)
  PROVE  Ignored(t, r)
<1>1. r \in States /\ r.d = t.d /\ r.cloud = t.cloud /\ r.delivered = t.delivered
  BY ImuTyped
<1>2. QED
  BY <1>1 DEF Ignored

\* A packet that a lidar of this kind sends.
SeqKind(p) == p.kind \in {"msop", "difop", "imu"} /\ (p.kind = "msop" => SeqPacket(p))
\* A packet that the driver does not decode.
Passed(d, p) == Refuses(d, p) \/ (d.type = "RSEMX" /\ p.surface >= EMX_SURFACE_NUM)
\* What the driver does with a packet in state t: r.
SeqTaken(t, p, r) ==
  IF p.kind = "msop"
  THEN /\ Grew(t, r, p.frame)
       /\ Passed(t.d, p) => Ignored(t, r)
       /\ ~ Refuses(t.d, p) => \E u : /\ Ignored(t, u)
                                      /\ r = decodeMsopPkt(u, p) /\ p.len = u.d.const.MSOP_LEN
  ELSE Ignored(t, r)

LEMMA SeqProcess ==
  ASSUME NEW t \in States, SeqDecoder(t.d), NEW p, SeqKind(p), NEW r, r = internalProcessPacket(t, p)
  PROVE  SeqTaken(t, p, r)
<1>1. CASE p.kind = "msop"
  <2>1. r = processMsopPkt(t, p) /\ SeqPacket(p)
    BY SMT, <1>1 DEF internalProcessPacket, SeqKind
  <2>2. /\ Grew(t, r, p.frame)
        /\ Passed(t.d, p) => Ignored(t, r)
    BY <2>1, SeqProcessMsop DEF Passed
  <2>3. \E u : /\ Ignored(t, u)
               /\ ~ Refuses(t.d, p) => r = decodeMsopPkt(u, p) /\ p.len = u.d.const.MSOP_LEN
    BY <2>1, SeqProcessMsop
  <2>4. ~ Refuses(t.d, p) => \E u : /\ Ignored(t, u)
                                    /\ r = decodeMsopPkt(u, p) /\ p.len = u.d.const.MSOP_LEN
    BY Zenon, <2>3
  <2>5. QED
    BY Zenon, <1>1, <2>2, <2>4 DEF SeqTaken
<1>2. CASE p.kind = "difop"
  <2>1. r = processDifopPkt(t, p)
    BY SMT, <1>2 DEF internalProcessPacket
  <2>2. Ignored(t, r)
    BY <2>1, SeqProcessDifop
  <2>3. p.kind # "msop"
    BY <1>2
  <2>4. QED
    BY Zenon, <2>2, <2>3 DEF SeqTaken
<1>3. CASE p.kind = "imu"
  <2>1. r = processImuPkt(t, p)
    BY SMT, <1>3 DEF internalProcessPacket
  <2>2. Ignored(t, r)
    BY <2>1, SeqProcessImu
  <2>3. p.kind # "msop"
    BY <1>3
  <2>4. QED
    BY Zenon, <2>2, <2>3 DEF SeqTaken
<1>4. QED
  BY <1>1, <1>2, <1>3 DEF SeqKind

\* A packet that the driver takes.
LEMMA SeqTake ==
  ASSUME NEW t \in States, SeqDecoder(t.d), NEW p, SeqKind(p),
         NEW pre, pre = preSplit(t, p), NEW u, u = WithPre(t, pre.pre),
         NEW r, r = internalProcessPacket(u, p)
  PROVE  SeqTaken(t, p, r) /\ pre.new \in BOOLEAN
<1>1. p.kind = "msop" => p.seq \in Nat
  BY DEF SeqKind, SeqPacket
<1>2. pre.pre \in SeqSplits /\ pre.new \in BOOLEAN
  BY <1>1, SeqPreSplit
<1> DEFINE x == pre.pre
<1>3. x \in SeqSplits /\ u = WithPre(t, x)
  BY <1>2
<1> HIDE DEF x
<1>4. /\ u \in States /\ SeqDecoder(u.d) /\ u.d.split = t.d.split /\ u.d.type = t.d.type
      /\ u.d.const = t.d.const /\ u.d.param = t.d.param /\ u.d.ready = t.d.ready
      /\ u.cloud = t.cloud /\ u.delivered = t.delivered
  BY <1>3, SeqWithPre
<1>5. SeqTaken(u, p, r)
  BY <1>4, SeqProcess
<1>6. Ignored(t, u)
  BY <1>4 DEF Ignored
<1>7. Refuses(u.d, p) <=> Refuses(t.d, p)
  BY Zenon, <1>4 DEF Refuses
<1>8. Passed(u.d, p) <=> Passed(t.d, p)
  BY Zenon, <1>4, <1>7 DEF Passed
<1>9. ASSUME NEW y, Ignored(u, y) PROVE Ignored(t, y)
  BY Zenon, <1>6, <1>9, IgnoredOn
<1>10. SeqTaken(t, p, r)
  <2>1. CASE p.kind = "msop"
    <3>1. /\ Grew(u, r, p.frame)
          /\ Passed(u.d, p) => Ignored(u, r)
          /\ ~ Refuses(u.d, p) => \E y : /\ Ignored(u, y)
                                         /\ r = decodeMsopPkt(y, p) /\ p.len = y.d.const.MSOP_LEN
      BY Zenon, <1>5, <2>1 DEF SeqTaken
    <3>2. Grew(t, r, p.frame)
      BY <1>4, <3>1 DEF Grew
    <3>3. Passed(t.d, p) => Ignored(t, r)
      BY Zenon, <1>8, <1>9, <3>1
    <3>4. ~ Refuses(t.d, p) => \E y : /\ Ignored(t, y)
                                      /\ r = decodeMsopPkt(y, p) /\ p.len = y.d.const.MSOP_LEN
      BY Zenon, <1>7, <1>9, <3>1
    <3>5. QED
      BY Zenon, <2>1, <3>2, <3>3, <3>4 DEF SeqTaken
  <2>2. CASE p.kind # "msop"
    BY Zenon, <1>5, <1>9, <2>2 DEF SeqTaken
  <2>3. QED
    BY <2>1, <2>2
<1>11. QED
  BY <1>2, <1>10

\* A packet of points that is decoded and that the split copes with.
LEMMA TakenFollows ==
  ASSUME NEW l \in SeqLidars, NEW t, NEW i, Before(l, i, t), NEW p, Numbers(l, t.d, i, p),
         p.kind = "msop", p.surface = 0, ~ Refuses(t.d, p), ~ Unsettles(l, t.d, p, i),
         NEW r, SeqTaken(t, p, r)
  PROVE  Followed(l, i, r)
<1>1. PICK u : Ignored(t, u) /\ r = decodeMsopPkt(u, p) /\ p.len = u.d.const.MSOP_LEN
  BY Zenon DEF SeqTaken
<1>2. Tracks(l, l.newest, t.d.split) /\ FramesApart(l, l.newest, t) /\ t.d.type = l.type
  BY DEF Before
<1>3. Tracks(l, l.newest, u.d.split) /\ FramesApart(l, l.newest, u)
  BY <1>1, <1>2, FramesIgnored
<1>4. u \in States /\ SeqDecoder(u.d) /\ u.d.type = l.type /\ u.d.split = t.d.split
  BY <1>1, <1>2 DEF Ignored
<1>5. Before(l, i, u)
  BY <1>3, <1>4 DEF Before
<1>6. Numbers(l, u.d, i, p)
  BY Zenon, <1>4 DEF Numbers, Late
<1> DEFINE d == t.d
<1>7. d.type = l.type /\ d.split = u.d.split /\ ~ Unsettles(l, d, p, i)
  BY <1>2, <1>4
<1> HIDE DEF d
<1>8. QED
  BY Zenon, <1>1, <1>5, <1>6, <1>7, SeqMsopFollows

\* What a datagram says of a new frame: what the split says of its number.
LEMMA DatagramAnnounces ==
  ASSUME NEW t \in States, SeqDecoder(t.d), t.d.type # "RSM1_JUMBO", NEW p, SeqPacket(p),
         ~ (t.d.type = "RSEMX" /\ p.surface >= EMX_SURFACE_NUM),
         NEW r, r = decodeMsopPkt(t, p)
  PROVE  Announces(r, newPacket(t.d.split, p.seq - Less(t.d.type)))
<1> DEFINE u == [t EXCEPT !.ret = FALSE]
           seq == p.seq - Less(t.d.type)
           offset == p.offset
<1>1. seq \in Nat /\ offset \in Nat /\ p.seq \in Nat
  BY DEF SeqPacket, Less
<1>2. t.d.type \in SeqTypes
  BY DEF SeqDecoder
<1>3. u = [t EXCEPT !.ret = FALSE]
  OBVIOUS
<1>4. ASSUME NEW per \in Nat, NEW o \in Nat
      PROVE  Announces(decodePacket(u, p, seq, per, o), newPacket(t.d.split, seq))
  <2> DEFINE w == decodePacket(u, p, seq, per, o)
             new == newPacket(t.d.split, seq)
  <2>1. w = decodePacket(u, p, seq, per, o) /\ new = newPacket(t.d.split, seq)
    OBVIOUS
  <2> HIDE DEF u, seq, w, new
  <2>2. Announces(w, new)
    <3>1. OneMore(t, w, p, new)
      BY Zenon, <1>1, <1>3, <1>4, <2>1, OnePacket
    <3>2. QED
      BY Zenon, <3>1 DEF OneMore
  <2>3. QED
    BY Zenon, <2>2 DEF w, new
<1>5. CASE t.d.type \in SimpleTypes
  <2>1. PICK per \in {1, 2} :
          decodeMsopPkt(t, p) = decodePacket([t EXCEPT !.ret = FALSE], p, p.seq, per, p.offset)
    BY <1>5, SimpleMsop
  <2>2. seq = p.seq
    BY <1>1, <1>5 DEF Less, SimpleTypes
  <2>3. per \in Nat
    OBVIOUS
  <2>4. Announces(decodePacket(u, p, seq, per, offset), newPacket(t.d.split, seq))
    BY Zenon, <1>1, <1>4, <2>3
  <2> HIDE DEF seq
  <2>5. r = decodePacket(u, p, seq, per, offset)
    BY Zenon, <2>1, <2>2
  <2>6. QED
    BY Zenon, <2>4, <2>5 DEF seq
<1>6. CASE t.d.type = "RSM1"
  <2>1. seq = p.seq
    BY <1>1, <1>6 DEF Less
  <2> DEFINE new == newPacket(t.d.split, p.seq)
  <2>2. new = newPacket(t.d.split, p.seq)
    OBVIOUS
  <2> HIDE DEF new, u, seq
  <2>3. r.ret <=> new.split
    BY <1>6, <2>2, RSM1Msop
  <2>4. Announces(r, new)
    BY Zenon, <2>3 DEF Announces
  <2>5. Announces(r, newPacket(t.d.split, seq))
    BY Zenon, <2>1, <2>4 DEF new
  <2>6. QED
    BY Zenon, <2>5 DEF seq
<1>7. CASE t.d.type = "RSEMX"
  <2>1. seq = p.seq - 1
    BY <1>7 DEF Less
  <2>2. 1 \in Nat /\ 0 \in Nat
    OBVIOUS
  <2>3. Announces(decodePacket(u, p, seq, 1, 0), newPacket(t.d.split, seq))
    BY Zenon, <1>4, <2>2
  <2> HIDE DEF seq
  <2>4. r = decodePacket(u, p, seq, 1, 0)
    BY Zenon, <1>7, <2>1, RSEMXMsop
  <2>5. QED
    BY Zenon, <2>3, <2>4 DEF seq
<1>8. QED
  BY Zenon, <1>2, <1>5, <1>6, <1>7 DEF SeqTypes, SimpleTypes

\* No packet changes the split that paces a replay, nor what it is to pace.
SamePace(d, e) == e.type = d.type /\ e.param = d.param /\ e.pre = d.pre
LEMMA PaceStays ==
  ASSUME NEW t \in States, SeqDecoder(t.d), NEW p, SeqKind(p), NEW r, r = internalProcessPacket(t, p)
  PROVE  SamePace(t.d, r.d)
<1>1. CASE p.kind = "msop"
  <2> DEFINE u == Trimmed(t)
             v == [u EXCEPT !.ret = FALSE]
             w == decodeMsopPkt(u, p)
  <2>1. r = processMsopPkt(t, p) /\ SeqPacket(p)
    BY SMT, <1>1 DEF internalProcessPacket, SeqKind
  <2>2. u = Trimmed(t)
    OBVIOUS
  <2> HIDE DEF u
  <2>3. u \in States /\ u.d = t.d
    BY <2>2, TrimmedTyped
  <2>4. r = IF Refuses(u.d, p) THEN v ELSE w
    BY Zenon, <2>1, <2>2, MsopCases
  <2>5. v.d = u.d
    BY <2>3, Quiet
  <2>6. SeqDecoder(u.d)
    BY <2>3
  <2>7. ~ Refuses(u.d, p) => p.len = u.d.const.MSOP_LEN
    BY DEF Refuses
  <2>8. p.len = u.d.const.MSOP_LEN => SeqDecoded(u, w, p)
    BY <2>1, <2>3, <2>6, SeqMsopTyped
  <2> HIDE DEF v, w
  <2>9. SeqDecoded(u, w, p) => SamePace(u.d, w.d)
    BY DEF SeqDecoded, SameSettings, SamePace
  <2>10. SamePace(u.d, v.d)
    BY <2>5 DEF SamePace
  <2>11. SamePace(u.d, r.d)
    BY <2>4, <2>7, <2>8, <2>9, <2>10
  <2>12. QED
    BY Zenon, <2>3, <2>11
<1>2. CASE p.kind = "difop"
  <2> DEFINE e == decodeDifopPkt(t.d, p)
             u == [t EXCEPT !.d = e]
  <2>1. r = processDifopPkt(t, p)
    BY SMT, <1>2 DEF internalProcessPacket
  <2>2. r = IF TakesDifop(t.d, p) THEN u ELSE t
    BY Zenon, <2>1, DifopCases
  <2>3. SeqDecoder(e) /\ e.type = t.d.type /\ e.pre = t.d.pre /\ e.param = t.d.param
    BY SeqDifopTuned
  <2> HIDE DEF e
  <2>4. e \in Decoders
    BY <2>3 DEF SeqDecoder
  <2>5. u.d = e
    BY <2>4, StateWithDecoder
  <2> HIDE DEF u
  <2>6. SamePace(t.d, u.d) /\ SamePace(t.d, t.d)
    BY <2>3, <2>5 DEF SamePace
  <2>7. QED
    BY <2>2, <2>6
<1>3. CASE p.kind = "imu"
  <2>1. r = processImuPkt(t, p)
    BY SMT, <1>3 DEF internalProcessPacket
  <2>2. r.d = t.d
    BY <2>1, ImuTyped
  <2>3. QED
    BY <2>2 DEF SamePace
<1>4. QED
  BY <1>1, <1>2, <1>3 DEF SeqKind

\* A packet of a replayed file: what isNewFrame tells the input, and what the
\* decoder says of it afterwards.
LEMMA TakenPaces ==
  ASSUME NEW t \in States, SeqDecoder(t.d), PacedByFrames(t.d), NEW p, SeqPacket(p),
         p.kind = "msop", ~ Passed(t.d, p),
         NEW pre, pre = preSplit(t, p), NEW u, u = WithPre(t, pre.pre),
         NEW r, r = internalProcessPacket(u, p)
  PROVE  /\ Announces(r, newPacket(t.d.split, p.seq - Less(t.d.type)))
         /\ r.d.pre = newPacket(t.d.pre, p.seq).state
         /\ pre.new = newPacket(t.d.pre, p.seq).split
<1> DEFINE new == newPacket(t.d.pre, p.seq)
           st == new.state
           b == new.split
           v == Trimmed(u)
<1>1. t.d.type \in SeqTypes /\ t.d.type # "RSM1_JUMBO" /\ p.seq \in Nat /\ t.d.pre \in SeqSplits
  BY DEF SeqDecoder, PacedByFrames, SeqPacket
<1>2. new.state \in SeqSplits
  BY <1>1, NewPacketTyped
<1>3. pre = isNewFrame(t.d, p)
  BY Zenon DEF preSplit
<1>4. isNewFrame(t.d, p) = isNewFrameCommon(t.d, p)
  BY SMT, <1>1 DEF isNewFrame, SeqTypes
<1>5. pre = [pre |-> st, new |-> b]
  BY Zenon, <1>3, <1>4 DEF isNewFrameCommon
<1>6. v = Trimmed(u)
  OBVIOUS
<1> HIDE DEF st, b, v
<1>7. pre.pre = st /\ pre.new = b
  BY <1>5
<1>8. st \in SeqSplits /\ u = WithPre(t, st)
  BY Zenon, <1>2, <1>7 DEF st
<1>9. /\ u \in States /\ SeqDecoder(u.d) /\ u.d.split = t.d.split /\ u.d.type = t.d.type
      /\ u.d.const = t.d.const /\ u.d.param = t.d.param /\ u.d.ready = t.d.ready
  BY <1>8, SeqWithPre
<1>10. st \in Splits
  BY <1>8 DEF Splits
<1>11. u.d = [t.d EXCEPT !.pre = st] /\ t.d \in Decoders
  BY <1>8, <1>10, PreOfState DEF SeqDecoder
<1>12. u.d.pre = st
  BY <1>11 DEF Decoders
<1>13. v \in States /\ v.d = u.d
  BY <1>6, <1>9, TrimmedTyped
<1>14. ~ Refuses(v.d, p) /\ ~ (v.d.type = "RSEMX" /\ p.surface >= EMX_SURFACE_NUM)
  BY Zenon, <1>9, <1>13 DEF Passed, Refuses
<1>15. r = processMsopPkt(u, p)
  BY SMT DEF internalProcessPacket
<1>16. r = decodeMsopPkt(v, p)
  BY Zenon, <1>6, <1>14, <1>15, MsopCases
<1>17. SeqDecoder(v.d) /\ v.d.type # "RSM1_JUMBO" /\ v.d.type = t.d.type /\ v.d.split = t.d.split
  BY <1>1, <1>9, <1>13
<1>18. Announces(r, newPacket(v.d.split, p.seq - Less(v.d.type)))
  BY Zenon, <1>13, <1>14, <1>16, <1>17, DatagramAnnounces
<1>19. Announces(r, newPacket(t.d.split, p.seq - Less(t.d.type)))
  BY Zenon, <1>17, <1>18
<1>20. SeqKind(p)
  BY DEF SeqKind
<1>21. SamePace(u.d, r.d)
  BY <1>9, <1>20, PaceStays
<1>22. r.d.pre = st
  BY <1>12, <1>21 DEF SamePace
<1>23. QED
  BY Zenon, <1>7, <1>19, <1>22 DEF st, b

\* The split that paces the replay remembers the newest packet, as the decoder's
\* does, counted from 1.
InPace(l, d) == d.pre.prev = IF l.newest < 0 THEN 0 ELSE NumberOf(l, l.newest)
\* The two say the same of a packet, whatever they count from.
LEMMA SameAnswer ==
  ASSUME NEW l \in SeqLidars, l.type # "RSM1_JUMBO", NEW t, NEW i, Before(l, i, t),
         NEW p, Numbers(l, t.d, i, p), ~ Unsettles(l, t.d, p, i), InPace(l, t.d),
         NEW pre, pre = newPacket(t.d.pre, p.seq),
         NEW new, new = newPacket(t.d.split, p.seq - Less(l.type))
  PROVE  pre.split = new.split /\ pre.state.prev = NumberOf(l, Newest(l, i))
<1> DEFINE z == Less(l.type)
           m == l.newest
           F == FrameOf(l, m)
           G == FrameOf(l, i)
           c == NumberOf(l, m)
           e == NumberOf(l, i)
           sp == t.d.split
           ps == t.d.pre
<1>1. /\ i \in Nat /\ m \in Int /\ i # m /\ m - i <= RANGE /\ z \in {0, 1} /\ sp \in SeqSplits
      /\ ps \in SeqSplits /\ t.d.type = l.type /\ p.seq = e /\ e \in 1 .. l.frame_len
      /\ l.frame_len \in Nat /\ G \in Nat
  BY NumbersTyped DEF Before, SeqDecoder, SeqLidars, Less, Numbers
<1>2. /\ m >= 0 => i - m <= RANGE
      /\ l.type = "RSEMX" => ~ (p.late /\ sp.prev = 0)
  BY <1>1, Settled DEF Before
<1>3. e - z \in Nat /\ e \in Nat
  BY <1>1
<1>4. new.split \in BOOLEAN /\ pre.split \in BOOLEAN
  BY <1>1, <1>3, NewPacketTyped
<1>5. CASE m < 0
  <2> DEFINE seq == e - z
  <2>1. seq \in Nat /\ new = newPacket(t.d.split, seq)
    BY <1>1, <1>3
  <2> HIDE DEF seq
  <2>2. ~ new.split
    BY <1>5, <2>1, FirstAnswered
  <2>3. ps.prev = 0
    BY <1>5 DEF InPace
  <2>4. ~ pre.split /\ pre.state.prev = e
    BY <1>1, <1>3, <2>3, NewPacketAnswers
  <2>5. Newest(l, i) = i
    BY <1>1, <1>5 DEF Newest
  <2>6. QED
    BY <1>4, <2>2, <2>4, <2>5
<1>6. CASE m >= 0
  <2>1. c \in 1 .. l.frame_len /\ F \in Nat
    BY <1>1, <1>6, NumbersTyped
  <2>2. ps.prev = c /\ ps.prev # 0
    BY <1>1, <1>6, <2>1 DEF InPace
  <2>3. Answers(l, i, z, sp)
    BY <1>1, <1>2, <1>6, Answered
  <2>4. ps.prev = c - 0 /\ 0 \in {0, 1}
    BY <2>1, <2>2
  <2>5. Answers(l, i, 0, ps)
    BY <1>1, <1>2, <1>6, <2>2, <2>4, SeqAnswers
  <2>6. new = newPacket(sp, e - z) /\ pre = newPacket(ps, e - 0)
    BY <1>1, <1>3
  <2>7. Answer(m, i, z, sp, F, G, c, e, new)
    BY Zenon, <2>3, <2>6 DEF Answers
  <2>8. Answer(m, i, 0, ps, F, G, c, e, pre)
    BY Zenon, <2>5, <2>6 DEF Answers
  <2>9. Newest(l, i) = IF i > m THEN i ELSE m
    BY DEF Newest
  <2>10. NumberOf(l, i) = e /\ NumberOf(l, m) = c
    OBVIOUS
  <2> HIDE DEF z, m, F, G, c, e, sp, ps
  <2>11. CASE i > m
    <3>1. pre.state.prev = e
      BY <1>1, <1>3, <2>8, <2>11 DEF Answer
    <3>2. pre.split = new.split
      BY <1>1, <1>4, <2>1, <2>7, <2>8, <2>11 DEF Answer
    <3>3. QED
      BY <2>9, <2>10, <2>11, <3>1, <3>2
  <2>12. CASE ~ (i > m)
    <3>1. pre.state.prev = c /\ pre.split = new.split
      BY <1>1, <1>4, <2>2, <2>7, <2>8, <2>12 DEF Answer
    <3>2. QED
      BY <2>9, <2>10, <2>12, <3>1
  <2>13. QED
    BY <2>11, <2>12
<1>7. QED
  BY <1>1, <1>5, <1>6

-----------------------------------------------------------------------------
(* The packets of the lidars that number them, as they come *)

LEMMA SeqMsopSent ==
  ASSUME NEW l \in SeqLidars, NEW d, NEW i \in Nat, NEW p, p = SeqMsop(l, d, i)
  PROVE  /\ Numbers(l, d, i, p) /\ p.kind = "msop" /\ p.surface = 0
         /\ p.len = d.const.MSOP_LEN /\ p.id
         /\ {"kind", "seq", "frame", "late", "ts", "host", "offset", "surface"} \subseteq DOMAIN p
<1> DEFINE late == Late(l, d, i)
           yes == TRUE
           ts == SentAt(i)
           host == SentAt(i + 1)
           seq == NumberOf(l, i)
           frame == FrameOf(l, i)
           len == d.const.MSOP_LEN
           mode == l.mode
<1>1. late \in BOOLEAN /\ yes
  BY DEF Late
<1>2. ts \in Nat /\ host \in Nat /\ host >= 1000000
  BY SMT DEF SentAt
<1>3. NumberOf(l, i) \in 1 .. l.frame_len /\ frame \in Nat /\ l.frame_len \in Nat
  BY NumbersTyped
<1>4. seq \in Nat \ {0}
  BY <1>3
<1>5. p = [kind |-> "msop", len |-> len, id |-> yes, ts |-> ts, host |-> host,
           seq |-> seq, frame |-> frame, late |-> late,
           raw |-> 100, offset |-> 1000, mode |-> mode, surface |-> 0]
  BY Zenon DEF SeqMsop
<1> HIDE DEF late, yes, ts, host, seq, frame, len, mode
<1>6. /\ p.kind = "msop" /\ p.surface = 0 /\ p.len = len /\ p.id = yes /\ p.ts = ts /\ p.host = host
      /\ p.seq = seq /\ p.frame = frame /\ p.late = late /\ p.offset = 1000
      /\ {"kind", "seq", "frame", "late", "ts", "host", "offset", "surface"} \subseteq DOMAIN p
  BY SMT, <1>5
<1>7. SeqPacket(p)
  BY SMT, <1>1, <1>2, <1>3, <1>4, <1>6 DEF SeqPacket
<1>8. Numbers(l, d, i, p)
  <2>1. p.seq = NumberOf(l, i) /\ p.frame = FrameOf(l, i)
    BY <1>6 DEF seq, frame
  <2>2. p.late <=> Late(l, d, i)
    BY Zenon, <1>6 DEF late
  <2>3. QED
    BY Zenon, <1>7, <2>1, <2>2 DEF Numbers
<1>9. p.id
  BY <1>1, <1>6
<1>10. p.len = d.const.MSOP_LEN
  BY Zenon, <1>6 DEF len
<1>11. QED
  BY <1>6, <1>8, <1>9, <1>10

\* Another range, length, identifier or surface.
Altered(l, d, i, f, x, q) ==
  /\ Numbers(l, d, i, q) /\ q.kind = "msop"
  /\ f \in {"len", "id", "surface"} => q[f] = x
  /\ f # "surface" => q.surface = 0
LEMMA SeqMsopChanged ==
  ASSUME NEW l \in SeqLidars, NEW d, NEW i \in Nat,
         NEW f \in {"len", "id", "raw", "surface"}, NEW x
  PROVE  Altered(l, d, i, f, x, [SeqMsop(l, d, i) EXCEPT ![f] = x])
<1> DEFINE p == SeqMsop(l, d, i)
           q == [p EXCEPT ![f] = x]
<1>0. p = SeqMsop(l, d, i) /\ q = [p EXCEPT ![f] = x]
  OBVIOUS
<1> HIDE DEF p, q
<1>1. /\ Numbers(l, d, i, p) /\ p.kind = "msop" /\ p.surface = 0
      /\ {"kind", "seq", "frame", "late", "ts", "host", "offset", "surface"} \subseteq DOMAIN p
  BY <1>0, SeqMsopSent
<1>2. /\ q.kind = p.kind /\ q.seq = p.seq /\ q.frame = p.frame /\ q.late = p.late /\ q.ts = p.ts
      /\ q.host = p.host /\ q.offset = p.offset /\ (f # "surface" => q.surface = p.surface)
  BY <1>0, <1>1
<1>3. f \in {"len", "id", "surface"} => q[f] = x
  <2>1. f \in {"len", "id", "surface"} => f \in DOMAIN p
    BY Zenon, <1>0 DEF SeqMsop
  <2>2. QED
    BY <1>0, <2>1
<1>4. SeqPacket(q)
  BY <1>1, <1>2 DEF Numbers, SeqPacket
<1>5. Numbers(l, d, i, q)
  BY Zenon, <1>1, <1>2, <1>4 DEF Numbers
<1>6. Altered(l, d, i, f, x, q)
  BY <1>1, <1>2, <1>3, <1>5 DEF Altered
<1>7. QED
  BY Zenon, <1>6 DEF p, q

-----------------------------------------------------------------------------
(* The invariant: lidars that number their packets *)

SeqState(l, t) ==
  /\ l \in SeqLidars /\ t \in States /\ SeqDecoder(t.d) /\ t.d.type = l.type
  /\ t.cloud.frames \cup t.delivered \subseteq 0 .. MaxFrames
Steady(l, t) == Tracks(l, l.newest, t.d.split) /\ FramesApart(l, l.newest, t)
SeqInv == SeqState(lidar, s) /\ (steady => Steady(lidar, s))
\* A replayed file is paced by a split that keeps up with the decoder's own.
PaceInv ==
  PacedByFrames(s.d) /\ instep /\ steady => paced = s.ret /\ InPace(lidar, s.d)
StaysInPace == PaceInv => PaceInv'

\* Of which frame a packet may be.
LEMMA FrameBound ==
  ASSUME NEW l \in SeqLidars, NEW i \in Nat, i < Limit(l)
  PROVE  FrameOf(l, i) \in 0 .. MaxFrames
<1> DEFINE L == l.frame_len
           F == i \div L
           M == MaxFrames
           q == L \div 5
           LF == L * F
<1>1. L \in Nat \ {0} /\ M \in Nat
  BY BoundsAssumption DEF SeqLidars, LenOf, RANGE
<1> HIDE DEF L
<1>2. F \in Nat /\ LF <= i
  BY <1>1, Quotient
<1>3. q \in Nat /\ q < L
  BY <1>1
<1>4. i < M * L + q /\ FrameOf(l, i) = F
  BY DEF Limit, FrameOf, L
<1>5. ASSUME F >= M + 1 PROVE FALSE
  <2>1. PICK z \in Nat : F = M + 1 + z
    <3>1. F - M - 1 \in Nat /\ F = M + 1 + (F - M - 1)
      BY <1>1, <1>2, <1>5
    <3>2. QED
      BY <3>1
  <2>2. L * F = M * L + L + L * z
    BY <1>1, <2>1
  <2>3. L * z \in Nat /\ M * L \in Nat
    BY <1>1
  <2> DEFINE ML == M * L
             Lz == L * z
  <2>4. LF = ML + L + Lz /\ Lz \in Nat /\ ML \in Nat
    BY <2>2, <2>3
  <2>5. i < ML + q /\ LF <= i
    BY <1>2, <1>4
  <2> HIDE DEF ML, Lz, LF, q
  <2>6. QED
    BY <1>1, <1>3, <2>4, <2>5
<1> HIDE DEF F, M, LF, q
<1>6. F \in 0 .. M
  BY <1>1, <1>2, <1>5
<1>7. QED
  BY <1>4, <1>6 DEF M

\* What is said of a lidar depends on its type and its frames alone.
LEMMA SameStream ==
  ASSUME NEW l, NEW k, k.type = l.type, k.frame_len = l.frame_len, NEW m, NEW t,
         Tracks(l, m, t.d.split), FramesApart(l, m, t)
  PROVE  Tracks(k, m, t.d.split) /\ FramesApart(k, m, t)
<1>1. NumberOf(k, m) = NumberOf(l, m) /\ FrameOf(k, m) = FrameOf(l, m)
  BY Zenon DEF NumberOf, FrameOf
<1>2. Tracks(k, m, t.d.split)
  BY Zenon, <1>1 DEF Tracks
<1>3. FramesApart(k, m, t)
  BY Zenon, <1>1 DEF FramesApart
<1>4. QED
  BY <1>2, <1>3

LEMMA PacketTook ==
  ASSUME SeqInv, NEW p, SeqKind(p), Took(p)
  PROVE  SeqTaken(s, p, s') /\ preSplit(s, p).new \in BOOLEAN
<1> DEFINE pre == preSplit(s, p)
           u == WithPre(s, pre.pre)
           r == internalProcessPacket(u, p)
<1>1. s \in States /\ SeqDecoder(s.d)
  BY DEF SeqInv, SeqState
<1>2. pre = preSplit(s, p) /\ u = WithPre(s, pre.pre) /\ r = internalProcessPacket(u, p)
  OBVIOUS
<1>3. s' = r
  BY Zenon DEF Took
<1> HIDE DEF pre, u, r
<1>4. SeqTaken(s, p, r) /\ pre.new \in BOOLEAN
  BY <1>1, <1>2, SeqTake
<1>5. QED
  BY Zenon, <1>2, <1>3, <1>4
LEMMA SeqTook ==
  ASSUME SeqInv, Flags, NEW p, SeqKind(p), Took(p)
  PROVE  SeqTaken(s, p, s') /\ running' \in BOOLEAN /\ instep' \in BOOLEAN
         /\ (s' \in States => paced' \in BOOLEAN)
<1>1. SeqTaken(s, p, s') /\ preSplit(s, p).new \in BOOLEAN
  BY PacketTook
<1>2. paced' = IF p.kind = "msop" THEN preSplit(s, p).new ELSE s'.ret
  BY Zenon DEF Took
<1>3. s' \in States => s'.ret \in BOOLEAN
  BY DEF States
<1>4. s' \in States => paced' \in BOOLEAN
  BY <1>1, <1>2, <1>3
<1>5. running' \in BOOLEAN /\ instep' \in BOOLEAN
  BY DEF Took, Flags
<1>6. QED
  BY <1>1, <1>4, <1>5

\* The sensor goes on, with the same newest packet.
SameNewest(k, l) ==
  /\ k \in SeqLidars /\ k.type = l.type /\ k.frame_len = l.frame_len /\ k.newest = l.newest
LEMMA SteadyKept ==
  ASSUME NEW l, NEW k, SameNewest(k, l), NEW t, NEW r,
         l \in SeqLidars, Ignored(t, r), Steady(l, t)
  PROVE  Steady(k, r)
<1> DEFINE m == l.newest
<1>1. Tracks(l, m, t.d.split) /\ FramesApart(l, m, t)
  BY DEF Steady
<1> HIDE DEF m
<1>2. Tracks(l, m, r.d.split) /\ FramesApart(l, m, r)
  BY <1>1, FramesIgnored
<1>3. k.type = l.type /\ k.frame_len = l.frame_len /\ k.newest = m
  BY DEF SameNewest, m
<1>4. Tracks(k, m, r.d.split) /\ FramesApart(k, m, r)
  BY Zenon, <1>2, <1>3, SameStream
<1>5. QED
  BY Zenon, <1>3, <1>4 DEF Steady

\* Nothing is taken, or nothing that the split that paces the replay is asked of.
LEMMA PaceUnchanged ==
  ASSUME SameNewest(lidar', lidar), SamePace(s.d, s'.d), steady' => steady, instep' => instep,
         (s' = s /\ paced' = paced) \/ paced' = s'.ret
  PROVE  StaysInPace
<1> SUFFICES ASSUME PaceInv, PacedByFrames(s'.d), instep', steady'
             PROVE  paced' = s'.ret /\ InPace(lidar', s'.d)
  BY Zenon DEF StaysInPace, PaceInv
<1>1. s'.d.type = s.d.type /\ s'.d.param = s.d.param /\ s'.d.pre = s.d.pre
  BY DEF SamePace
<1>2. PacedByFrames(s.d)
  BY Zenon, <1>1 DEF PacedByFrames
<1>3. paced = s.ret /\ InPace(lidar, s.d)
  BY <1>2 DEF PaceInv
<1>4. paced' = s'.ret
  BY <1>3
<1>5. lidar'.newest = lidar.newest /\ lidar'.frame_len = lidar.frame_len
  BY DEF SameNewest
<1>6. NumberOf(lidar', lidar'.newest) = NumberOf(lidar, lidar.newest)
  BY Zenon, <1>5 DEF NumberOf
<1>7. InPace(lidar', s'.d)
  BY Zenon, <1>1, <1>3, <1>5, <1>6 DEF InPace
<1>8. QED
  BY <1>4, <1>7

\* What a packet does to the split that paces the replay.
LEMMA PaceTook ==
  ASSUME SeqInv, NEW p, SeqKind(p), Took(p)
  PROVE  /\ s'.d.type = s.d.type /\ s'.d.param = s.d.param
         /\ p.kind # "msop" => SamePace(s.d, s'.d) /\ paced' = s'.ret
<1> DEFINE pre == preSplit(s, p)
           x == pre.pre
           u == WithPre(s, x)
<1>1. s \in States /\ SeqDecoder(s.d) /\ s.d \in Decoders
  BY DEF SeqInv, SeqState, SeqDecoder
<1>2. p.kind = "msop" => p.seq \in Nat
  BY DEF SeqKind, SeqPacket
<1>3. x \in SeqSplits
  BY <1>1, <1>2, SeqPreSplit
<1>4. p.kind # "msop" => x = s.d.pre
  BY DEF preSplit
<1>5. u = WithPre(s, x) /\ s' = internalProcessPacket(u, p)
  BY Zenon DEF Took
<1>6. p.kind # "msop" => paced' = s'.ret
  BY Zenon DEF Took
<1> HIDE DEF x, u
<1>7. u \in States /\ SeqDecoder(u.d) /\ u.d.type = s.d.type /\ u.d.param = s.d.param
  BY <1>1, <1>3, <1>5, SeqWithPre
<1>8. x \in Splits
  BY <1>3 DEF Splits
<1>9. u.d = [s.d EXCEPT !.pre = x]
  BY <1>1, <1>5, <1>8, PreOfState
<1>10. u.d.pre = x
  BY <1>1, <1>9 DEF Decoders
<1>11. SamePace(u.d, s'.d)
  BY <1>5, <1>7, PaceStays
<1>12. s'.d.type = s.d.type /\ s'.d.param = s.d.param /\ s'.d.pre = x
  BY <1>7, <1>10, <1>11 DEF SamePace
<1>13. QED
  BY <1>4, <1>6, <1>12 DEF SamePace

\* A packet that adds no points.
LEMMA IgnoredKeeps ==
  ASSUME SeqInv, Ignored(s, s'), SameNewest(lidar', lidar), steady' => steady
  PROVE  SeqInv'
<1>1. /\ lidar \in SeqLidars /\ s \in States /\ s.d.type = lidar.type
      /\ s.cloud.frames \cup s.delivered \subseteq 0 .. MaxFrames /\ (steady => Steady(lidar, s))
  BY DEF SeqInv, SeqState
<1>2. SeqState(lidar', s')
  BY <1>1 DEF Ignored, SameNewest, SeqState
<1>3. steady' => Steady(lidar', s')
  BY Zenon, <1>1, SteadyKept
<1>4. QED
  BY Zenon, <1>2, <1>3 DEF SeqInv

\* A packet that adds points of a frame that the sensor has.
LEMMA GrewKeeps ==
  ASSUME SeqInv, NEW f \in 0 .. MaxFrames, Grew(s, s', f), lidar' \in SeqLidars,
         lidar'.type = lidar.type
  PROVE  SeqState(lidar', s')
<1>1. s.d.type = lidar.type /\ s.cloud.frames \cup s.delivered \subseteq 0 .. MaxFrames
  BY DEF SeqInv, SeqState
<1>2. QED
  BY <1>1 DEF Grew, SeqState

\* A packet of points arrives, which was packet i; the sensor has become l.
ArrivedAt(l, i) == IF Accepts(s.d) /\ i > l.newest THEN [l EXCEPT !.newest = i] ELSE l
LEMMA ArrivedTyped ==
  ASSUME NEW l \in SeqLidars, SameNewest(l, lidar), NEW i \in Nat, i < l.next, i \notin l.held,
         NEW k, k = ArrivedAt(l, i)
  PROVE  /\ k \in SeqLidars /\ k.type = lidar.type /\ k.frame_len = lidar.frame_len
         /\ Accepts(s.d) => k.newest = Newest(lidar, i)
         /\ ~ Accepts(s.d) => k.newest = lidar.newest
<1> DEFINE newer == [l EXCEPT !.newest = i]
<1>1. /\ newer \in SeqLidars /\ newer.type = l.type /\ newer.frame_len = l.frame_len
      /\ newer.newest = i
  <2>1. /\ newer \in [type : SeqTypes, mode : {0, 3}, frame_len : Nat, next : Nat, newest : Int,
                      held : SUBSET Nat]
        /\ newer.type = l.type /\ newer.frame_len = l.frame_len /\ newer.newest = i
        /\ newer.next = l.next /\ newer.held = l.held
    BY DEF SeqLidars
  <2>2. Limit(newer) = Limit(l)
    BY <2>1 DEF Limit
  <2> HIDE DEF newer
  <2>3. /\ newer.frame_len = LenOf(newer.type) /\ -1 <= newer.newest /\ newer.newest < newer.next
        /\ \A h \in newer.held : h < newer.next /\ h # newer.newest /\ h < Limit(newer)
    BY <2>1, <2>2 DEF SeqLidars
  <2>4. QED
    BY Zenon, <2>1, <2>3 DEF SeqLidars
<1>2. k = IF Accepts(s.d) /\ i > l.newest THEN newer ELSE l
  BY DEF ArrivedAt
<1>3. l.type = lidar.type /\ l.frame_len = lidar.frame_len /\ l.newest = lidar.newest
  BY DEF SameNewest
<1> HIDE DEF newer
<1>4. QED
  BY <1>1, <1>2, <1>3 DEF Newest

LEMMA ArriveKeeps ==
  ASSUME SeqInv, Flags, NEW i \in Nat, i < Limit(lidar), i # lidar.newest,
         lidar.newest - i <= RANGE,
         NEW p, Numbers(lidar, s.d, i, p), p.kind = "msop", p.surface = 0,
         p.len = s.d.const.MSOP_LEN, p.id,
         NEW l, SameNewest(l, lidar), i < l.next, i \notin l.held, Arrive(p, i, l)
  PROVE  SeqInv' /\ Flags' /\ lidar'.type = lidar.type
<1>1. Took(p) /\ lidar' = ArrivedAt(l, i)
      /\ steady' = (steady /\ (Accepts(s.d) => ~ Unsettles(lidar, s.d, p, i)))
  BY Zenon, TakeTook DEF Arrive, ArrivedAt
<1>2. SeqKind(p)
  BY DEF SeqKind, Numbers
<1>3. SeqTaken(s, p, s') /\ running' \in BOOLEAN /\ instep' \in BOOLEAN
      /\ (s' \in States => paced' \in BOOLEAN)
  BY <1>1, <1>2, SeqTook
<1>4. /\ lidar \in SeqLidars /\ s \in States /\ SeqDecoder(s.d) /\ s.d.type = lidar.type
      /\ (steady => Steady(lidar, s))
  BY DEF SeqInv, SeqState
<1>5. /\ lidar' \in SeqLidars /\ lidar'.type = lidar.type /\ lidar'.frame_len = lidar.frame_len
      /\ Accepts(s.d) => lidar'.newest = Newest(lidar, i)
      /\ ~ Accepts(s.d) => lidar'.newest = lidar.newest
  <2>1. l \in SeqLidars
    BY DEF SameNewest
  <2>2. QED
    BY <1>1, <2>1, ArrivedTyped
<1>6. Refuses(s.d, p) <=> ~ Accepts(s.d)
  BY Zenon DEF Refuses, Accepts
<1>7. Grew(s, s', p.frame) /\ (Refuses(s.d, p) => Ignored(s, s'))
  BY Zenon, <1>3 DEF SeqTaken, Passed
<1>8. p.frame \in 0 .. MaxFrames
  BY <1>4, FrameBound DEF Numbers
<1>9. SeqState(lidar', s')
  BY <1>5, <1>7, <1>8, GrewKeeps
<1>10. CASE ~ Accepts(s.d)
  <2>1. Ignored(s, s')
    BY <1>6, <1>7, <1>10
  <2>2. SameNewest(lidar', lidar)
    BY <1>5, <1>10 DEF SameNewest
  <2>3. steady' => steady
    BY <1>1
  <2>4. SeqInv'
    BY <2>1, <2>2, <2>3, IgnoredKeeps
  <2>5. steady' \in BOOLEAN
    BY <1>1
  <2>6. s' \in States
    BY <1>9 DEF SeqState
  <2>7. QED
    BY <1>3, <1>5, <2>4, <2>5, <2>6 DEF Flags
<1>11. CASE Accepts(s.d)
  <2>1. ASSUME steady' PROVE Steady(lidar', s')
    <3>1. steady /\ ~ Unsettles(lidar, s.d, p, i)
      BY Zenon, <1>1, <1>11, <2>1
    <3>2. Steady(lidar, s)
      BY <1>4, <3>1
    <3>3. Before(lidar, i, s)
      BY <1>4, <3>2 DEF Before, Steady
    <3>4. ~ Refuses(s.d, p)
      BY <1>6, <1>11
    <3>5. Followed(lidar, i, s')
      BY <1>3, <1>4, <3>1, <3>3, <3>4, TakenFollows
    <3> DEFINE m == Newest(lidar, i)
    <3>6. Tracks(lidar, m, s'.d.split) /\ FramesApart(lidar, m, s')
      BY <3>5 DEF Followed
    <3>7. lidar'.newest = m
      BY <1>5, <1>11
    <3> HIDE DEF m
    <3>8. Tracks(lidar', m, s'.d.split) /\ FramesApart(lidar', m, s')
      BY Zenon, <1>5, <3>6, SameStream
    <3>9. QED
      BY Zenon, <3>7, <3>8 DEF Steady
  <2>2. SeqInv'
    BY Zenon, <1>9, <2>1 DEF SeqInv
  <2>5. steady' \in BOOLEAN
    BY <1>1
  <2>6. s' \in States
    BY <1>9 DEF SeqState
  <2>7. QED
    BY <1>3, <1>5, <2>2, <2>5, <2>6 DEF Flags
<1>12. QED
  BY <1>10, <1>11

\* The two splits take it alike.
LEMMA ArrivePaces ==
  ASSUME SeqInv, NEW i \in Nat, i # lidar.newest, lidar.newest - i <= RANGE,
         NEW p, Numbers(lidar, s.d, i, p), p.kind = "msop", p.surface = 0,
         p.len = s.d.const.MSOP_LEN, p.id,
         NEW l, SameNewest(l, lidar), i < l.next, i \notin l.held, Arrive(p, i, l)
  PROVE  StaysInPace
<1> SUFFICES ASSUME PaceInv, PacedByFrames(s'.d), instep', steady'
             PROVE  paced' = s'.ret /\ InPace(lidar', s'.d)
  BY Zenon DEF StaysInPace, PaceInv
<1>1. Took(p) /\ lidar' = ArrivedAt(l, i) /\ instep /\ Accepts(s.d)
      /\ steady /\ ~ Unsettles(lidar, s.d, p, i)
  <2>1. Take(p, Accepts(s.d)) /\ lidar' = ArrivedAt(l, i)
        /\ steady' = (steady /\ (Accepts(s.d) => ~ Unsettles(lidar, s.d, p, i)))
    BY Zenon DEF Arrive, ArrivedAt
  <2>2. instep' = (instep /\ Accepts(s.d))
    BY <2>1 DEF Take
  <2>3. Took(p)
    BY Zenon, <2>1, TakeTook
  <2>4. QED
    BY Zenon, <2>1, <2>2, <2>3
<1>2. SeqPacket(p) /\ SeqKind(p) /\ p.seq \in Nat \ {0}
  BY DEF SeqKind, Numbers, SeqPacket
<1>3. /\ lidar \in SeqLidars /\ s \in States /\ SeqDecoder(s.d) /\ s.d.type = lidar.type
      /\ Steady(lidar, s)
  BY <1>1 DEF SeqInv, SeqState
<1>4. s'.d.type = s.d.type /\ s'.d.param = s.d.param
  BY <1>1, <1>2, PaceTook
<1>5. PacedByFrames(s.d) /\ lidar.type # "RSM1_JUMBO"
  BY Zenon, <1>3, <1>4 DEF PacedByFrames
<1>6. InPace(lidar, s.d)
  BY <1>1, <1>5 DEF PaceInv
<1>7. Before(lidar, i, s)
  BY <1>3 DEF Before, Steady
<1>8. ~ Passed(s.d, p)
  <2>1. ~ Refuses(s.d, p)
    BY Zenon, <1>1 DEF Refuses, Accepts
  <2>2. ~ (p.surface >= EMX_SURFACE_NUM)
    BY DEF EMX_SURFACE_NUM
  <2>3. QED
    BY <2>1, <2>2 DEF Passed
<1> DEFINE pre == newPacket(s.d.pre, p.seq)
           new == newPacket(s.d.split, p.seq - Less(lidar.type))
           m == Newest(lidar, i)
<1>9. pre.split = new.split /\ pre.state.prev = NumberOf(lidar, m)
  <2>1. pre = newPacket(s.d.pre, p.seq) /\ new = newPacket(s.d.split, p.seq - Less(lidar.type))
    OBVIOUS
  <2> HIDE DEF pre, new
  <2>2. pre.split = new.split /\ pre.state.prev = NumberOf(lidar, Newest(lidar, i))
    BY <1>1, <1>3, <1>5, <1>6, <1>7, <2>1, SameAnswer
  <2>3. QED
    BY Zenon, <2>2
<1>10. /\ Announces(s', new) /\ s'.d.pre = pre.state /\ paced' = pre.split
  <2> DEFINE q == preSplit(s, p)
             u == WithPre(s, q.pre)
             r == internalProcessPacket(u, p)
  <2>1. s' = r /\ paced' = q.new
    BY Zenon, <1>1 DEF Took
  <2>2. q = preSplit(s, p) /\ u = WithPre(s, q.pre) /\ r = internalProcessPacket(u, p)
    OBVIOUS
  <2> HIDE DEF q, u, r
  <2>3. /\ Announces(r, newPacket(s.d.split, p.seq - Less(s.d.type)))
        /\ r.d.pre = newPacket(s.d.pre, p.seq).state
        /\ q.new = newPacket(s.d.pre, p.seq).split
    BY <1>2, <1>3, <1>5, <1>8, <2>2, TakenPaces
  <2>4. QED
    BY Zenon, <1>3, <2>1, <2>3
<1>11. pre.split \in BOOLEAN /\ s'.ret \in BOOLEAN
  <2>1. s.d.pre \in SeqSplits /\ p.seq \in Nat
    BY <1>2, <1>3 DEF SeqDecoder
  <2>2. SeqTaken(s, p, s')
    <3>1. instep' \in BOOLEAN
      BY <1>1 DEF Took
    <3>2. QED
      BY <1>1, <1>2, PacketTook
  <2>3. s' \in States
    BY <2>2 DEF SeqTaken, Grew
  <2>4. QED
    BY <2>1, <2>3, NewPacketTyped DEF States
<1>12. lidar'.newest = m /\ lidar'.frame_len = lidar.frame_len
  <2>1. l \in SeqLidars
    BY DEF SameNewest
  <2>2. QED
    BY <1>1, <2>1, ArrivedTyped
<1>13. m \in Nat
  BY <1>3 DEF Newest, SeqLidars
<1> HIDE DEF pre, new, m
<1>14. paced' = s'.ret
  BY <1>9, <1>10, <1>11 DEF Announces
<1>15. NumberOf(lidar', m) = NumberOf(lidar, m)
  BY Zenon, <1>12 DEF NumberOf
<1>16. InPace(lidar', s'.d)
  BY <1>9, <1>10, <1>12, <1>13, <1>15 DEF InPace
<1>17. QED
  BY <1>14, <1>16

LEMMA OnwardTyped ==
  ASSUME NEW l \in SeqLidars, NEW k \in Nat, NEW x, x = [l EXCEPT !.next = @ + k]
  PROVE  SameNewest(x, l) /\ x.next = l.next + k /\ x.held = l.held
<1> DEFINE n == l.next + k
<1>1. n \in Nat /\ n >= l.next
  BY DEF SeqLidars
<1>2. x = [l EXCEPT !.next = n]
  OBVIOUS
<1>3. n = l.next + k
  OBVIOUS
<1> HIDE DEF n
<1>4. /\ x \in [type : SeqTypes, mode : {0, 3}, frame_len : Nat, next : Nat, newest : Int,
                held : SUBSET Nat]
      /\ x.type = l.type /\ x.frame_len = l.frame_len /\ x.newest = l.newest
      /\ x.next = n /\ x.held = l.held
  BY <1>1, <1>2 DEF SeqLidars
<1>5. Limit(x) = Limit(l) /\ LenOf(x.type) = LenOf(l.type)
  BY <1>4 DEF Limit
<1>6. /\ x.frame_len = LenOf(x.type) /\ -1 <= x.newest /\ x.newest < x.next
      /\ \A h \in x.held : h < x.next /\ h # x.newest /\ h < Limit(x)
  BY <1>1, <1>4, <1>5 DEF SeqLidars
<1>7. x \in SeqLidars
  BY Zenon, <1>4, <1>6 DEF SeqLidars
<1>8. QED
  BY <1>3, <1>4, <1>7 DEF SameNewest

\* Another packet held back, or none.
LEMMA HeldTyped ==
  ASSUME NEW l \in SeqLidars, NEW H \in SUBSET Nat,
         \A h \in H : h < l.next /\ h # l.newest /\ h < Limit(l),
         NEW x, x = [l EXCEPT !.held = H]
  PROVE  SameNewest(x, l) /\ x.next = l.next /\ x.held = H
<1>4. /\ x \in [type : SeqTypes, mode : {0, 3}, frame_len : Nat, next : Nat, newest : Int,
                held : SUBSET Nat]
      /\ x.type = l.type /\ x.frame_len = l.frame_len /\ x.newest = l.newest
      /\ x.next = l.next /\ x.held = H
  BY DEF SeqLidars
<1>5. Limit(x) = Limit(l) /\ LenOf(x.type) = LenOf(l.type)
  BY <1>4 DEF Limit
<1>6. /\ x.frame_len = LenOf(x.type) /\ -1 <= x.newest /\ x.newest < x.next
      /\ \A h \in x.held : h < x.next /\ h # x.newest /\ h < Limit(x)
  BY <1>4, <1>5 DEF SeqLidars
<1>7. x \in SeqLidars
  BY Zenon, <1>4, <1>6 DEF SeqLidars
<1>8. QED
  BY <1>4, <1>7 DEF SameNewest

\* The next packet to be sent is none of those before.
LEMMA NextPacket ==
  ASSUME SeqInv, More
  PROVE  /\ lidar \in SeqLidars /\ lidar.next \in Nat /\ lidar.next < Limit(lidar)
         /\ lidar.next # lidar.newest /\ lidar.newest - lidar.next <= RANGE
         /\ lidar.next \notin lidar.held
<1>1. lidar \in SeqLidars
  BY DEF SeqInv, SeqState
<1>2. lidar.next < Limit(lidar)
  BY Zenon DEF More, Limit
<1>3. lidar.next \in Nat /\ lidar.newest \in Int /\ lidar.newest < lidar.next
      /\ lidar.next \notin lidar.held
  BY <1>1 DEF SeqLidars
<1>4. QED
  BY <1>1, <1>2, <1>3 DEF RANGE

\* A packet like packet i that arrives as it should.
LEMMA PointsArrive ==
  ASSUME SeqInv, Flags, NEW i \in Nat, i < Limit(lidar), i # lidar.newest,
         lidar.newest - i <= RANGE,
         NEW p, p = SeqMsop(lidar, s.d, i), NEW q, q = p \/ q = [p EXCEPT !.raw = 0],
         NEW l, SameNewest(l, lidar), i < l.next, i \notin l.held, Arrive(q, i, l)
  PROVE  SeqInv' /\ Flags' /\ StaysInPace /\ lidar'.type = lidar.type
<1>1. lidar \in SeqLidars
  BY DEF SeqInv, SeqState
<1>2. /\ Numbers(lidar, s.d, i, p) /\ p.kind = "msop" /\ p.surface = 0
      /\ p.len = s.d.const.MSOP_LEN /\ p.id
  BY <1>1, SeqMsopSent
<1>3. CASE q = p
  BY Zenon, <1>2, <1>3, ArriveKeeps, ArrivePaces
<1>4. CASE q = [p EXCEPT !.raw = 0]
  <2>1. Altered(lidar, s.d, i, "raw", 0, [SeqMsop(lidar, s.d, i) EXCEPT !["raw"] = 0])
    <3>1. "raw" \in {"len", "id", "raw", "surface"}
      OBVIOUS
    <3>2. QED
      BY Zenon, <1>1, <3>1, SeqMsopChanged
  <2>2. Numbers(lidar, s.d, i, q) /\ q.kind = "msop" /\ q.surface = 0
    <3>1. Altered(lidar, s.d, i, "raw", 0, q)
      BY Zenon, <1>4, <2>1
    <3>2. QED
      BY <3>1 DEF Altered
  <2>3. {"len", "id"} \subseteq DOMAIN p
    BY Zenon DEF SeqMsop
  <2>4. q.len = p.len /\ q.id = p.id
    BY <1>4, <2>3
  <2>5. q.len = s.d.const.MSOP_LEN /\ q.id
    BY Zenon, <1>2, <2>4
  <2>6. QED
    BY Zenon, <2>2, <2>5, ArriveKeeps, ArrivePaces
<1>5. QED
  BY <1>3, <1>4

LEMMA SendSeqKeeps ==
  ASSUME SeqInv, Flags, Counters, SendSeq \/ SendFarSeq
  PROVE  SeqInv' /\ Flags' /\ Counters' /\ StaysInPace /\ lidar'.type = lidar.type
<1>1. PICK i, p, q, l : /\ i = lidar.next /\ p = SeqMsop(lidar, s.d, i) /\ l = Onward(1)
                        /\ q = p \/ q = [p EXCEPT !.raw = 0]
                        /\ Arrive(q, i, l)
  BY Zenon DEF SendSeq, SendFarSeq, NextSeq
<1>2. More /\ (used' = used \/ Trouble)
  BY Zenon DEF SendSeq, SendFarSeq
<1>3. /\ lidar \in SeqLidars /\ i \in Nat /\ i < Limit(lidar) /\ i # lidar.newest
      /\ lidar.newest - i <= RANGE /\ i \notin lidar.held
  BY <1>1, <1>2, NextPacket
<1>4. SameNewest(l, lidar) /\ l.next = i + 1 /\ l.held = lidar.held
  BY <1>1, <1>3, OnwardTyped DEF Onward
<1>5. i < l.next /\ i \notin l.held
  BY <1>3, <1>4
<1>6. SeqInv' /\ Flags' /\ StaysInPace /\ lidar'.type = lidar.type
  BY Zenon, <1>1, <1>3, <1>4, <1>5, PointsArrive
<1>7. Counters'
  BY <1>2, <1>6, CountersUsed
<1>8. QED
  BY <1>6, <1>7

\* A packet that was overtaken by at most MaxLag others.
LEMMA ReleaseSeqKeeps ==
  ASSUME SeqInv, Flags, Counters, ReleaseSeq
  PROVE  SeqInv' /\ Flags' /\ Counters' /\ StaysInPace /\ lidar'.type = lidar.type
<1> DEFINE none == {}
           l == [lidar EXCEPT !.held = none]
<1>1. PICK i \in lidar.held : /\ lidar.next - i <= MaxLag + 1
                              /\ Arrive(SeqMsop(lidar, s.d, i), i, l)
  BY Zenon DEF ReleaseSeq
<1>2. used' = used
  BY DEF ReleaseSeq
<1> DEFINE q == SeqMsop(lidar, s.d, i)
<1>3. lidar \in SeqLidars
  BY DEF SeqInv, SeqState
<1>4. /\ i \in Nat /\ i < Limit(lidar) /\ i # lidar.newest /\ i < lidar.next
      /\ lidar.newest \in Int /\ lidar.next \in Nat /\ lidar.newest < lidar.next
  BY <1>1, <1>3 DEF SeqLidars
<1>5. lidar.newest - i <= RANGE
  BY <1>1, <1>4, BoundsAssumption DEF RANGE
<1>6. none \in SUBSET Nat /\ \A h \in none : FALSE
  OBVIOUS
<1> HIDE DEF none
<1>7. SameNewest(l, lidar) /\ l.next = lidar.next /\ l.held = none
  BY <1>3, <1>6, HeldTyped
<1>8. q = SeqMsop(lidar, s.d, i) /\ Arrive(q, i, l)
  BY <1>1
<1> HIDE DEF q, l
<1>9. /\ Numbers(lidar, s.d, i, q) /\ q.kind = "msop" /\ q.surface = 0
      /\ q.len = s.d.const.MSOP_LEN /\ q.id
  BY <1>3, <1>4, <1>8, SeqMsopSent
<1>10. i < l.next /\ i \notin l.held
  BY <1>4, <1>6, <1>7
<1>11. SeqInv' /\ Flags' /\ StaysInPace /\ lidar'.type = lidar.type
  BY Zenon, <1>4, <1>5, <1>7, <1>8, <1>9, <1>10, ArriveKeeps, ArrivePaces
<1>12. Counters'
  BY <1>2, <1>11, CountersUsed
<1>13. QED
  BY <1>11, <1>12

LEMMA NothingTaken ==
  ASSUME SeqInv, s' = s
  PROVE  Ignored(s, s')
<1>1. s \in States /\ SeqDecoder(s.d)
  BY DEF SeqInv, SeqState
<1>2. QED
  BY <1>1 DEF Ignored

LEMMA LoseSeqKeeps ==
  ASSUME SeqInv, Flags, Counters, LoseSeq
  PROVE  SeqInv' /\ Flags' /\ Counters' /\ StaysInPace /\ lidar'.type = lidar.type
<1>1. /\ Trouble /\ s' = s /\ running' = running /\ paced' = paced /\ instep' = instep
      /\ steady' = steady
  BY DEF LoseSeq
<1>2. PICK k \in {1, RANGE - 1, RANGE} : lidar' = [lidar EXCEPT !.next = @ + k]
  BY Zenon DEF LoseSeq, Onward
<1>3. k \in Nat /\ lidar \in SeqLidars
  BY DEF RANGE, SeqInv, SeqState
<1>4. SameNewest(lidar', lidar)
  BY <1>2, <1>3, OnwardTyped
<1>5. SeqInv'
  BY <1>1, <1>4, NothingTaken, IgnoredKeeps
<1>6. Flags'
  BY <1>1 DEF Flags
<1>7. lidar'.type = lidar.type
  BY <1>4 DEF SameNewest
<1>8. Counters'
  BY <1>1, <1>7, CountersUsed
<1>9. StaysInPace
  BY <1>1, <1>4, PaceUnchanged DEF SamePace
<1>10. QED
  BY <1>5, <1>6, <1>7, <1>8, <1>9

LEMMA HoldSeqKeeps ==
  ASSUME SeqInv, Flags, Counters, HoldSeq
  PROVE  SeqInv' /\ Flags' /\ Counters' /\ StaysInPace /\ lidar'.type = lidar.type
<1>1. /\ Trouble /\ s' = s /\ running' = running /\ paced' = paced /\ instep' = instep
      /\ steady' = steady /\ More
  BY DEF HoldSeq
<1> DEFINE H == {lidar.next}
           l == [lidar EXCEPT !.next = @ + 1]
<1>2. lidar' = [l EXCEPT !.held = H] /\ H = {lidar.next} /\ l = [lidar EXCEPT !.next = @ + 1]
  BY Zenon DEF HoldSeq, Onward
<1> HIDE DEF H, l
<1>3. /\ lidar \in SeqLidars /\ lidar.next \in Nat /\ lidar.next < Limit(lidar)
      /\ lidar.next # lidar.newest
  BY <1>1, NextPacket
<1>4. SameNewest(l, lidar) /\ l.next = lidar.next + 1
  BY <1>2, <1>3, OnwardTyped
<1>5. l \in SeqLidars /\ l.newest = lidar.newest /\ Limit(l) = Limit(lidar)
  BY <1>4 DEF SameNewest, Limit
<1>6. H \in SUBSET Nat /\ \A h \in H : h < l.next /\ h # l.newest /\ h < Limit(l)
  BY <1>2, <1>3, <1>4, <1>5
<1>7. SameNewest(lidar', l)
  BY <1>2, <1>5, <1>6, HeldTyped
<1>8. SameNewest(lidar', lidar)
  BY <1>4, <1>7 DEF SameNewest
<1>9. SeqInv'
  BY <1>1, <1>8, NothingTaken, IgnoredKeeps
<1>10. Flags'
  BY <1>1 DEF Flags
<1>11. lidar'.type = lidar.type
  BY <1>8 DEF SameNewest
<1>12. Counters'
  BY <1>1, <1>11, CountersUsed
<1>13. StaysInPace
  BY <1>1, <1>8, PaceUnchanged DEF SamePace
<1>14. QED
  BY <1>9, <1>10, <1>11, <1>12, <1>13

\* A packet that is taken and adds no points.
LEMMA PassedKeeps ==
  ASSUME SeqInv, Flags, NEW p, SeqKind(p), p.kind = "msop" => Passed(s.d, p), Took(p),
         SameNewest(lidar', lidar), steady' = steady
  PROVE  SeqInv' /\ Flags' /\ lidar'.type = lidar.type
<1>1. SeqTaken(s, p, s') /\ running' \in BOOLEAN /\ instep' \in BOOLEAN
      /\ (s' \in States => paced' \in BOOLEAN)
  BY SeqTook
<1>2. Ignored(s, s')
  BY Zenon, <1>1 DEF SeqTaken
<1>3. s' \in States
  BY <1>2 DEF Ignored
<1>4. SeqInv'
  BY <1>2, IgnoredKeeps
<1>5. Flags'
  BY <1>1, <1>3 DEF Flags
<1>6. lidar'.type = lidar.type
  BY DEF SameNewest
<1>7. QED
  BY <1>4, <1>5, <1>6

\* A packet of points of the wrong length or without identifier, or one of a
\* surface that RSEMX does not have.
LEMMA WrongPacket ==
  ASSUME NEW l \in SeqLidars, NEW d, SeqDecoder(d), d.type = l.type, NEW i \in Nat, NEW p,
         \/ p = [SeqMsop(l, d, i) EXCEPT !.len = @ - 1]
         \/ p = [SeqMsop(l, d, i) EXCEPT !.id = FALSE]
         \/ p = [SeqMsop(l, d, i) EXCEPT !.surface = EMX_SURFACE_NUM],
         p.surface # 0 => l.type = "RSEMX"
  PROVE  SeqKind(p) /\ Passed(d, p)
<1> DEFINE q == SeqMsop(l, d, i)
           n == q.len - 1
           no == FALSE
           k == EMX_SURFACE_NUM
<1>1. q.len = d.const.MSOP_LEN
  BY SeqMsopSent
<1>2. d.const.MSOP_LEN \in Nat
  BY DEF SeqDecoder, Decoders, Consts
<1>3. CASE p = [q EXCEPT !.len = @ - 1]
  <2>1. "len" \in {"len", "id", "raw", "surface"} /\ p = [q EXCEPT !["len"] = n]
    BY <1>3
  <2> HIDE DEF n
  <2>2. Altered(l, d, i, "len", n, p)
    BY Zenon, <2>1, SeqMsopChanged
  <2>3. Numbers(l, d, i, p) /\ p.kind = "msop" /\ p.len = n
    BY <2>2 DEF Altered
  <2>4. p.len # d.const.MSOP_LEN
    BY <1>1, <1>2, <2>3 DEF n
  <2>5. QED
    BY <2>3, <2>4 DEF SeqKind, Numbers, Passed, Refuses
<1>4. CASE p = [q EXCEPT !.id = FALSE]
  <2>1. "id" \in {"len", "id", "raw", "surface"} /\ p = [q EXCEPT !["id"] = no]
    BY Zenon, <1>4
  <2>0. ~ no
    OBVIOUS
  <2> HIDE DEF no
  <2>2. Altered(l, d, i, "id", no, p)
    BY Zenon, <2>1, SeqMsopChanged
  <2>3. Numbers(l, d, i, p) /\ p.kind = "msop" /\ p.id = no
    BY <2>2 DEF Altered
  <2>4. ~ p.id
    BY Zenon, <2>0, <2>3
  <2>5. Passed(d, p)
    BY Zenon, <2>4 DEF Passed, Refuses
  <2>6. SeqKind(p)
    BY <2>3 DEF SeqKind, Numbers
  <2>7. QED
    BY <2>5, <2>6
<1>5. CASE p = [q EXCEPT !.surface = EMX_SURFACE_NUM]
  <2>1. "surface" \in {"len", "id", "raw", "surface"} /\ p = [q EXCEPT !["surface"] = k]
    BY Zenon, <1>5
  <2>2. Altered(l, d, i, "surface", k, p)
    BY Zenon, <2>1, SeqMsopChanged
  <2>3. Numbers(l, d, i, p) /\ p.kind = "msop" /\ p.surface = k
    BY <2>2 DEF Altered
  <2>4. k \in Nat \ {0}
    BY DEF EMX_SURFACE_NUM
  <2>5. d.type = "RSEMX"
    BY <2>3, <2>4
  <2>6. p.surface >= EMX_SURFACE_NUM
    BY <2>3, <2>4
  <2>7. QED
    BY <2>3, <2>5, <2>6 DEF SeqKind, Numbers, Passed
<1>6. QED
  BY Zenon, <1>3, <1>4, <1>5

LEMMA SendWrongSeqKeeps ==
  ASSUME SeqInv, Flags, Counters, SendWrongSeq
  PROVE  SeqInv' /\ Flags' /\ Counters' /\ StaysInPace /\ lidar'.type = lidar.type
<1>1. More /\ Trouble /\ lidar' = [lidar EXCEPT !.next = @ + 1] /\ steady' = steady
  BY DEF SendWrongSeq, Onward
<1>2. PICK i, p : /\ i = lidar.next
                  /\ \/ p = [SeqMsop(lidar, s.d, i) EXCEPT !.len = @ - 1]
                     \/ p = [SeqMsop(lidar, s.d, i) EXCEPT !.id = FALSE]
                     \/ p = [SeqMsop(lidar, s.d, i) EXCEPT !.surface = EMX_SURFACE_NUM]
                  /\ p.surface # 0 => lidar.type = "RSEMX"
                  /\ Take(p, FALSE)
  <2>1. \E p \in {[NextSeq EXCEPT !.len = @ - 1], [NextSeq EXCEPT !.id = FALSE],
                  [NextSeq EXCEPT !.surface = EMX_SURFACE_NUM]} :
          /\ p.surface # 0 => lidar.type = "RSEMX"
          /\ Take(p, FALSE)
    BY Zenon DEF SendWrongSeq
  <2>2. QED
    BY Zenon, <2>1 DEF NextSeq
<1>3. lidar \in SeqLidars /\ i \in Nat
  BY <1>1, <1>2, NextPacket
<1>4. SeqDecoder(s.d) /\ s.d.type = lidar.type
  BY DEF SeqInv, SeqState
<1>5. SeqKind(p) /\ Passed(s.d, p)
  BY Zenon, <1>2, <1>3, <1>4, WrongPacket
<1>6. Took(p)
  BY Zenon, <1>2, TakeTook
<1>7. SameNewest(lidar', lidar)
  BY <1>1, <1>3, OnwardTyped
<1>8. SeqInv' /\ Flags' /\ lidar'.type = lidar.type
  BY <1>1, <1>5, <1>6, <1>7, PassedKeeps
<1>9. Counters'
  BY <1>1, <1>8, CountersUsed
<1>10. ~ instep'
  BY <1>2 DEF Take
<1>11. StaysInPace
  BY Zenon, <1>10 DEF StaysInPace, PaceInv
<1>12. QED
  BY <1>8, <1>9, <1>11

\* Packets without points.
LEMMA NoPointsKeep ==
  ASSUME SeqInv, Flags, Counters, SendSeqDifop \/ SendImu
  PROVE  SeqInv' /\ Flags' /\ Counters' /\ StaysInPace /\ lidar'.type = lidar.type
<1>1. lidar' = lidar /\ steady' = steady /\ (used' = used \/ Trouble)
  BY DEF SendSeqDifop, SendImu
<1>2. \/ \E wrong : Take([SeqDifop(lidar, s.d) EXCEPT !.len = @ - wrong], TRUE)
      \/ \E p \in ImuPackets(s.d) : Take(p, TRUE)
  BY Zenon DEF SendSeqDifop, SendImu
<1>3. PICK wrong, p : /\ \/ p = [SeqDifop(lidar, s.d) EXCEPT !.len = @ - wrong]
                         \/ p \in ImuPackets(s.d)
                      /\ Take(p, TRUE)
  BY Zenon, <1>2
<1>4. p.kind \in {"difop", "imu"}
  BY <1>3 DEF SeqDifop, ImuPackets, Imu
<1>5. Took(p)
  BY Zenon, <1>3, TakeTook
<1>6. SeqKind(p) /\ p.kind # "msop"
  BY <1>4 DEF SeqKind
<1>7. SameNewest(lidar', lidar)
  BY <1>1 DEF SeqInv, SeqState, SameNewest
<1>8. SeqInv' /\ Flags' /\ lidar'.type = lidar.type
  BY <1>1, <1>5, <1>6, <1>7, PassedKeeps
<1>9. Counters'
  BY <1>1, <1>8, CountersUsed
<1>10. SamePace(s.d, s'.d) /\ paced' = s'.ret
  BY <1>5, <1>6, PaceTook
<1>11. instep' => instep
  BY <1>3 DEF Take
<1>12. StaysInPace
  BY <1>1, <1>7, <1>10, <1>11, PaceUnchanged
<1>13. QED
  BY <1>8, <1>9, <1>12

LEMMA SeqStopKeeps ==
  ASSUME SeqInv, Flags, Counters, StopFront
  PROVE  SeqInv' /\ Flags' /\ Counters' /\ StaysInPace /\ lidar'.type = lidar.type
<1>1. /\ Trouble /\ running' = FALSE /\ s' = [s EXCEPT !.cloud = EmptyCloud] /\ steady' = FALSE
      /\ lidar' = lidar /\ paced' = paced /\ instep' = instep
  BY DEF StopFront
<1>2. s \in States /\ SeqDecoder(s.d)
  BY DEF SeqInv, SeqState
<1>3. s' \in States /\ s'.d = s.d /\ s'.delivered = s.delivered /\ s'.cloud.frames = {}
  BY <1>1, <1>2, CloudDropped
<1>4. Ignored(s, s')
  BY <1>2, <1>3 DEF Ignored
<1>5. SameNewest(lidar', lidar)
  BY <1>1 DEF SeqInv, SeqState, SameNewest
<1>6. SeqInv'
  BY <1>1, <1>4, <1>5, IgnoredKeeps
<1>7. Flags'
  BY <1>1 DEF Flags
<1>8. Counters'
  BY <1>1, CountersUsed
<1>9. StaysInPace
  BY Zenon, <1>1 DEF StaysInPace, PaceInv
<1>10. QED
  BY <1>1, <1>6, <1>7, <1>8, <1>9

LEMMA SeqStartKeeps ==
  ASSUME SeqInv, Flags, Counters, StartFront \/ UNCHANGED frontVars
  PROVE  SeqInv' /\ Flags' /\ Counters' /\ StaysInPace /\ lidar'.type = lidar.type
<1>1. /\ s' = s /\ lidar' = lidar /\ used' = used /\ paced' = paced /\ instep' = instep
      /\ steady' = steady /\ (running' = TRUE \/ running' = running)
  BY DEF StartFront, frontVars
<1>2. SeqInv'
  BY Zenon, <1>1 DEF SeqInv
<1>3. Flags'
  BY <1>1 DEF Flags
<1>4. Counters'
  BY <1>1, CountersUsed
<1>5. StaysInPace
  BY Zenon, <1>1 DEF StaysInPace, PaceInv
<1>6. QED
  BY <1>1, <1>2, <1>3, <1>4, <1>5

LEMMA SeqStep ==
  ASSUME SeqInv, Flags, Counters, [FrontNext]_frontVars
  PROVE  SeqInv' /\ Flags' /\ Counters' /\ StaysInPace /\ lidar'.type = lidar.type
<1>1. lidar.type \in SeqTypes
  BY DEF SeqInv, SeqState, SeqLidars
<1>2. lidar.type \notin MechTypes /\ lidar.type \notin AiryTypes
  BY <1>1 DEF MechTypes, AiryTypes, SeqTypes
<1>3. ~ (SendMsop \/ SendPoorMsop \/ SendWrongMsop \/ SendNoPoints \/ LoseMsop
         \/ SendDifop \/ SendPoorDifop \/ SendWrongDifop \/ ChangeSettings)
  BY Zenon, <1>2 DEF SendMsop, SendPoorMsop, SendWrongMsop, SendNoPoints, LoseMsop, SendDifop,
     SendPoorDifop, SendWrongDifop, ChangeSettings, Emit
<1>4. \/ SendSeq \/ LoseSeq \/ HoldSeq \/ ReleaseSeq \/ SendFarSeq \/ SendWrongSeq
      \/ SendSeqDifop \/ SendImu \/ StopFront \/ StartFront \/ UNCHANGED frontVars
  BY Zenon, <1>3 DEF FrontNext
<1>5. QED
  BY Zenon, <1>4, SendSeqKeeps, LoseSeqKeeps, HoldSeqKeeps, ReleaseSeqKeeps, SendWrongSeqKeeps,
     NoPointsKeep, SeqStopKeeps, SeqStartKeeps

\* The decoder of a lidar that numbers its packets, as it is made.
SeqMadeFor(type, e) ==
  SeqDecoder(e) /\ e.type = type /\ e.split.prev = 0 /\ ~ e.split.looped /\ e.pre.prev = 0
LEMMA SplitFresh == SplitStrategyBySeq.prev = 0 /\ ~ SplitStrategyBySeq.looped
<1> DEFINE no == FALSE
<1>1. SplitStrategyBySeq = [kind |-> "seq", prev |-> 0, max |-> 0, looped |-> no] /\ ~ no
  BY DEF SplitStrategyBySeq
<1> HIDE DEF no
<1>2. SplitStrategyBySeq.prev = 0 /\ SplitStrategyBySeq.looped = no
  BY <1>1
<1>3. QED
  BY Zenon, <1>1, <1>2

\* Packets of a second, as the constructors give them.
PacketRates == {288, 630, 1260, 1520, 2270}
LEMMA DecoderSeqTyped ==
  ASSUME NEW type \in SeqTypes, NEW const \in Consts, NEW param \in Params,
         NEW packets \in PacketRates,
         type = "RSM1_JUMBO" => const.MSOP_LEN = RSM1_JUMBO_Packets.msop
  PROVE  SeqMadeFor(type, DecoderSeq(type, const, param, packets))
<1> DEFINE d == Decoder(type, const, param)
           dur == 100000000 \div packets
           yes == TRUE
           u == [d EXCEPT !.packet_duration = dur]
           e == [u EXCEPT !.ready = yes]
<1>1. DecoderSeq(type, const, param, packets) = [d EXCEPT !.packet_duration = dur, !.ready = yes]
  BY SMT DEF DecoderSeq
<1>2. dur \in Nat /\ dur <= 1000000
  <2>1. 100000000 \div 288 = 347222 /\ 100000000 \div 630 = 158730 /\ 100000000 \div 1260 = 79365
        /\ 100000000 \div 1520 = 65789 /\ 100000000 \div 2270 = 44052
    BY SMT
  <2>2. dur \in {347222, 158730, 79365, 65789, 44052}
    BY SMT, <2>1 DEF PacketRates
  <2> HIDE DEF dur
  <2>3. QED
    BY SMT, <2>2
<1>3. yes \in BOOLEAN
  BY SMT
<1>4. Fresh(d, type, const, param)
  <2>1. type \in AllTypes
    BY SMT DEF AllTypes
  <2> HIDE DEF dur
  <2>2. QED
    BY <2>1, DecoderTyped
<1>5. d \in Decoders /\ d.type = type /\ d.const = const /\ d.split = SplitStrategyBySeq
      /\ d.pre = SplitStrategyBySeq /\ SplitStrategyBySeq \in SeqSplits
  BY SMT, <1>4 DEF Fresh
<1> HIDE DEF d, dur, yes
<1>6. u \in Decoders /\ u.type = type /\ u.const = const /\ u.split = SplitStrategyBySeq
      /\ u.pre = SplitStrategyBySeq /\ u.packet_duration = dur
  BY <1>2, <1>5 DEF Decoders
<1>7. DecoderSeq(type, const, param, packets) = e
  BY SMT, <1>1, <1>5 DEF Decoders
<1> HIDE DEF u
<1>8. e \in Decoders /\ e.type = type /\ e.const = const /\ e.split = SplitStrategyBySeq
      /\ e.pre = SplitStrategyBySeq /\ e.packet_duration = dur
  BY <1>3, <1>6 DEF Decoders
<1> HIDE DEF e
<1>9. SeqDecoder(e)
  BY SMT, <1>2, <1>5, <1>8 DEF SeqDecoder
<1>10. SeqMadeFor(type, e)
  BY Zenon, <1>8, <1>9, SplitFresh DEF SeqMadeFor
<1>11. QED
  BY Zenon, <1>7, <1>10

LEMMA SeqConstTyped ==
  ASSUME NEW msop, NEW difop, NEW lasers, NEW blks, NEW chans, NEW min, NEW max, NEW res,
         Sizes(msop, difop, lasers, blks, chans, min, max, res, 0, 0)
  PROVE  RSDecoderConstParam(msop, difop, lasers, blks, chans, min, max, res) \in Consts
BY DEF Sizes, Consts, RSDecoderConstParam
LEMMA SeqConsts ==
  /\ RSM1_getConstParam \in Consts /\ RSM1_JUMBO_getConstParam \in Consts
  /\ RSM2_getConstParam \in Consts /\ RSM3_getConstParam \in Consts
  /\ RSE1_getConstParam \in Consts /\ RSMX_getConstParam \in Consts
  /\ RSEMX_getConstParam \in Consts
  /\ RSM1_JUMBO_getConstParam.MSOP_LEN = RSM1_JUMBO_Packets.msop
<1>2. RSM1_getConstParam \in Consts
  <2>1. Sizes(1210, 256, 5, 25, 5, 2000, 2000000, 50, 0, 0)
    BY SMT DEF Sizes
  <2> DEFINE c == RSDecoderConstParam(1210, 256, 5, 25, 5, 2000, 2000000, 50)
  <2>2. c \in Consts
    BY SMT, <2>1, SeqConstTyped
  <2>3. RSM1_getConstParam = c
    BY SMT DEF RSM1_getConstParam
  <2> HIDE DEF c
  <2>4. QED
    BY SMT, <2>2, <2>3
<1>3. RSM1_JUMBO_getConstParam \in Consts
  <2>1. Sizes(62152, 256, 5, 25, 5, 2000, 2000000, 50, 0, 0)
    BY SMT DEF Sizes
  <2> DEFINE c == RSDecoderConstParam(62152, 256, 5, 25, 5, 2000, 2000000, 50)
  <2>2. c \in Consts
    BY SMT, <2>1, SeqConstTyped
  <2>3. RSM1_JUMBO_getConstParam = c
    BY SMT DEF RSM1_JUMBO_getConstParam
  <2> HIDE DEF c
  <2>4. QED
    BY SMT, <2>2, <2>3
<1>4. RSM2_getConstParam \in Consts
  <2>1. Sizes(1342, 256, 5, 25, 5, 2000, 2500000, 50, 0, 0)
    BY SMT DEF Sizes
  <2> DEFINE c == RSDecoderConstParam(1342, 256, 5, 25, 5, 2000, 2500000, 50)
  <2>2. c \in Consts
    BY SMT, <2>1, SeqConstTyped
  <2>3. RSM2_getConstParam = c
    BY SMT DEF RSM2_getConstParam
  <2> HIDE DEF c
  <2>4. QED
    BY SMT, <2>2, <2>3
<1>5. RSM3_getConstParam \in Consts
  <2>1. Sizes(1448, 512, 28, 5, 28, 1000, 3000000, 50, 0, 0)
    BY SMT DEF Sizes
  <2> DEFINE c == RSDecoderConstParam(1448, 512, 28, 5, 28, 1000, 3000000, 50)
  <2>2. c \in Consts
    BY SMT, <2>1, SeqConstTyped
  <2>3. RSM3_getConstParam = c
    BY SMT DEF RSM3_getConstParam
  <2> HIDE DEF c
  <2>4. QED
    BY SMT, <2>2, <2>3
<1>6. RSE1_getConstParam \in Consts
  <2>1. Sizes(1200, 256, 1, 96, 1, 0, 2000000, 50, 0, 0)
    BY SMT DEF Sizes
  <2> DEFINE c == RSDecoderConstParam(1200, 256, 1, 96, 1, 0, 2000000, 50)
  <2>2. c \in Consts
    BY SMT, <2>1, SeqConstTyped
  <2>3. RSE1_getConstParam = c
    BY SMT DEF RSE1_getConstParam
  <2> HIDE DEF c
  <2>4. QED
    BY SMT, <2>2, <2>3
<1>7. RSMX_getConstParam \in Consts
  <2>1. Sizes(1404, 256, 2, 50, 2, 2000, 2000000, 50, 0, 0)
    BY SMT DEF Sizes
  <2> DEFINE c == RSDecoderConstParam(1404, 256, 2, 50, 2, 2000, 2000000, 50)
  <2>2. c \in Consts
    BY SMT, <2>1, SeqConstTyped
  <2>3. RSMX_getConstParam = c
    BY SMT DEF RSMX_getConstParam
  <2> HIDE DEF c
  <2>4. QED
    BY SMT, <2>2, <2>3
<1>8. RSEMX_getConstParam \in Consts
  <2>1. Sizes(812, 654, 1, 192, 1, 2000, 3000000, 50, 0, 0)
    BY SMT DEF Sizes
  <2> DEFINE c == RSDecoderConstParam(812, 654, 1, 192, 1, 2000, 3000000, 50)
  <2>2. c \in Consts
    BY SMT, <2>1, SeqConstTyped
  <2>3. RSEMX_getConstParam = c
    BY SMT DEF RSEMX_getConstParam
  <2> HIDE DEF c
  <2>4. QED
    BY SMT, <2>2, <2>3
<1>9. RSM1_JUMBO_getConstParam.MSOP_LEN = RSM1_JUMBO_Packets.msop
  <2> DEFINE f == <<RSM1_JUMBO_Packets, RSM1_JUMBO_getConstParam>>
  <2>1. f \in Formats
    BY Zenon DEF Formats
  <2>2. f[1].msop = f[2].MSOP_LEN
    BY Zenon, <2>1, PacketsFit
  <2>3. f[1] = RSM1_JUMBO_Packets /\ f[2] = RSM1_JUMBO_getConstParam
    OBVIOUS
  <2>4. QED
    BY Zenon, <2>2, <2>3
<1>10. QED
  BY <1>2, <1>3, <1>4, <1>5, <1>6, <1>7, <1>8, <1>9

LEMMA SeqCreated ==
  ASSUME NEW type \in SeqTypes, NEW param \in Params
  PROVE  SeqMadeFor(type, createDecoder(type, param))
<1>1. CASE type = "RSM1"
  <2>1. createDecoder(type, param) = DecoderSeq(type, RSM1_getConstParam, param, 630)
    BY SMT, <1>1 DEF createDecoder, DecoderRSM1
  <2>2. QED
    BY <1>1, <2>1, SeqConsts, DecoderSeqTyped DEF PacketRates
<1>2. CASE type = "RSM1_JUMBO"
  <2>1. createDecoder(type, param) = DecoderSeq(type, RSM1_JUMBO_getConstParam, param, 630)
    BY SMT, <1>2 DEF createDecoder, DecoderRSM1_Jumbo
  <2>2. QED
    BY <1>2, <2>1, SeqConsts, DecoderSeqTyped DEF PacketRates
<1>3. CASE type = "RSM2"
  <2>1. createDecoder(type, param) = DecoderSeq(type, RSM2_getConstParam, param, 1260)
    BY SMT, <1>3 DEF createDecoder, DecoderRSM2
  <2>2. QED
    BY <1>3, <2>1, SeqConsts, DecoderSeqTyped DEF PacketRates
<1>4. CASE type = "RSM3"
  <2>1. createDecoder(type, param) = DecoderSeq(type, RSM3_getConstParam, param, 2270)
    BY SMT, <1>4 DEF createDecoder, DecoderRSM3
  <2>2. QED
    BY <1>4, <2>1, SeqConsts, DecoderSeqTyped DEF PacketRates
<1>5. CASE type = "RSE1"
  <2>1. createDecoder(type, param) = DecoderSeq(type, RSE1_getConstParam, param, 288)
    BY SMT, <1>5 DEF createDecoder, DecoderRSE1
  <2>2. QED
    BY <1>5, <2>1, SeqConsts, DecoderSeqTyped DEF PacketRates
<1>6. CASE type = "RSMX"
  <2>1. createDecoder(type, param) = DecoderSeq(type, RSMX_getConstParam, param, 630)
    BY SMT, <1>6 DEF createDecoder, DecoderRSMX
  <2>2. QED
    BY <1>6, <2>1, SeqConsts, DecoderSeqTyped DEF PacketRates
<1>7. CASE type = "RSEMX"
  <2> DEFINE d == DecoderSeq(type, RSEMX_getConstParam, param, 1520)
             no == FALSE
             e == [d EXCEPT !.ready = no]
  <2>1. createDecoder(type, param) = e
    BY SMT, <1>7 DEF createDecoder, DecoderRSEMX
  <2>2. SeqMadeFor(type, d) /\ no \in BOOLEAN
    BY <1>7, SeqConsts, DecoderSeqTyped DEF PacketRates
  <2> HIDE DEF d, no
  <2>3. d \in Decoders /\ e \in Decoders
    BY <2>2 DEF SeqMadeFor, SeqDecoder, Decoders
  <2>4. /\ e.type = d.type /\ e.const = d.const /\ e.split = d.split /\ e.pre = d.pre
        /\ e.packet_duration = d.packet_duration
    BY <2>3 DEF Decoders
  <2> HIDE DEF e
  <2>5. SeqDecoder(e)
    BY <2>2, <2>3, <2>4 DEF SeqMadeFor, SeqDecoder
  <2>6. SeqMadeFor(type, e)
    BY Zenon, <2>2, <2>4, <2>5 DEF SeqMadeFor
  <2>7. QED
    BY Zenon, <2>1, <2>6
<1>8. QED
  BY <1>1, <1>2, <1>3, <1>4, <1>5, <1>6, <1>7 DEF SeqTypes

\* The sensor as it begins, just before the end of a frame.
LEMMA NewSeqSensor ==
  ASSUME NEW type \in SeqTypes, NEW mode \in {0, 3}, NEW l, l = Numbered(type, mode)
  PROVE  l \in SeqLidars /\ l.type = type /\ l.newest = -1
<1> DEFINE len == LenOf(type)
           n == len - (IF len = 3 THEN 1 ELSE 4)
           none == {}
<1>1. l = [type |-> type, mode |-> mode, frame_len |-> len, next |-> n, newest |-> -1, held |-> none]
  BY Zenon DEF Numbered, LenOf
<1>2. FrameLen \in Nat /\ FrameLen > 20
  BY BoundsAssumption DEF RANGE
<1>3. len \in Nat /\ n \in Nat
  BY <1>2 DEF LenOf
<1>4. none \in SUBSET Nat /\ \A i \in none : FALSE
  OBVIOUS
<1>0. len = LenOf(type)
  OBVIOUS
<1> HIDE DEF len, n, none
<1>5. /\ l \in [type : SeqTypes, mode : {0, 3}, frame_len : Nat, next : Nat, newest : Int,
                held : SUBSET Nat]
      /\ l.type = type /\ l.frame_len = len /\ l.next = n /\ l.newest = -1 /\ l.held = none
  BY <1>1, <1>3, <1>4
<1>6. /\ l.frame_len = LenOf(l.type) /\ -1 <= l.newest /\ l.newest < l.next
      /\ \A i \in l.held : i < l.next /\ i # l.newest /\ i < Limit(l)
  BY <1>0, <1>3, <1>4, <1>5
<1>7. l \in SeqLidars
  BY Zenon, <1>5, <1>6 DEF SeqLidars
<1>8. QED
  BY <1>5, <1>7

LEMMA SeqStarts ==
  ASSUME NEW type, NEW param, BeganSeq(type, param)
  PROVE  SeqInv /\ lidar.type = type /\ (paced = FALSE => PaceInv)
<1> DEFINE d == createDecoder(type, param)
<1>1. type \in SeqTypes /\ param \in Params /\ s = StateOf(d)
  BY Zenon DEF BeganSeq, SeqSensor
<1>2. PICK mode \in {0, 3} : lidar = Numbered(type, mode)
  BY DEF BeganSeq, SeqSensor
<1>3. SeqMadeFor(type, d)
  BY <1>1, SeqCreated
<1> HIDE DEF d
<1>4. SeqDecoder(d) /\ d.type = type /\ d.split.prev = 0 /\ ~ d.split.looped /\ d \in Decoders
      /\ d.pre.prev = 0
  BY <1>3 DEF SeqMadeFor, SeqDecoder
<1>5. s \in States /\ s.d = d /\ NoFrames(s) /\ s.ret = FALSE
  BY <1>1, <1>4, FirstState
<1>6. lidar \in SeqLidars /\ lidar.type = type /\ lidar.newest = -1
  BY <1>1, <1>2, NewSeqSensor
<1>7. SeqState(lidar, s)
  BY <1>4, <1>5, <1>6 DEF SeqState, NoFrames
<1>8. Steady(lidar, s)
  <2> DEFINE m == lidar.newest
  <2>1. m < 0
    BY <1>6
  <2> HIDE DEF m
  <2>2. Tracks(lidar, m, s.d.split)
    BY Zenon, <1>4, <1>5, <2>1 DEF Tracks
  <2>3. FramesApart(lidar, m, s)
    BY Zenon, <1>5, <2>1 DEF FramesApart, NoFrames
  <2>4. QED
    BY <2>2, <2>3 DEF Steady, m
<1>9. InPace(lidar, s.d)
  BY <1>4, <1>5, <1>6 DEF InPace
<1>10. paced = FALSE => PaceInv
  BY Zenon, <1>5, <1>9 DEF PaceInv
<1>11. SeqInv
  BY <1>7, <1>8 DEF SeqInv
<1>12. QED
  BY <1>6, <1>10, <1>11

-----------------------------------------------------------------------------
(* The theorems *)

\* The inductive invariant of the front end.
FrontInv ==
  /\ lidar.type \in LidarTypes /\ Counters /\ Flags
  /\ MechInv \/ SeqInv

\* A front end as the factory and init make it, for every type and every setting.
LEMMA FrontStarts ==
  ASSUME FrontInit
  PROVE  FrontInv
<1>1. PICK type, param : BeganMech(type, param) \/ BeganSeq(type, param)
  BY Zenon, Began
<1>2. Flags /\ Counters
  BY Began, CountersStart
<1>3. type \in LidarTypes
  BY <1>1 DEF BeganMech, BeganSeq
<1>4. (MechInv \/ SeqInv) /\ lidar.type = type
  BY Zenon, <1>1, MechStarts, SeqStarts
<1>5. QED
  BY <1>2, <1>3, <1>4 DEF FrontInv

\* A packet sent, lost, held back, late or damaged; DIFOP and IMU packets; a change
\* of the settings; stop and start.
LEMMA FrontSteps ==
  ASSUME FrontInv, [FrontNext]_frontVars
  PROVE  FrontInv'
<1>1. (MechInv' \/ SeqInv') /\ Flags' /\ Counters' /\ lidar'.type = lidar.type
  BY Zenon, MechStep, SeqStep DEF FrontInv
<1>2. lidar.type \in LidarTypes
  BY DEF FrontInv
<1>3. lidar'.type \in LidarTypes
  BY <1>1, <1>2
<1>4. QED
  BY Zenon, <1>1, <1>3 DEF FrontInv

LEMMA FrontAlways == FrontSpec => []FrontInv
<1>1. FrontInit => FrontInv
  BY FrontStarts
<1>2. FrontInv /\ [FrontNext]_frontVars => FrontInv'
  BY FrontSteps
<1>3. QED
  BY <1>1, <1>2, PTL DEF FrontSpec

\* What FrontTypeOK asks follows from the typed states of the two invariants.
LEMMA StatesTyped ==
  ASSUME s \in States, lidar.type \in LidarTypes, s.d.type = lidar.type, Flags, Counters,
         s.cloud.frames \cup s.delivered \subseteq 0 .. MaxFrames
  PROVE  FrontTypeOK
<1>1. s.d \in Decoders /\ s.cloud \in Clouds /\ s.out \in Outs /\ s.imus \in Nat /\ s.ret \in BOOLEAN
  BY DEF States
<1>2. /\ s.d.echo \in {"single", "dual"} /\ s.d.ready \in BOOLEAN /\ s.d.split_blks \in Nat
      /\ s.d.blind \in Nat /\ s.d.prev_point_ts \in Nat /\ s.cloud.points \in Nat
      /\ s.out.height * s.out.width <= s.out.points
  BY <1>1 DEF Decoders, Echoes, Clouds, Outs
<1>3. MaxFrames \in Nat
  BY BoundsAssumption
<1>4. 0 .. MaxFrames \subseteq 0 .. MaxFrames + 1
  BY <1>3
<1>5. s.cloud.frames \cup s.delivered \subseteq 0 .. MaxFrames + 1
  BY Zenon, <1>4
<1>6. {running, paced, instep, steady, s.ret} \subseteq BOOLEAN
  BY Zenon, <1>1 DEF Flags
<1>7. {s.d.split_blks, s.d.blind, s.d.prev_point_ts, s.cloud.points, s.imus} \subseteq Nat
  BY <1>1, <1>2
<1>8. used.packets <= MaxMsop /\ used.trouble <= TroubleBound
  BY DEF Counters
<1>9. s.d.type \in LidarTypes
  OBVIOUS
<1>10. QED
  BY Zenon, <1>2, <1>5, <1>6, <1>7, <1>8, <1>9 DEF FrontTypeOK

\* Whatever packets come, in whatever order and across restarts of the driver,
\* every decoder the factory makes keeps well-formed settings, split_blks_ and
\* times, and a cloud handed over counts in height x width no more points than it
\* has: setPointCloudHeader, newBlock, processDifopPkt and the RSBP, RSP80, RSAIRY
\* and RSFAIRY decoders that learn from a packet.
THEOREM FrontTyped == FrontSpec => []FrontTypeOK
<1>1. FrontInv => FrontTypeOK
  <2> SUFFICES ASSUME FrontInv PROVE FrontTypeOK
    OBVIOUS
  <2>1. Flags /\ Counters /\ lidar.type \in LidarTypes /\ (MechInv \/ SeqInv)
    BY DEF FrontInv
  <2>2. CASE MechInv
    BY <2>1, <2>2, StatesTyped DEF MechInv, MechState, NoFrames
  <2>3. CASE SeqInv
    BY <2>1, <2>3, StatesTyped DEF SeqInv, SeqState
  <2>4. QED
    BY <2>1, <2>2, <2>3
<1>2. QED
  BY <1>1, FrontAlways, PTL

\* SplitStrategyByNum by the count of blocks (split_frame_mode 2): once a DIFOP
\* packet has told the decoder the speed and the returns of the sensor, split_blks_
\* is that of one turn, to two firings, for every type whose DIFOP packets keep it.
THEOREM OneTurn == FrontSpec => []FixedSplitIsOneTurn
<1>1. FrontInv => FixedSplitIsOneTurn
  <2> SUFFICES ASSUME FrontInv PROVE FixedSplitIsOneTurn
    OBVIOUS
  <2>1. SeqInv => lidar.type \notin MechTypes
    BY DEF SeqInv, SeqState, SeqLidars, SeqTypes, MechTypes, AiryTypes
  <2>2. lidar.type \in MechTypes => MechInv
    BY Zenon, <2>1 DEF FrontInv
  <2>3. QED
    BY <2>2, CountsOneTurn
<1>2. QED
  BY <1>1, FrontAlways, PTL

\* A set with no element but one has at most one.
LEMMA AtMostOne ==
  ASSUME NEW x, NEW S, S \subseteq {x}
  PROVE  Cardinality(S) <= 1
<1>1. S = {} \/ S = {x}
  OBVIOUS
<1>2. CASE S = {}
  <2>1. Cardinality(S) = 0
    BY <1>2, FS_EmptySet
  <2>2. QED
    BY <2>1
<1>3. CASE S = {x}
  <2>1. Cardinality(S) = 1
    BY <1>3, FS_Singleton
  <2>2. QED
    BY <2>1
<1>4. QED
  BY <1>1, <1>2, <1>3

\* Frames apart means one frame in a cloud and no frame in two clouds.
LEMMA ApartInOneCloud ==
  ASSUME NEW l \in SeqLidars, NEW t \in States, Steady(l, t)
  PROVE  Cardinality(t.cloud.frames) <= 1 /\ t.cloud.frames \cap t.delivered = {}
<1> DEFINE m == l.newest
           now == FrameOf(l, m)
           fs == t.cloud.frames
<1>1. FramesApart(l, m, t)
  BY DEF Steady
<1>2. now \in Int
  <2>1. CASE m < 0
    <3>1. m = -1 /\ l.frame_len \in Nat /\ l.frame_len > 0
      BY <2>1, BoundsAssumption DEF SeqLidars, LenOf, RANGE
    <3>2. QED
      BY <3>1 DEF FrameOf
  <2>2. CASE ~ (m < 0)
    <3>1. m \in Nat
      BY <2>2 DEF SeqLidars
    <3>2. QED
      BY <3>1, NumbersTyped
  <2>3. QED
    BY <2>1, <2>2
<1> HIDE DEF m, now
<1>3. fs \subseteq {now} /\ (now \in t.delivered => fs = {})
  <2>1. CASE m < 0
    BY <1>1, <2>1 DEF FramesApart
  <2>2. CASE ~ (m < 0) /\ l.type = "RSM1"
    BY <1>1, <2>2 DEF FramesApart, Ended, now
  <2>3. CASE ~ (m < 0) /\ l.type # "RSM1"
    <3>1. OneFrame(now, t)
      BY <1>1, <2>3 DEF FramesApart, now
    <3>2. now \notin t.delivered
      BY <1>2, <3>1 DEF OneFrame
    <3>3. QED
      BY <3>1, <3>2 DEF OneFrame
  <2>4. QED
    BY <2>1, <2>2, <2>3
<1> HIDE DEF fs
<1>4. Cardinality(fs) <= 1
  BY <1>3, AtMostOne
<1>5. fs \cap t.delivered = {}
  BY <1>3
<1>6. QED
  BY <1>4, <1>5 DEF fs

\* SplitStrategyBySeq::newPacket: while fewer than RANGE packets are lost in a row
\* or overtake another (unless Unsettles), for every length of a frame above
\* 2 * RANGE and the jumbo datagrams of RSM1, a cloud under construction has points
\* of one frame only, and of none that was already handed over.
THEOREM OneCloud == FrontSpec => []FrameInOneCloud
<1>1. FrontInv => FrameInOneCloud
  <2> SUFFICES ASSUME FrontInv, steady
               PROVE  Cardinality(s.cloud.frames) <= 1 /\ s.cloud.frames \cap s.delivered = {}
    BY Zenon DEF FrameInOneCloud
  <2>1. CASE MechInv
    <3>1. s.cloud.frames = {}
      BY <2>1 DEF MechInv, MechState, NoFrames
    <3>2. Cardinality(s.cloud.frames) = 0
      BY <3>1, FS_EmptySet
    <3>3. QED
      BY <3>1, <3>2
  <2>2. CASE SeqInv
    BY <2>2, ApartInOneCloud DEF SeqInv, SeqState
  <2>3. QED
    BY <2>1, <2>2 DEF FrontInv
<1>2. QED
  BY <1>1, FrontAlways, PTL

\* The copy of the split that paces a replayed file (isNewFrameCommon) announces
\* a new frame with exactly the packets in which the decoder of a lidar that
\* numbers its packets begins one, although RSEMX counts from 0 and the copy
\* from 1: neither losses, nor late and damaged packets, nor the settings that
\* come in between let the two get apart.
THEOREM SplitsInPace == FrontSpec => [](lidar.type \in SeqTypes => PacedBySplits)
<1> DEFINE Paces == lidar.type \in SeqTypes => PaceInv
<1>1. FrontInit => Paces
  <2> SUFFICES ASSUME FrontInit PROVE Paces
    OBVIOUS
  <2>1. PICK type, param : BeganMech(type, param) \/ BeganSeq(type, param)
    BY Zenon, Began
  <2>2. paced = FALSE
    BY DEF FrontInit
  <2>3. BeganMech(type, param) => lidar.type \in MechTypes
    BY MechStarts DEF BeganMech, MechSensor
  <2>4. lidar.type \in MechTypes => lidar.type \notin SeqTypes
    BY DEF MechTypes, AiryTypes, SeqTypes
  <2>5. BeganSeq(type, param) => PaceInv
    BY Zenon, <2>2, SeqStarts
  <2>6. QED
    BY Zenon, <2>1, <2>3, <2>4, <2>5
<1>2. FrontInv /\ Paces /\ [FrontNext]_frontVars => Paces'
  <2> SUFFICES ASSUME FrontInv, Paces, [FrontNext]_frontVars, lidar'.type \in SeqTypes
               PROVE  PaceInv'
    OBVIOUS
  <2>1. Flags /\ Counters /\ (MechInv \/ SeqInv)
    BY DEF FrontInv
  <2>2. CASE MechInv
    <3>1. lidar'.type = lidar.type /\ lidar.type \in MechTypes
      BY <2>1, <2>2, MechStep DEF MechInv, MechState, MechLidars
    <3>2. lidar.type \in MechTypes => lidar.type \notin SeqTypes
      BY DEF MechTypes, AiryTypes, SeqTypes
    <3>3. QED
      BY <3>1, <3>2
  <2>3. CASE SeqInv
    <3>1. StaysInPace /\ lidar'.type = lidar.type
      BY <2>1, <2>3, SeqStep
    <3>2. QED
      BY <3>1 DEF StaysInPace
  <2>4. QED
    BY <2>1, <2>2, <2>3
<1>3. Paces => (lidar.type \in SeqTypes => PacedBySplits)
  BY Zenon DEF PaceInv, PacedBySplits
<1>4. QED
  BY <1>1, <1>2, <1>3, FrontAlways, PTL DEF FrontSpec
=============================================================================
