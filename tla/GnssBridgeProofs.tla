-------------------------- MODULE GnssBridgeProofs --------------------------
(***************************************************************************)
(* Proofs about GnssBridge, for queues of any capacity and any number of   *)
(* disturbances and chunks.  Each property has an inductive invariant of   *)
(* its own, about the variables it needs:                                  *)
(*   EventsTyped  the events in _ros_events and in _emit are well formed,  *)
(*                and a thread in the middle of _emit still has its event; *)
(*   SocketOwned  an open socket is known to stop() from its registration  *)
(*                to the end of the session;                               *)
(*   StreamIntact neighbours in the stream "last chunk written,            *)
(*                _rtcm_queue, chunk about to be put" follow each other,   *)
(*                and while the port is gone at most one chunk can still   *)
(*                come.                                                    *)
(***************************************************************************)
EXTENDS GnssBridge, SequenceTheorems, TLAPS

-----------------------------------------------------------------------------
(* The session's socket *)

InSession == {"response", "put_first", "up", "loop", "recv", "put", "finally", "close"}

\* _network_socket is set once the socket is registered and until it is closed.
SocketOwned ==
  /\ network \in {"idle", "gga", "create", "end"} => socket # "open" /\ ~registered
  /\ network = "register" => ~registered
  /\ network \in InSession => (socket = "open" => registered)

LEMMA SocketStep == SocketOwned /\ [Next]_vars => SocketOwned'
<1> SUFFICES ASSUME SocketOwned, [Next]_vars PROVE SocketOwned'
  OBVIOUS
<1> USE DEF SocketOwned, InSession
<1>1. CASE SerialStep
  BY <1>1 DEF SerialStep, SerialOpen, SerialWrite, SerialRead, SerialGga, SerialFails,
              SerialFinally, ClearLatestGga, ClearRtcmQueue, networkVars
<1>2. CASE NetworkStep
  <2>1. CASE NetworkIdle \/ NetworkGga
    BY <2>1 DEF NetworkIdle, NetworkGga
  <2>2. CASE CreateSocket
    BY <2>2 DEF CreateSocket
  <2>3. CASE RegisterSocket
    BY <2>3 DEF RegisterSocket
  <2>4. CASE SessionFails \/ SessionUp \/ SessionLoop \/ NetworkFinally
    BY <2>4 DEF SessionFails, SessionUp, SessionLoop, NetworkFinally
  <2>5. CASE Response \/ SessionRecv
    BY <2>5 DEF Response, SessionRecv, Receive
  <2>6. CASE QueueRtcm
    BY <2>6 DEF QueueRtcm
  <2>7. CASE NetworkClose
    BY <2>7 DEF NetworkClose, CloseNetworkSocket
  <2>8. QED
    BY <1>2, <2>1, <2>2, <2>3, <2>4, <2>5, <2>6, <2>7 DEF NetworkStep
<1>3. CASE DrainRosEvents
  BY <1>3 DEF DrainRosEvents, networkVars
<1>4. CASE Stop
  BY <1>4 DEF Stop, networkVars
<1>5. CASE StopClose
  BY <1>5 DEF StopClose, CloseNetworkSocket
<1>6. ASSUME NEW t \in Thread, Emitting(t) PROVE SocketOwned'
  BY <1>6 DEF Emitting, EmitPut, EmitDrop, EmitRetry, networkVars
<1>7. CASE UNCHANGED vars
  BY <1>7 DEF vars, networkVars
<1>8. QED
  BY <1>1, <1>2, <1>3, <1>4, <1>5, <1>6, <1>7 DEF Next

\* No socket outlives its session, also when stop() runs _close_network_socket between
\* the creation of the socket and its registration.
THEOREM SocketsClosed == Spec => []SocketClosed
<1>1. Init => SocketOwned
  BY DEF Init, SocketOwned, InSession
<1>2. SocketOwned => SocketClosed
  BY DEF SocketOwned, SocketClosed
<1>3. QED
  BY <1>1, <1>2, SocketStep, PTL DEF Spec
-----------------------------------------------------------------------------
(* Types, and the capacity of the two queues *)

EventType == {Other} \cup [kind : Kind, value : BOOLEAN]

\* What _emit works on: the queue, and the event each thread still holds.
EventsTyped ==
  /\ events \in Seq(EventType)
  /\ outbox \in [Thread -> Seq(EventType)]
  /\ emitting \in [Thread -> {"put", "drop", "retry"}]
  /\ \A t \in Thread : emitting[t] # "put" => ~Idle(t)

ChunkType == [from : Nat, n : Nat]
StreamTyped == rtcm \in Seq(ChunkType) /\ chunk \in ChunkType /\ last \in ChunkType /\ attempts \in Nat

Typed == TypeOK /\ EventsTyped /\ StreamTyped

\* Starting to emit keeps the events well formed.
LEMMA EmitTyped ==
  ASSUME EventsTyped, NEW t \in Thread, NEW es \in Seq(EventType), Emit(t, es),
         Idle(t) \/ es # <<>>, UNCHANGED <<events, emitting>>
  PROVE  EventsTyped'
BY DEF EventsTyped, Emit, Idle

\* The sequences of events the code emits are well formed.
LEMMA Emitted ==
  /\ <<>> \in Seq(EventType) /\ <<Other>> \in Seq(EventType) /\ <<Other>> # <<>>
  /\ \A k \in Kind, v \in BOOLEAN :
       /\ <<Event(k, v)>> \in Seq(EventType) /\ <<Event(k, v)>> # <<>>
       /\ <<Event(k, v), Other>> \in Seq(EventType) /\ <<Event(k, v), Other>> # <<>>
<1>1. Other \in EventType
  BY DEF EventType
<1>2. \A k \in Kind, v \in BOOLEAN : Event(k, v) \in EventType
  BY DEF EventType, Event
<1>3. QED
  BY <1>1, <1>2

LEMMA EnqueueTyped ==
  ASSUME Typed, NEW t \in Thread, ~Idle(t), Len(events) < MaxEvents, Enqueue(t),
         UNCHANGED <<serialVars, networkVars, shown, stop_event, stopper, rtcm, faults>>
  PROVE  Typed'
<1> DEFINE e == Head(outbox[t])
<1>1. /\ outbox[t] \in Seq(EventType) /\ outbox[t] # <<>>
      /\ e \in EventType /\ Tail(outbox[t]) \in Seq(EventType)
  BY DEF Typed, EventsTyped, Idle
<1>2. events' \in Seq(EventType) /\ Len(events') = Len(events) + 1
  BY <1>1 DEF Typed, EventsTyped, Enqueue
<1>3. Len(events') <= MaxEvents
  BY <1>2, BridgeAssumption DEF Typed, EventsTyped
<1>4. EventsTyped'
  BY <1>1, <1>2 DEF Typed, EventsTyped, Enqueue, Idle
<1>5. TypeOK'
  BY <1>3 DEF Typed, TypeOK, Enqueue, serialVars, networkVars
<1>6. StreamTyped'
  BY DEF Typed, StreamTyped, serialVars, networkVars
<1>7. QED
  BY <1>4, <1>5, <1>6 DEF Typed

LEMMA EmittingTyped == ASSUME Typed, NEW t \in Thread, Emitting(t) PROVE Typed'
<1> DEFINE e == Head(outbox[t])
<1>1. ~Idle(t)
  BY DEF Typed, EventsTyped, Emitting, EmitPut, EmitDrop, EmitRetry
<1>2. CASE EmitPut(t)
  <2>1. CASE Len(events) < MaxEvents
    BY <1>1, <1>2, <2>1, EnqueueTyped DEF EmitPut
  <2>2. CASE ~(Len(events) < MaxEvents)
    BY <1>1, <1>2, <2>2 DEF EmitPut, Typed, TypeOK, EventsTyped, StreamTyped, Idle, serialVars, networkVars
  <2>3. QED
    BY <2>1, <2>2
<1>3. CASE EmitDrop(t)
  <2>1. events' \in Seq(EventType) /\ Len(events') <= MaxEvents
    BY <1>3, BridgeAssumption DEF EmitDrop, Typed, TypeOK, EventsTyped
  <2>2. lost' \subseteq Kind
    <3>1. CASE lost' = lost
      BY <3>1 DEF Typed, TypeOK
    <3>2. CASE lost' # lost
      <4>1. events # <<>> /\ Head(events) # Other /\ lost' = lost \cup {Head(events).kind}
        BY <1>3, <3>2 DEF EmitDrop
      <4>2. Head(events) \in [kind : Kind, value : BOOLEAN]
        BY <4>1 DEF Typed, EventsTyped, EventType
      <4>3. QED
        BY <4>1, <4>2 DEF Typed, TypeOK
    <3>3. QED
      BY <3>1, <3>2
  <2>3. EventsTyped'
    BY <1>1, <1>3, <2>1 DEF EmitDrop, Typed, EventsTyped, Idle
  <2>4. QED
    BY <1>3, <2>1, <2>2, <2>3 DEF EmitDrop, Typed, TypeOK, StreamTyped, serialVars, networkVars
<1>4. CASE EmitRetry(t)
  <2>1. CASE Len(events) < MaxEvents
    BY <1>1, <1>4, <2>1, EnqueueTyped DEF EmitRetry
  <2>2. CASE ~(Len(events) < MaxEvents)
    <3>1. EventsTyped'
      <4>1. Tail(outbox[t]) \in Seq(EventType)
        BY <1>1 DEF Typed, EventsTyped, Idle
      <4>2. QED
        BY <1>4, <2>2, <4>1 DEF EmitRetry, Typed, EventsTyped, Idle
    <3>2. QED
      BY <1>4, <2>2, <3>1 DEF EmitRetry, Typed, TypeOK, StreamTyped, serialVars, networkVars
  <2>3. QED
    BY <2>1, <2>2
<1>5. QED
  BY <1>2, <1>3, <1>4 DEF Emitting
\* The serial worker: a chunk leaves the queue, events are announced.
LEMMA SerialTyped == ASSUME Typed, SerialStep PROVE Typed'
<1> USE DEF Typed
<1>1. CASE SerialOpen
  <2>1. EventsTyped'
    <3>1. \E es \in Seq(EventType) : outbox' = outbox \/ (Emit("serial", es) /\ es # <<>>)
      BY <1>1, Emitted DEF SerialOpen, Kind
    <3>2. QED
      BY <1>1, <3>1, EmitTyped DEF SerialOpen, emitVars, EventsTyped, Thread, Idle
  <2>2. /\ serial_ready' \in BOOLEAN /\ faults' \in 0 .. MaxFaults
        /\ serial' \in {"write", "finally", "end"}
    <3>1. serial_ready' = serial_ready \/ serial_ready' = TRUE
      BY <1>1 DEF SerialOpen
    <3>2. faults' = faults \/ Disturbed
      BY <1>1 DEF SerialOpen
    <3>3. faults' \in 0 .. MaxFaults
      BY <3>2, BridgeAssumption DEF Disturbed, TypeOK
    <3>4. QED
      BY <1>1, <3>1, <3>3 DEF SerialOpen, TypeOK
  <2>3. QED
    BY <1>1, <2>1, <2>2 DEF SerialOpen, TypeOK, StreamTyped, emitVars, networkVars
<1>2. CASE SerialWrite
  <2>1. CASE UNCHANGED <<rtcm, last, torn>>
    BY <1>2, <2>1 DEF SerialWrite, TypeOK, EventsTyped, StreamTyped, Idle, emitVars, networkVars
  <2>2. CASE rtcm # <<>> /\ WriteRtcm /\ UNCHANGED serial
    <3>1. /\ Tail(rtcm) \in Seq(ChunkType) /\ Len(Tail(rtcm)) <= MaxRtcm
          /\ Head(rtcm) \in ChunkType
      BY <2>2, BridgeAssumption DEF TypeOK, StreamTyped
    <3>2. torn' \in BOOLEAN
      BY <2>2 DEF WriteRtcm, TypeOK
    <3>3. TypeOK'
      BY <1>2, <2>2, <3>1, <3>2 DEF SerialWrite, WriteRtcm, TypeOK, emitVars, networkVars
    <3>4. QED
      BY <1>2, <2>2, <3>1, <3>3
      DEF SerialWrite, WriteRtcm, EventsTyped, StreamTyped, Idle, emitVars, networkVars
  <2>3. QED
    BY <1>2, <2>1, <2>2 DEF SerialWrite
<1>3. CASE SerialRead \/ SerialGga
  <2>1. EventsTyped'
    <3>1. \E es \in Seq(EventType) : Emit("serial", es)
      BY <1>3, Emitted DEF SerialRead, SerialGga
    <3>2. QED
      BY <1>3, <3>1, EmitTyped DEF SerialRead, SerialGga, emitVars, Thread
  <2>2. QED
    BY <1>3, <2>1 DEF SerialRead, SerialGga, TypeOK, StreamTyped, emitVars, networkVars
<1>4. CASE SerialFails
  <2>1. EventsTyped'
    <3>1. \E es \in Seq(EventType) : Emit("serial", es)
      BY <1>4, Emitted DEF SerialFails
    <3>2. QED
      BY <1>4, <3>1, EmitTyped DEF SerialFails, emitVars, Thread
  <2>2. rtcm' \in Seq(ChunkType) /\ Len(rtcm') <= MaxRtcm
    <3>1. rtcm' = rtcm \/ (rtcm # <<>> /\ rtcm' = Tail(rtcm))
      BY <1>4 DEF SerialFails
    <3>2. QED
      BY <3>1, BridgeAssumption DEF TypeOK, StreamTyped
  <2>3. QED
    BY <1>4, <2>1, <2>2, BridgeAssumption
    DEF SerialFails, Disturbed, TypeOK, StreamTyped, emitVars, networkVars
<1>5. CASE SerialFinally
  <2>1. EventsTyped'
    BY <1>5, Emitted, EmitTyped DEF SerialFinally, emitVars, Thread, Kind
  <2>2. QED
    BY <1>5, <2>1 DEF SerialFinally, TypeOK, StreamTyped, emitVars, networkVars
<1>6. CASE ClearLatestGga
  BY <1>6 DEF ClearLatestGga, TypeOK, EventsTyped, StreamTyped, Idle, emitVars, networkVars
<1>7. CASE ClearRtcmQueue
  <2>1. /\ rtcm' \in Seq(ChunkType) /\ Len(rtcm') <= MaxRtcm
        /\ last' \in ChunkType
    <3>1. CASE rtcm # <<>>
      BY SMTT(30), <1>7, <3>1, BridgeAssumption DEF ClearRtcmQueue, TypeOK, StreamTyped
    <3>2. CASE rtcm = <<>>
      <4>1. NoChunk \in ChunkType
        BY DEF NoChunk, ChunkType
      <4>2. QED
        BY <1>7, <3>2, <4>1 DEF ClearRtcmQueue, TypeOK, StreamTyped
    <3>3. QED
      BY <3>1, <3>2
  <2>2. QED
    BY <1>7, <2>1 DEF ClearRtcmQueue, TypeOK, EventsTyped, StreamTyped, Idle, emitVars, networkVars
<1>8. QED
  BY <1>1, <1>2, <1>3, <1>4, <1>5, <1>6, <1>7 DEF SerialStep

\* A chunk is received.
LEMMA ReceiveTyped ==
  ASSUME TypeOK, StreamTyped, NEW next, Receive(next)
  PROVE  chunk' \in ChunkType /\ received' \in 0 .. MaxChunks
BY BridgeAssumption DEF TypeOK, StreamTyped, Receive, ChunkType

\* The network worker.
LEMMA NetworkTyped == ASSUME Typed, NetworkStep PROVE Typed'
<1> USE DEF Typed
<1>1. CASE NetworkIdle \/ NetworkGga \/ SessionLoop \/ RegisterSocket
  BY <1>1 DEF NetworkIdle, NetworkGga, SessionLoop, RegisterSocket, TypeOK, EventsTyped,
              StreamTyped, Idle, emitVars, serialVars
<1>2. CASE CreateSocket
  BY <1>2 DEF CreateSocket, TypeOK, EventsTyped, StreamTyped, Idle, emitVars, serialVars
<1>3. CASE SessionFails
  <2>1. EventsTyped'
    <3>1. \E es \in Seq(EventType) : Emit("network", es)
      BY <1>3, Emitted DEF SessionFails
    <3>2. QED
      BY <1>3, <3>1, EmitTyped DEF SessionFails, emitVars, Thread
  <2>2. QED
    BY <1>3, <2>1, BridgeAssumption
    DEF SessionFails, Disturbed, TypeOK, StreamTyped, emitVars, serialVars
<1>4. CASE Response
  <2>1. chunk' \in ChunkType /\ received' \in 0 .. MaxChunks
    BY <1>4, ReceiveTyped DEF Response, TypeOK, StreamTyped
  <2>2. QED
    BY <1>4, <2>1 DEF Response, Receive, TypeOK, EventsTyped, StreamTyped, Idle, emitVars, serialVars
<1>5. CASE QueueRtcm
  <2>1. CASE Len(rtcm) < MaxRtcm /\ rtcm' = Append(rtcm, chunk) /\ UNCHANGED <<faults, outbox>>
    <3>1. rtcm' \in Seq(ChunkType) /\ Len(rtcm') <= MaxRtcm
      BY <2>1, BridgeAssumption DEF StreamTyped
    <3>2. network' \in {"loop", "up", "finally"}
      BY <1>5 DEF QueueRtcm
    <3>3. QED
      BY <1>5, <2>1, <3>1, <3>2
      DEF QueueRtcm, TypeOK, EventsTyped, StreamTyped, Idle, emitVars, serialVars
  <2>2. CASE /\ Disturbed /\ network' = "finally" /\ UNCHANGED rtcm
             /\ Emit("network", IF stop_event THEN <<>> ELSE <<Other>>)
    <3>1. \E es \in Seq(EventType) : Emit("network", es)
      BY <2>2, Emitted
    <3>2. EventsTyped'
      BY <1>5, <3>1, EmitTyped DEF QueueRtcm, emitVars, Thread
    <3>3. QED
      BY <1>5, <2>2, <3>2, BridgeAssumption
      DEF QueueRtcm, Disturbed, TypeOK, StreamTyped, emitVars, serialVars
  <2>3. QED
    BY <1>5, <2>1, <2>2 DEF QueueRtcm
<1>6. CASE SessionUp
  <2>1. \E es \in Seq(EventType) : Emit("network", es) /\ es # <<>>
    <3> DEFINE up == IF TRUE # connected THEN <<Event("connection", TRUE)>> ELSE <<>>
    <3>1. up \in Seq(EventType) /\ <<Other>> \in Seq(EventType) /\ Len(<<Other>>) = 1
      BY Emitted DEF Kind
    <3>2. up \o <<Other>> \in Seq(EventType) /\ Len(up \o <<Other>>) = Len(up) + 1
      BY <3>1, ConcatProperties
    <3>3. up \o <<Other>> # <<>>
      BY <3>1, <3>2
    <3>4. QED
      BY <1>6, <3>2, <3>3 DEF SessionUp, SetNtripConnected
  <2>2. EventsTyped'
    BY <1>6, <2>1, EmitTyped DEF SessionUp, emitVars, Thread
  <2>3. QED
    BY <1>6, <2>2 DEF SessionUp, SetNtripConnected, TypeOK, StreamTyped, emitVars, serialVars
<1>7. CASE SessionRecv
  <2>1. chunk' \in ChunkType /\ received' \in 0 .. MaxChunks
    BY <1>7, ReceiveTyped DEF SessionRecv, TypeOK, StreamTyped
  <2>2. QED
    BY <1>7, <2>1 DEF SessionRecv, Receive, TypeOK, EventsTyped, StreamTyped, Idle, emitVars, serialVars
<1>8. CASE NetworkFinally
  <2>1. \E es \in Seq(EventType) : Emit("network", es)
    <3> DEFINE down == IF FALSE # connected THEN <<Event("connection", FALSE)>> ELSE <<>>
    <3>1. down \in Seq(EventType) /\ <<>> \in Seq(EventType)
      BY Emitted DEF Kind
    <3>2. down \o <<>> \in Seq(EventType)
      BY <3>1, ConcatProperties
    <3>3. QED
      BY <1>8, <3>2 DEF NetworkFinally, SetNtripConnected
  <2>2. EventsTyped'
    BY <1>8, <2>1, EmitTyped DEF NetworkFinally, emitVars, Thread
  <2>3. QED
    BY <1>8, <2>2 DEF NetworkFinally, SetNtripConnected, TypeOK, StreamTyped, emitVars, serialVars
<1>9. CASE NetworkClose
  BY <1>9 DEF NetworkClose, CloseNetworkSocket, TypeOK, EventsTyped, StreamTyped, Idle, emitVars, serialVars
<1>10. QED
  BY <1>1, <1>2, <1>3, <1>4, <1>5, <1>6, <1>7, <1>8, <1>9 DEF NetworkStep

LEMMA InitTyped == Init => Typed
<1> SUFFICES ASSUME Init PROVE Typed
  OBVIOUS
<1>1. EventsTyped
  BY DEF Init, EventsTyped, Idle
<1>2. StreamTyped
  BY DEF Init, StreamTyped, ChunkType, NoChunk
<1>3. TypeOK
  <2>1. Len(rtcm) = 0 /\ Len(events) = 0
    BY DEF Init
  <2>2. shown \in [Kind -> BOOLEAN]
    BY DEF Init
  <2>3. Len(rtcm) <= MaxRtcm /\ Len(events) <= MaxEvents
    BY <2>1, BridgeAssumption
  <2>4. faults \in 0 .. MaxFaults /\ received \in 0 .. MaxChunks
    BY BridgeAssumption DEF Init
  <2>5. QED
    BY <2>2, <2>3, <2>4 DEF Init, TypeOK
<1>4. QED
  BY <1>1, <1>2, <1>3 DEF Typed

LEMMA NextTyped == Typed /\ [Next]_vars => Typed'
<1> SUFFICES ASSUME Typed, [Next]_vars PROVE Typed'
  OBVIOUS
<1> USE DEF Typed
<1>1. CASE DrainRosEvents
  <2>1. Tail(events) \in Seq(EventType) /\ Len(Tail(events)) <= MaxEvents
    BY <1>1, BridgeAssumption DEF DrainRosEvents, TypeOK, EventsTyped
  <2>2. shown' \in [Kind -> BOOLEAN]
    <3>1. Head(events) \in EventType
      BY <1>1 DEF DrainRosEvents, EventsTyped
    <3>2. Head(events).value \in BOOLEAN
      <4>1. Head(events) = Other \/ Head(events) \in [kind : Kind, value : BOOLEAN]
        BY <3>1 DEF EventType
      <4>2. Other.value \in BOOLEAN
        BY DEF Other
      <4>3. QED
        BY <4>1, <4>2
    <3>3. QED
      BY <1>1, <3>2 DEF DrainRosEvents, TypeOK
  <2>3. QED
    BY <1>1, <2>1, <2>2 DEF DrainRosEvents, TypeOK, EventsTyped, StreamTyped, Idle, serialVars, networkVars
<1>2. CASE Stop
  BY <1>2 DEF Stop, TypeOK, EventsTyped, StreamTyped, Idle, serialVars, networkVars, emitVars
<1>3. CASE StopClose
  BY <1>3 DEF StopClose, CloseNetworkSocket, TypeOK, EventsTyped, StreamTyped, Idle, serialVars, emitVars
<1>4. CASE UNCHANGED vars
  BY <1>4 DEF vars, TypeOK, EventsTyped, StreamTyped, Idle, serialVars, networkVars, emitVars
<1>5. QED
  BY <1>1, <1>2, <1>3, <1>4, SerialTyped, NetworkTyped, EmittingTyped DEF Next

\* _ros_events and _rtcm_queue never exceed their capacity, although both workers share
\* the put_nowait, get_nowait, put_nowait of _emit; no thread is left in the middle of it
\* without its event.
THEOREM TypeCorrect == Spec => []TypeOK
<1>1. Typed => TypeOK
  BY DEF Typed
<1>2. QED
  BY <1>1, InitTyped, NextTyped, PTL DEF Spec

-----------------------------------------------------------------------------
(* The stream of corrections *)

Gone       == {"finally", "forget", "clear"}
Receiving  == {"register", "response", "up", "loop", "recv"}
Holding    == {"put_first", "put"}
MayReceive == {"gga", "create", "register", "response", "recv"} \cup Holding

Follows(a, b) == a.from = b.from => b.n = a.n + 1

\* What the next chunk to be put must follow.
Before == IF rtcm # <<>> THEN rtcm[Len(rtcm)]
                         ELSE IF serial \notin Gone THEN last ELSE NoChunk

\* The queue by itself: every chunk has its connection, neighbours follow each other.
QueueIntact ==
  /\ \A i \in 1 .. Len(rtcm) : rtcm[i].from \in 1 .. attempts
  /\ \A i \in 1 .. (Len(rtcm) - 1) : Follows(rtcm[i], rtcm[i + 1])

\* Its two ends: what was written last, and what the network worker holds.
EndsIntact ==
  /\ ~torn
  /\ rtcm # <<>> /\ serial \notin Gone => Follows(last, rtcm[1])
  /\ last.from <= attempts /\ chunk.from <= attempts
  /\ network \in Receiving \cup Holding => attempts >= 1
  /\ network \in Receiving => (Before.from = attempts => Before = chunk)
  /\ network \in Holding => chunk.from = attempts /\ Follows(Before, chunk)

\* While the port is gone, _serial_ready keeps the network worker from asking for more:
\* what it may still put is the chunk it holds or is waiting for.
Backlog ==
  /\ serial \in {"forget", "clear", "open"} => ~serial_ready
  /\ serial = "open" => last = NoChunk
  /\ serial = "open" => Len(rtcm) + (IF network \in MayReceive THEN 1 ELSE 0) <= 1

StreamIntact == QueueIntact /\ EndsIntact /\ Backlog

\* Taking the head of the queue leaves the neighbours of the others as they were.
LEMMA TakeChunk ==
  ASSUME StreamTyped, QueueIntact, rtcm # <<>>, rtcm' = Tail(rtcm), attempts' = attempts
  PROVE  /\ QueueIntact'
         /\ Len(rtcm') = Len(rtcm) - 1
         /\ rtcm' # <<>> => /\ rtcm'[1] = rtcm[2]
                            /\ Follows(rtcm[1], rtcm[2])
                            /\ rtcm'[Len(rtcm')] = rtcm[Len(rtcm)]
         /\ rtcm' = <<>> => Len(rtcm) = 1
         /\ Head(rtcm) = rtcm[1] /\ rtcm[1] \in ChunkType
<1>1. /\ rtcm \in Seq(ChunkType) /\ Len(rtcm) \in Nat /\ Len(rtcm) >= 1
      /\ rtcm' \in Seq(ChunkType) /\ Len(rtcm') = Len(rtcm) - 1
      /\ \A i \in 1 .. Len(rtcm') : rtcm'[i] = rtcm[i + 1]
      /\ Head(rtcm) = rtcm[1] /\ rtcm[1] \in ChunkType
  BY DEF StreamTyped
<1>2. rtcm' # <<>> <=> Len(rtcm) >= 2
  <2>1. rtcm' = <<>> <=> Len(rtcm') = 0
    BY <1>1, EmptySeq
  <2>2. QED
    BY <1>1, <2>1
<1>3. QueueIntact'
  <2>1. ASSUME NEW i \in 1 .. Len(rtcm') PROVE rtcm'[i].from \in 1 .. attempts'
    BY <1>1 DEF QueueIntact
  <2>2. ASSUME NEW i \in 1 .. (Len(rtcm') - 1) PROVE Follows(rtcm'[i], rtcm'[i + 1])
    <3>1. rtcm'[i] = rtcm[i + 1] /\ rtcm'[i + 1] = rtcm[(i + 1) + 1]
      BY <1>1
    <3>2. i + 1 \in 1 .. (Len(rtcm) - 1)
      BY <1>1
    <3>3. QED
      BY <3>1, <3>2 DEF QueueIntact
  <2>3. QED
    BY <2>1, <2>2 DEF QueueIntact
<1>4. ASSUME rtcm' # <<>>
      PROVE  /\ rtcm'[1] = rtcm[2] /\ Follows(rtcm[1], rtcm[2])
             /\ rtcm'[Len(rtcm')] = rtcm[Len(rtcm)]
  <2>1. 1 \in 1 .. (Len(rtcm) - 1) /\ Len(rtcm') \in 1 .. Len(rtcm') /\ 1 \in 1 .. Len(rtcm')
    BY <1>1, <1>2, <1>4
  <2>2. Follows(rtcm[1], rtcm[1 + 1])
    BY <2>1 DEF QueueIntact
  <2>3. QED
    BY <1>1, <2>1, <2>2
<1>5. QED
  BY <1>1, <1>2, <1>3, <1>4

\* Putting a chunk that follows the last one keeps the queue intact.
LEMMA PutChunk ==
  ASSUME StreamTyped, QueueIntact, rtcm' = Append(rtcm, chunk), attempts' = attempts,
         chunk.from \in 1 .. attempts, rtcm # <<>> => Follows(rtcm[Len(rtcm)], chunk)
  PROVE  /\ QueueIntact'
         /\ rtcm' # <<>> /\ rtcm'[Len(rtcm')] = chunk
         /\ rtcm'[1] = IF rtcm = <<>> THEN chunk ELSE rtcm[1]
<1>1. /\ rtcm \in Seq(ChunkType) /\ Len(rtcm) \in Nat
      /\ rtcm' \in Seq(ChunkType) /\ Len(rtcm') = Len(rtcm) + 1
      /\ \A i \in 1 .. Len(rtcm) : rtcm'[i] = rtcm[i]
      /\ rtcm'[Len(rtcm) + 1] = chunk
      /\ rtcm = <<>> <=> Len(rtcm) = 0
  BY DEF StreamTyped
<1>2. ASSUME NEW i \in 1 .. Len(rtcm') PROVE rtcm'[i].from \in 1 .. attempts'
  BY <1>1 DEF QueueIntact
<1>3. ASSUME NEW i \in 1 .. (Len(rtcm') - 1) PROVE Follows(rtcm'[i], rtcm'[i + 1])
  <2>1. CASE i = Len(rtcm)
    BY <1>1, <2>1
  <2>2. CASE i # Len(rtcm)
    <3>1. i \in 1 .. (Len(rtcm) - 1) /\ i \in 1 .. Len(rtcm) /\ i + 1 \in 1 .. Len(rtcm)
      BY <1>1, <2>2
    <3>2. QED
      BY <1>1, <3>1 DEF QueueIntact
  <2>3. QED
    BY <2>1, <2>2
<1>4. QED
  BY <1>1, <1>2, <1>3 DEF QueueIntact

\* Steps that touch neither the queue nor its ends.
LEMMA StreamKept ==
  ASSUME StreamIntact,
         UNCHANGED <<rtcm, last, torn, chunk, attempts, network, serial, serial_ready>>
  PROVE  StreamIntact'
BY DEF StreamIntact, QueueIntact, EndsIntact, Backlog, Before

LEMMA SerialStream == ASSUME Typed, StreamIntact, SerialStep PROVE StreamIntact'
<1> USE DEF StreamIntact
<1>0. StreamTyped /\ UNCHANGED <<network, chunk, attempts>>
  BY DEF Typed, SerialStep, SerialOpen, SerialWrite, SerialRead, SerialGga, SerialFails,
         SerialFinally, ClearLatestGga, ClearRtcmQueue, networkVars
<1>1. ASSUME UNCHANGED <<rtcm, last, torn>>,
             serial' \in Gone => (Before' = Before \/ (rtcm = <<>> /\ Before' = NoChunk)),
             serial' \notin Gone => serial \notin Gone,
             Backlog'
      PROVE  StreamIntact'
  <2>1. QueueIntact'
    BY <1>0, <1>1 DEF QueueIntact
  <2>2. Before' = Before \/ Before' = NoChunk
    BY <1>1 DEF Before
  <2>3. EndsIntact'
    BY <1>0, <1>1, <2>2 DEF EndsIntact, Follows, NoChunk, StreamTyped, ChunkType
  <2>4. QED
    BY <1>1, <2>1, <2>3
<1>2. CASE SerialOpen
  <2>1. UNCHANGED <<rtcm, last, torn>> /\ serial = "open" /\ serial' \in {"end", "write", "finally"}
    BY <1>2 DEF SerialOpen
  <2>2. QED
    BY <1>0, <1>1, <2>1 DEF Before, Gone, Backlog
<1>3. CASE SerialWrite
  <2>1. CASE UNCHANGED <<rtcm, last, torn>>
    BY <1>0, <1>1, <1>3, <2>1 DEF SerialWrite, Before, Gone, Backlog
  <2>2. CASE rtcm # <<>> /\ WriteRtcm /\ UNCHANGED serial
    <3>1. /\ QueueIntact'
          /\ rtcm' # <<>> => /\ rtcm'[1] = rtcm[2] /\ Follows(rtcm[1], rtcm[2])
                             /\ rtcm'[Len(rtcm')] = rtcm[Len(rtcm)]
          /\ rtcm' = <<>> => Len(rtcm) = 1
          /\ last' = rtcm[1]
      BY <1>0, <2>2, TakeChunk DEF WriteRtcm
    <3>2. serial = "write" /\ serial' = "write"
      BY <1>3, <2>2 DEF SerialWrite
    <3>3. Before' = Before
      BY <2>2, <3>1, <3>2 DEF Before, Gone
    <3>4. ~torn'
      BY <2>2, <3>1, <3>2, TakeChunk, <1>0 DEF WriteRtcm, EndsIntact, Follows, Gone
    <3>5. rtcm[1].from \in 1 .. attempts
      <4>1. 1 \in 1 .. Len(rtcm)
        BY <1>0, <2>2 DEF StreamTyped
      <4>2. QED
        BY <4>1 DEF QueueIntact
    <3>6. EndsIntact'
      BY <1>0, <2>2, <3>1, <3>2, <3>3, <3>4, <3>5 DEF EndsIntact, StreamTyped
    <3>7. QED
      BY <3>1, <3>2, <3>6 DEF Backlog
  <2>3. QED
    BY <1>3, <2>1, <2>2 DEF SerialWrite
<1>4. CASE SerialRead \/ SerialGga
  BY <1>0, <1>1, <1>4 DEF SerialRead, SerialGga, Before, Gone, Backlog
<1>5. CASE SerialFails
  <2>1. serial \in {"write", "read"} /\ serial' = "finally" /\ UNCHANGED <<last, torn>>
    BY <1>5 DEF SerialFails
  <2>2. CASE rtcm' = rtcm
    BY <1>0, <1>1, <2>1, <2>2 DEF Before, Gone, Backlog
  <2>3. CASE rtcm # <<>> /\ rtcm' = Tail(rtcm)
    <3>1. /\ QueueIntact'
          /\ rtcm' # <<>> => rtcm'[Len(rtcm')] = rtcm[Len(rtcm)]
      BY <1>0, <2>3, TakeChunk
    <3>2. Before' = Before \/ Before' = NoChunk
      BY <2>1, <2>3, <3>1 DEF Before, Gone
    <3>3. EndsIntact'
      BY <1>0, <2>1, <3>2 DEF EndsIntact, Follows, NoChunk, StreamTyped, ChunkType, Gone
    <3>4. QED
      BY <2>1, <3>1, <3>3 DEF Backlog
  <2>4. QED
    BY <1>5, <2>2, <2>3 DEF SerialFails
<1>6. CASE SerialFinally \/ ClearLatestGga
  BY <1>0, <1>1, <1>6 DEF SerialFinally, ClearLatestGga, Before, Gone, Backlog
<1>7. CASE ClearRtcmQueue
  <2>1. CASE rtcm # <<>>
    <3>1. /\ rtcm' = Tail(rtcm) /\ serial = "clear"
          /\ UNCHANGED <<serial, last, torn, serial_ready>>
      BY <1>7, <2>1 DEF ClearRtcmQueue
    <3>2. /\ QueueIntact'
          /\ rtcm' # <<>> => rtcm'[Len(rtcm')] = rtcm[Len(rtcm)]
      BY <1>0, <2>1, <3>1, TakeChunk
    <3>3. Before' = Before \/ Before' = NoChunk
      BY <2>1, <3>1, <3>2 DEF Before, Gone
    <3>4. EndsIntact'
      BY <1>0, <3>1, <3>3 DEF EndsIntact, Follows, NoChunk, StreamTyped, ChunkType, Gone
    <3>5. QED
      BY <3>1, <3>2, <3>4 DEF Backlog
  <2>2. CASE rtcm = <<>>
    <3>1. /\ serial = "clear" /\ serial' = "open" /\ last' = NoChunk
          /\ UNCHANGED <<rtcm, torn, serial_ready>>
      BY <1>7, <2>2 DEF ClearRtcmQueue
    <3>2. Before' = NoChunk
      BY <2>2, <3>1 DEF Before
    <3>3. QueueIntact'
      BY <1>0, <3>1 DEF QueueIntact
    <3>4. EndsIntact'
      BY <1>0, <2>2, <3>1, <3>2 DEF EndsIntact, Follows, NoChunk, StreamTyped, ChunkType
    <3>5. Backlog'
      BY <2>2, <3>1 DEF Backlog
    <3>6. QED
      BY <3>3, <3>4, <3>5
  <2>3. QED
    BY <2>1, <2>2
<1>8. QED
  BY <1>2, <1>3, <1>4, <1>5, <1>6, <1>7 DEF SerialStep

LEMMA NetworkStream == ASSUME Typed, StreamIntact, NetworkStep PROVE StreamIntact'
<1> USE DEF StreamIntact
<1>0. StreamTyped /\ UNCHANGED <<serial, serial_ready, last, torn>>
  BY DEF Typed, NetworkStep, NetworkIdle, NetworkGga, CreateSocket, RegisterSocket, SessionFails,
         Response, QueueRtcm, SessionUp, SessionLoop, SessionRecv, NetworkFinally, NetworkClose,
         serialVars
<1> USE DEF Receiving, Holding, MayReceive
\* Nothing is received: the worker goes on in its session, leaves it or waits for one.
<1>1. ASSUME UNCHANGED <<rtcm, chunk, attempts>>, network' \notin Holding,
             network' \in Receiving => network \in Receiving,
             network' \in MayReceive => network \in MayReceive \/ serial_ready
      PROVE  StreamIntact'
  <2>1. Before' = Before
    BY <1>0, <1>1 DEF Before
  <2>2. QueueIntact'
    BY <1>1 DEF QueueIntact
  <2>3. EndsIntact'
    BY <1>0, <1>1, <2>1 DEF EndsIntact
  <2>4. Backlog'
    BY <1>0, <1>1 DEF Backlog, StreamTyped
  <2>5. QED
    BY <2>2, <2>3, <2>4
<1>2. /\ Before \in ChunkType /\ Before.from <= attempts
      /\ rtcm # <<>> => rtcm[Len(rtcm)] = Before
  <2>1. CASE rtcm = <<>>
    BY <1>0, <2>1 DEF Before, StreamTyped, ChunkType, NoChunk, EndsIntact
  <2>2. CASE rtcm # <<>>
    <3>1. Len(rtcm) \in 1 .. Len(rtcm) /\ rtcm[Len(rtcm)] \in ChunkType
      BY <1>0, <2>2, EmptySeq DEF StreamTyped
    <3>2. rtcm[Len(rtcm)].from \in 1 .. attempts
      BY <3>1 DEF QueueIntact
    <3>3. QED
      BY <1>0, <2>2, <3>1, <3>2 DEF Before, StreamTyped
  <2>3. QED
    BY <2>1, <2>2
<1>3. CASE NetworkIdle \/ NetworkGga \/ RegisterSocket \/ SessionFails \/ SessionUp \/ SessionLoop
           \/ NetworkFinally \/ NetworkClose
  BY <1>1, <1>3 DEF NetworkIdle, NetworkGga, RegisterSocket, SessionFails, SessionUp,
                    SessionLoop, NetworkFinally, NetworkClose, SetNtripConnected
<1>4. CASE CreateSocket
  <2>1. /\ attempts' = attempts + 1 /\ network = "create" /\ network' = "register"
        /\ UNCHANGED <<rtcm, chunk>>
    BY <1>4 DEF CreateSocket
  <2>2. Before' = Before
    BY <1>0, <2>1 DEF Before
  <2>3. QueueIntact'
    BY <1>0, <2>1 DEF QueueIntact, StreamTyped
  <2>4. EndsIntact'
    BY <1>0, <1>2, <2>1, <2>2 DEF EndsIntact, StreamTyped, ChunkType
  <2>5. Backlog'
    BY <1>0, <2>1 DEF Backlog
  <2>6. QED
    BY <2>3, <2>4, <2>5
\* The next chunk of the connection follows the one received before it.
<1>5. ASSUME NEW next \in Holding, Receive(next), network \in {"response", "recv"},
             UNCHANGED <<rtcm, attempts>>
      PROVE  StreamIntact'
  <2>1. Before' = Before
    BY <1>0, <1>5 DEF Before
  <2>2. QueueIntact'
    BY <1>5 DEF QueueIntact
  <2>3. /\ network' = next /\ chunk'.from = attempts
        /\ chunk'.n = IF chunk.from = attempts THEN chunk.n + 1 ELSE 1
    BY <1>5 DEF Receive
  <2>4. Follows(Before, chunk')
    <3>1. Before.from = attempts => Before = chunk
      BY <1>5 DEF EndsIntact
    <3>2. QED
      BY <2>3, <3>1 DEF Follows
  <2>5. EndsIntact'
    BY <1>0, <1>5, <2>1, <2>3, <2>4 DEF EndsIntact, StreamTyped
  <2>6. Backlog'
    BY <1>0, <1>5, <2>3 DEF Backlog
  <2>7. QED
    BY <2>2, <2>5, <2>6
<1>6. CASE Response \/ SessionRecv
  <2>1. CASE UNCHANGED <<chunk, received>>
    <3>1. UNCHANGED <<rtcm, chunk, attempts>> /\ network \in {"response", "recv"}
      BY <1>6, <2>1 DEF Response, SessionRecv
    <3>2. network' \in {"finally", "up", "loop"}
      BY <1>0, <1>6, <2>1 DEF Response, SessionRecv, Receive, Typed, TypeOK
    <3>3. QED
      BY <1>1, <3>1, <3>2
  <2>2. CASE Receive("put") \/ Receive("put_first")
    BY <1>5, <1>6, <2>2 DEF Response, SessionRecv
  <2>3. QED
    BY <1>6, <2>1, <2>2 DEF Response, SessionRecv
<1>7. CASE QueueRtcm
  <2>1. network \in Holding /\ UNCHANGED <<chunk, attempts>>
    BY <1>7 DEF QueueRtcm
  <2>2. CASE rtcm' = Append(rtcm, chunk) /\ network' \in {"loop", "up"}
    <3>1. chunk.from = attempts /\ attempts >= 1 /\ Follows(Before, chunk)
      BY <2>1 DEF EndsIntact
    <3>2. /\ QueueIntact'
          /\ rtcm' # <<>> /\ rtcm'[Len(rtcm')] = chunk
          /\ rtcm'[1] = IF rtcm = <<>> THEN chunk ELSE rtcm[1]
      BY <1>0, <1>2, <2>1, <2>2, <3>1, PutChunk DEF StreamTyped
    <3>3. Before' = chunk'
      BY <2>1, <3>2 DEF Before
    <3>4. rtcm' # <<>> /\ serial' \notin Gone => Follows(last', rtcm'[1])
      BY <1>0, <3>1, <3>2 DEF Before, EndsIntact
    <3>5. EndsIntact'
      BY <1>0, <2>1, <2>2, <3>1, <3>3, <3>4 DEF EndsIntact
    <3>6. Len(rtcm') = Len(rtcm) + 1
      BY <1>0, <2>2 DEF StreamTyped
    <3>7. Backlog'
      BY <1>0, <2>1, <2>2, <3>6 DEF Backlog, StreamTyped
    <3>8. QED
      BY <3>2, <3>5, <3>7
  <2>3. CASE UNCHANGED rtcm /\ network' = "finally"
    BY <1>1, <2>1, <2>3
  <2>4. QED
    BY <1>7, <2>2, <2>3 DEF QueueRtcm
<1>8. QED
  BY <1>3, <1>4, <1>6, <1>7 DEF NetworkStep

LEMMA InitStream == Init => StreamIntact
<1> SUFFICES ASSUME Init PROVE StreamIntact
  OBVIOUS
<1>1. Len(rtcm) = 0
  BY DEF Init
<1>2. QED
  BY <1>1 DEF Init, StreamIntact, QueueIntact, EndsIntact, Backlog, NoChunk, Receiving, Holding, MayReceive

LEMMA NextStream == Typed /\ StreamIntact /\ [Next]_vars => StreamIntact'
<1> SUFFICES ASSUME Typed, StreamIntact, [Next]_vars PROVE StreamIntact'
  OBVIOUS
<1>1. CASE DrainRosEvents \/ Stop \/ StopClose \/ UNCHANGED vars
  BY <1>1, StreamKept DEF DrainRosEvents, Stop, StopClose, vars, serialVars, networkVars
<1>2. ASSUME NEW t \in Thread, Emitting(t) PROVE StreamIntact'
  BY <1>2, StreamKept DEF Emitting, EmitPut, EmitDrop, EmitRetry, serialVars, networkVars
<1>3. QED
  BY <1>1, <1>2, SerialStream, NetworkStream DEF Next

\* The receiver gets the corrections of a connection without a gap, however _rtcm_queue
\* fills up, the port comes and goes or the caster closes the connection; when the port is
\* opened again at most one chunk of the time before is still to come.
THEOREM CorrectionsInOrder == Spec => []CorrectionsIntact
<1>1. Typed /\ StreamIntact => CorrectionsIntact
  BY DEF Typed, StreamTyped, StreamIntact, EndsIntact, Backlog, CorrectionsIntact, MayReceive, Holding
<1>2. Init => Typed /\ StreamIntact
  BY InitTyped, InitStream
<1>3. (Typed /\ StreamIntact) /\ [Next]_vars => (Typed /\ StreamIntact)'
  BY NextTyped, NextStream
<1>4. QED
  BY <1>1, <1>2, <1>3, PTL DEF Spec
=============================================================================
