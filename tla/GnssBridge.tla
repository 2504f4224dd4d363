----------------------------- MODULE GnssBridge -----------------------------
(***************************************************************************)
(* The threads of the GNSS node (gps_ntrip_node.py).  The serial worker    *)
(* opens the receiver's port, reads NMEA sentences from it and writes the  *)
(* corrections of _rtcm_queue to it; the network worker connects to the    *)
(* NTRIP caster once the receiver has a position and puts corrections into *)
(* _rtcm_queue; both report through _ros_events to the ROS executor, which *)
(* publishes.  stop() runs in the main thread.                             *)
(*                                                                         *)
(* A disturbance (a port that does not open or fails, a refused or closed  *)
(* connection, a queue that stays full for half a second) may strike       *)
(* wherever the code handles one, MaxFaults times in all.  A sentence is   *)
(* reduced to whether it is a position, a chunk of corrections to its      *)
(* place in the stream of its connection.                                  *)
(***************************************************************************)
EXTENDS Naturals, Sequences, SequencesExt

CONSTANTS MaxEvents,   (* capacity of _ros_events, 1024                     *)
          MaxRtcm,     (* capacity of _rtcm_queue, 256                      *)
          MaxFaults,   (* bound: disturbances                               *)
          MaxChunks    (* bound: chunks of corrections received             *)

ASSUME BridgeAssumption ==
  MaxEvents \in Nat \ {0} /\ MaxRtcm \in Nat \ {0} /\ MaxFaults \in Nat /\ MaxChunks \in Nat

Thread == {"serial", "network"}
Kind   == {"connection", "device_connection"}

VARIABLES
  stop_event, serial_ready, gga_ready,   (* threading.Event                 *)
  serial,      (* place of the serial worker                                *)
  network,     (* place of the network worker                               *)
  stopper,     (* place of stop()                                           *)
  rtcm,        (* _rtcm_queue: sequence of [from |-> connection, n |-> place]*)
  chunk,       (* the chunk the network worker is about to put              *)
  registered,  (* _network_socket is the session's socket                   *)
  socket,      (* the session's socket: "none", "open" or "closed"          *)
  connected,   (* _connection_state                                         *)
  outbox,      (* [Thread -> events the thread is in the middle of emitting]*)
  emitting,    (* [Thread -> step of _emit: "put", "drop" or "retry"]       *)
  events,      (* _ros_events                                               *)
  shown,       (* [Kind -> value last published]                            *)
  faults,      (* disturbances so far                                       *)
  attempts,    (* history: connections made so far                          *)
  received,    (* history: chunks received so far                           *)
  last,        (* history: chunk last written to the open port, or NoChunk  *)
  torn,        (* history: a connection's stream was written with a gap     *)
  lost         (* history: kinds whose latest event was dropped             *)

serialVars  == <<serial, serial_ready, gga_ready, last, torn>>
networkVars == <<network, chunk, registered, socket, connected, attempts, received>>
emitVars    == <<events, shown, lost, emitting>>
vars == <<serialVars, networkVars, emitVars, stop_event, stopper, rtcm, outbox, faults>>

NoChunk == [from |-> 0, n |-> 0]
Other   == [kind |-> "other", value |-> TRUE]
Event(k, v) == [kind |-> k, value |-> v]

Init ==
  /\ stop_event = FALSE /\ serial_ready = FALSE /\ gga_ready = FALSE
  /\ serial = "open" /\ network = "idle" /\ stopper = "running"
  /\ rtcm = <<>> /\ chunk = NoChunk
  /\ registered = FALSE /\ socket = "none" /\ connected = FALSE
  /\ outbox = [t \in Thread |-> <<>>] /\ emitting = [t \in Thread |-> "put"]
  /\ events = <<>> /\ shown = [k \in Kind |-> FALSE]
  /\ faults = 0 /\ attempts = 0 /\ received = 0
  /\ last = NoChunk /\ torn = FALSE /\ lost = {}

\* A disturbance strikes, and uses up the budget.
Disturbed == faults < MaxFaults /\ faults' = faults + 1

-----------------------------------------------------------------------------
(* _emit: put_nowait, and when the queue is full, get_nowait and put_nowait *)

Idle(t) == outbox[t] = <<>>
Emit(t, es) == outbox' = [outbox EXCEPT ![t] = es]

\* An event of a kind enters the queue: what was lost of that kind is made good.
Enqueue(t) ==
  /\ events' = Append(events, Head(outbox[t]))
  /\ lost' = lost \ {Head(outbox[t]).kind}
  /\ outbox' = [outbox EXCEPT ![t] = Tail(@)]
  /\ emitting' = [emitting EXCEPT ![t] = "put"]

EmitPut(t) ==
  /\ ~Idle(t) /\ emitting[t] = "put"
  /\ IF Len(events) < MaxEvents
       THEN Enqueue(t)
       ELSE /\ emitting' = [emitting EXCEPT ![t] = "drop"]
            /\ UNCHANGED <<events, lost, outbox>>
  /\ UNCHANGED <<serialVars, networkVars, shown, stop_event, stopper, rtcm, faults>>

\* The oldest event makes room.
EmitDrop(t) ==
  /\ emitting[t] = "drop"
  /\ emitting' = [emitting EXCEPT ![t] = "retry"]
  /\ events' = IF events = <<>> THEN events ELSE Tail(events)
  /\ lost' = IF events = <<>> \/ Head(events) = Other
                 \/ \E e \in ToSet(Tail(events)) : e.kind = Head(events).kind
               THEN lost ELSE lost \cup {Head(events).kind}
  /\ UNCHANGED <<serialVars, networkVars, shown, stop_event, stopper, rtcm, faults, outbox>>

\* Mutant of EmitRetry: the event is put whatever the other worker did.
EmitRetryForce(t) ==
  /\ emitting[t] = "retry"
  /\ Enqueue(t)
  /\ UNCHANGED <<serialVars, networkVars, shown, stop_event, stopper, rtcm, faults>>

\* The other worker may have taken the room.
EmitRetry(t) ==
  /\ emitting[t] = "retry"
  /\ IF Len(events) < MaxEvents
       THEN Enqueue(t)
       ELSE /\ lost' = lost \cup ({Head(outbox[t]).kind} \cap Kind)
            /\ outbox' = [outbox EXCEPT ![t] = Tail(@)]
            /\ emitting' = [emitting EXCEPT ![t] = "put"]
            /\ UNCHANGED events
  /\ UNCHANGED <<serialVars, networkVars, shown, stop_event, stopper, rtcm, faults>>

\* _drain_ros_events, one event of a tick.  stop() runs after rclpy.spin has returned.
DrainRosEvents ==
  /\ stopper = "running" /\ events # <<>>
  /\ shown' = IF Head(events).kind \in Kind
                THEN [shown EXCEPT ![Head(events).kind] = Head(events).value] ELSE shown
  /\ events' = Tail(events)
  /\ UNCHANGED <<serialVars, networkVars, lost, emitting, stop_event, stopper, rtcm, outbox, faults>>

-----------------------------------------------------------------------------
(* _serial_worker *)

SerialOpen ==
  /\ serial = "open" /\ Idle("serial")
  /\ \/ /\ stop_event
        /\ serial' = "end"
        /\ UNCHANGED <<serial_ready, outbox, faults>>
     \/ /\ ~stop_event
        /\ serial' = "write"
        /\ serial_ready' = TRUE
        /\ Emit("serial", <<Event("device_connection", TRUE), Other>>)
        /\ UNCHANGED faults
     \/ /\ ~stop_event /\ Disturbed
        /\ serial' = "finally"
        /\ Emit("serial", <<Other>>)
        /\ UNCHANGED serial_ready
  /\ UNCHANGED <<networkVars, emitVars, stop_event, stopper, rtcm, gga_ready, last, torn>>

\* The head of _rtcm_queue is written to the port.
WriteRtcm ==
  /\ rtcm' = Tail(rtcm)
  /\ last' = Head(rtcm)
  /\ torn' = (torn \/ (last.from = Head(rtcm).from /\ Head(rtcm).n # last.n + 1))

\* _write_queued_rtcm writes until the queue is empty.
SerialWrite ==
  /\ serial = "write" /\ Idle("serial")
  /\ IF stop_event \/ rtcm = <<>>
       THEN serial' = "read" /\ UNCHANGED <<rtcm, last, torn>>
       ELSE WriteRtcm /\ UNCHANGED serial
  /\ UNCHANGED <<networkVars, emitVars, stop_event, stopper, serial_ready, gga_ready, outbox, faults>>

\* port.read returns nothing, or a sentence that is not a valid position.
SerialRead ==
  /\ serial = "read" /\ Idle("serial")
  /\ serial' = IF stop_event THEN "finally" ELSE "write"
  /\ \E es \in {<<>>, <<Other>>} : Emit("serial", es)
  /\ UNCHANGED <<networkVars, emitVars, stop_event, stopper, rtcm, serial_ready, gga_ready,
                 last, torn, faults>>

\* A position: _latest_gga is set and announced.
SerialGga ==
  /\ serial = "read" /\ Idle("serial")
  /\ serial' = IF stop_event THEN "finally" ELSE "write"
  /\ gga_ready' = TRUE
  /\ Emit("serial", <<Other>>)
  /\ UNCHANGED <<networkVars, emitVars, stop_event, stopper, rtcm, serial_ready, last, torn, faults>>

\* Reading, writing a request or writing a chunk fails; a chunk taken for writing is gone.
SerialFails ==
  /\ serial \in {"write", "read"} /\ Idle("serial")
  /\ Disturbed
  /\ serial' = "finally"
  /\ rtcm' \in {rtcm} \cup (IF serial = "write" /\ rtcm # <<>> THEN {Tail(rtcm)} ELSE {})
  /\ Emit("serial", IF stop_event THEN <<>> ELSE <<Other>>)
  /\ UNCHANGED <<networkVars, emitVars, stop_event, stopper, serial_ready, gga_ready, last, torn>>

\* The finally block: the port counts as lost, then the position, then the corrections
\* are discarded one by one.
SerialFinally ==
  /\ serial = "finally" /\ Idle("serial")
  /\ serial' = "forget"
  /\ serial_ready' = FALSE
  /\ Emit("serial", <<Event("device_connection", FALSE), Other>>)
  /\ UNCHANGED <<networkVars, emitVars, stop_event, stopper, rtcm, gga_ready, last, torn, faults>>

ClearLatestGga ==
  /\ serial = "forget" /\ Idle("serial")
  /\ serial' = "clear"
  /\ gga_ready' = FALSE
  /\ UNCHANGED <<networkVars, emitVars, stop_event, stopper, rtcm, outbox, serial_ready, last,
                 torn, faults>>

\* Once the queue is empty the port is closed and opened again after
\* _serial_reconnect_delay, which the stop event cuts short.
ClearRtcmQueue ==
  /\ serial = "clear"
  /\ IF rtcm # <<>>
       THEN rtcm' = Tail(rtcm) /\ UNCHANGED <<serial, last>>
       ELSE serial' = "open" /\ last' = NoChunk /\ UNCHANGED rtcm
  /\ UNCHANGED <<networkVars, emitVars, stop_event, stopper, outbox, serial_ready, gga_ready,
                 torn, faults>>

-----------------------------------------------------------------------------
(* _network_worker *)

\* Mutant of NetworkIdle: the worker does not look at the stop event while it waits.
NetworkIdleForever ==
  /\ network = "idle" /\ Idle("network")
  /\ serial_ready /\ network' = "gga"
  /\ UNCHANGED <<serialVars, emitVars, stop_event, stopper, rtcm, outbox, faults, chunk,
                 registered, socket, connected, attempts, received>>

\* The session runs until a disturbance, a closed socket, the stop event or the loss of
\* the serial port sends the worker to its finally block.
NetworkIdle ==
  /\ network = "idle" /\ Idle("network")
  /\ \/ stop_event /\ network' = "end"
     \/ ~stop_event /\ serial_ready /\ network' = "gga"
  /\ UNCHANGED <<serialVars, emitVars, stop_event, stopper, rtcm, outbox, faults, chunk,
                 registered, socket, connected, attempts, received>>

\* Mutant of NetworkGga: the worker returns when no position came in time.
NetworkGgaGivesUp ==
  /\ network = "gga"
  /\ network' = IF gga_ready THEN "create" ELSE "end"
  /\ UNCHANGED <<serialVars, emitVars, stop_event, stopper, rtcm, outbox, faults, chunk,
                 registered, socket, connected, attempts, received>>

\* _gga_ready.wait(0.2)
NetworkGga ==
  /\ network = "gga"
  /\ network' = IF gga_ready THEN "create" ELSE "idle"
  /\ UNCHANGED <<serialVars, emitVars, stop_event, stopper, rtcm, outbox, faults, chunk,
                 registered, socket, connected, attempts, received>>

\* The socket exists before stop() can know of it.
CreateSocket ==
  /\ network = "create"
  /\ socket' = "open"
  /\ network' = "register"
  /\ attempts' = attempts + 1
  /\ UNCHANGED <<serialVars, emitVars, stop_event, stopper, rtcm, outbox, faults, chunk,
                 registered, connected, received>>

RegisterSocket ==
  /\ network = "register"
  /\ registered' = TRUE
  /\ network' = "response"
  /\ UNCHANGED <<serialVars, emitVars, stop_event, stopper, rtcm, outbox, faults, chunk,
                 socket, connected, attempts, received>>

\* A session step raises: a disturbance, or the socket was closed by stop().
SessionFails ==
  /\ network \in {"response", "loop", "recv"} /\ Idle("network")
  /\ \/ socket = "closed" /\ UNCHANGED faults
     \/ socket = "open" /\ Disturbed
  /\ network' = "finally"
  /\ Emit("network", IF stop_event THEN <<>> ELSE <<Other>>)
  /\ UNCHANGED <<serialVars, emitVars, stop_event, stopper, rtcm, chunk, registered, socket,
                 connected, attempts, received>>

\* A chunk arrives in the response or in the stream.
Receive(next) ==
  /\ received < MaxChunks
  /\ received' = received + 1
  /\ chunk' = [from |-> attempts,
               n    |-> IF chunk.from = attempts THEN chunk.n + 1 ELSE 1]
  /\ network' = next

\* The caster accepts the connection and its response is complete, with or without a first chunk behind it.
Response ==
  /\ network = "response"
  /\ \/ /\ stop_event
        /\ network' = "finally"
        /\ UNCHANGED <<chunk, received>>
     \/ /\ ~stop_event /\ socket = "open"
        /\ \/ network' = "up" /\ UNCHANGED <<chunk, received>>
           \/ Receive("put_first")
  /\ UNCHANGED <<serialVars, emitVars, stop_event, stopper, rtcm, outbox, faults,
                 registered, socket, connected, attempts>>

\* _queue_rtcm waits half a second for room, then raises.
QueueRtcm ==
  /\ network \in {"put_first", "put"} /\ Idle("network")
  /\ \/ /\ Len(rtcm) < MaxRtcm
        /\ rtcm' = Append(rtcm, chunk)
        /\ network' = IF network = "put" THEN "loop" ELSE "up"
        /\ UNCHANGED <<faults, outbox>>
     \/ /\ Len(rtcm) = MaxRtcm /\ Disturbed
        /\ network' = "finally"
        /\ Emit("network", IF stop_event THEN <<>> ELSE <<Other>>)
        /\ UNCHANGED rtcm
  /\ UNCHANGED <<serialVars, emitVars, stop_event, stopper, chunk, registered, socket,
                 connected, attempts, received>>

\* Mutant of SetNtripConnected: only the connection is reported, not its loss.
SetNtripConnectedOnly(b, es) ==
  /\ connected' = b
  /\ Emit("network", (IF b /\ ~connected THEN <<Event("connection", b)>> ELSE <<>>) \o es)

\* _set_ntrip_connected reports changes only; es is emitted after it.
SetNtripConnected(b, es) ==
  /\ connected' = b
  /\ Emit("network", (IF b # connected THEN <<Event("connection", b)>> ELSE <<>>) \o es)

SessionUp ==
  /\ network = "up"
  /\ SetNtripConnected(TRUE, <<Other>>)
  /\ network' = "loop"
  /\ UNCHANGED <<serialVars, emitVars, stop_event, stopper, rtcm, faults, chunk, registered,
                 socket, attempts, received>>

\* Mutant of SessionLoop: the loop does not look at the serial port.
SessionLoopBlind ==
  /\ network = "loop" /\ Idle("network")
  /\ IF stop_event THEN network' = "finally" ELSE socket = "open" /\ network' = "recv"
  /\ UNCHANGED <<serialVars, emitVars, stop_event, stopper, rtcm, outbox, faults, chunk,
                 registered, socket, connected, attempts, received>>

\* The head of the loop; the position it may send to the caster changes nothing here.
SessionLoop ==
  /\ network = "loop" /\ Idle("network")
  /\ IF stop_event \/ ~serial_ready
       THEN network' = "finally"
       ELSE socket = "open" /\ network' = "recv"
  /\ UNCHANGED <<serialVars, emitVars, stop_event, stopper, rtcm, outbox, faults, chunk,
                 registered, socket, connected, attempts, received>>

\* recv returns a chunk or times out after 0.2 s.
SessionRecv ==
  /\ network = "recv" /\ socket = "open"
  /\ \/ Receive("put")
     \/ network' = "loop" /\ UNCHANGED <<chunk, received>>
  /\ UNCHANGED <<serialVars, emitVars, stop_event, stopper, rtcm, outbox, faults,
                 registered, socket, connected, attempts>>

NetworkFinally ==
  /\ network = "finally" /\ Idle("network")
  /\ SetNtripConnected(FALSE, <<>>)
  /\ network' = "close"
  /\ UNCHANGED <<serialVars, emitVars, stop_event, stopper, rtcm, faults, chunk, registered,
                 socket, attempts, received>>

\* Mutant of CloseNetworkSocket: the socket is forgotten, not closed.
CloseNetworkSocketNot ==
  /\ registered' = FALSE
  /\ UNCHANGED socket

\* _close_network_socket takes the registered socket, if any, and closes it.
CloseNetworkSocket ==
  /\ registered' = FALSE
  /\ socket' = IF registered THEN "closed" ELSE socket

\* The worker starts over after _ntrip_reconnect_delay, which the stop event cuts short.
NetworkClose ==
  /\ network = "close" /\ Idle("network")
  /\ CloseNetworkSocket
  /\ network' = "idle"
  /\ UNCHANGED <<serialVars, emitVars, stop_event, stopper, rtcm, outbox, faults, chunk,
                 connected, attempts, received>>

-----------------------------------------------------------------------------
(* stop() *)

Stop ==
  /\ stopper = "running"
  /\ stopper' = "close" /\ stop_event' = TRUE
  /\ UNCHANGED <<serialVars, networkVars, emitVars, rtcm, outbox, faults>>

\* The two joins that follow give up after two seconds each.
StopClose ==
  /\ stopper = "close"
  /\ CloseNetworkSocket
  /\ stopper' = "join"
  /\ UNCHANGED <<serialVars, emitVars, network, chunk, connected, attempts, received,
                 stop_event, rtcm, outbox, faults>>

-----------------------------------------------------------------------------
Emitting(t) == EmitPut(t) \/ EmitDrop(t) \/ EmitRetry(t)

SerialStep ==
  \/ SerialOpen \/ SerialWrite \/ SerialRead \/ SerialGga \/ SerialFails
  \/ SerialFinally \/ ClearLatestGga \/ ClearRtcmQueue

NetworkStep ==
  \/ NetworkIdle \/ NetworkGga \/ CreateSocket \/ RegisterSocket \/ SessionFails
  \/ Response \/ QueueRtcm \/ SessionUp \/ SessionLoop \/ SessionRecv
  \/ NetworkFinally \/ NetworkClose

Next ==
  \/ SerialStep \/ NetworkStep \/ DrainRosEvents \/ Stop \/ StopClose
  \/ \E t \in Thread : Emitting(t)

\* Every thread runs on.  Nothing makes the receiver send positions.
Fairness ==
  /\ WF_vars(SerialStep) /\ WF_vars(NetworkStep)
  /\ \A t \in Thread : WF_vars(Emitting(t))
  /\ WF_vars(DrainRosEvents) /\ WF_vars(StopClose)

Spec == Init /\ [][Next]_vars /\ Fairness

-----------------------------------------------------------------------------
(* Properties *)

\* The type invariant; neither queue exceeds its capacity although two threads share the
\* get-and-retry of _emit.
TypeOK ==
  /\ {stop_event, serial_ready, gga_ready, registered, connected, torn} \subseteq BOOLEAN
  /\ serial \in {"open", "write", "read", "finally", "forget", "clear", "end"}
  /\ network \in {"idle", "gga", "create", "register", "response", "put_first",
                  "up", "loop", "recv", "put", "finally", "close", "end"}
  /\ stopper \in {"running", "close", "join"}
  /\ Len(rtcm) <= MaxRtcm /\ Len(events) <= MaxEvents
  /\ socket \in {"none", "open", "closed"}
  /\ shown \in [Kind -> BOOLEAN] /\ lost \subseteq Kind
  /\ faults \in 0 .. MaxFaults /\ received \in 0 .. MaxChunks

\* Within one connection to the caster and one opening of the port, the receiver gets
\* the stream without a gap: a chunk is dropped only together with its connection.
\* Of the chunks received while the port was gone, at most one is left for its next opening.
CorrectionsIntact ==
  /\ ~torn
  /\ serial = "open" =>
       Len(rtcm) + (IF network \in {"put_first", "put"} THEN 1 ELSE 0) <= 1

\* No socket outlives its session, also when stop() runs between the creation of the
\* socket and its registration.
SocketClosed == network \in {"idle", "gga", "end"} => socket # "open" /\ ~registered

\* The published state of the caster connection and of the device follows the real one,
\* unless the event that says so was dropped from the full queue.
Reported(k) == IF k = "connection" THEN connected ELSE serial_ready
StateShown ==
  <>[](stop_event \/ \A k \in Kind : shown[k] = Reported(k) \/ k \in lost)

\* After stop() both workers end.
WorkersEnd == stop_event ~> (serial = "end" /\ network = "end")

\* A receiver whose port is read keeps sending positions.
PositionsKeepComing == <>[](serial # "read") \/ []<><<SerialGga>>_vars

\* Port and caster connection come back by themselves once the disturbances are over.
Recovers == PositionsKeepComing => (<>stop_event \/ <>[](serial_ready /\ connected))
=============================================================================
