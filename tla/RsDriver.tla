------------------------------ MODULE RsDriver ------------------------------
(***************************************************************************)
(* rs_driver's LidarDriverImpl with a socket Input: the receiving thread   *)
(* takes a free packet buffer (or allocates one), stuffs it and pushes it  *)
(* on pkt_queue_; the handling thread pops batches, decodes each packet    *)
(* into the point cloud under construction and returns the buffer to       *)
(* free_pkt_queue_; the caller's thread starts and stops both.             *)
(*                                                                         *)
(* pkt_queue_ is the step-by-step SyncQueue, because its clear() is called *)
(* by the producer while the consumer may be inside popBatch.              *)
(* free_pkt_queue_ is never cleared and has one producer and one consumer  *)
(* (no caller of pushPacket passes stuffed = false), so it is the bounded  *)
(* sequence that SyncQueue implements.                                     *)
(***************************************************************************)
EXTENDS Integers, Sequences, FiniteSets, SequencesExt

CONSTANTS Capacity,    (* slots of both SyncQueues                          *)
          MaxCount,    (* batch size of processPacket (50 in the code)      *)
          NoBuffer,    (* the null shared_ptr                               *)
          MaxPackets,  (* bound: datagrams received                         *)
          MaxSessions  (* bound: calls of start()                           *)

\* Buffer objects.  At most one is allocated per datagram, plus the spare one the
\* receiving thread holds in each session.
Buffers == 1 .. (MaxPackets + MaxSessions)

ASSUME DriverAssumption ==
  /\ Capacity \in Nat /\ Capacity >= 2 /\ MaxCount \in Nat \ {0}
  /\ {MaxPackets, MaxSessions} \subseteq Nat
  /\ NoBuffer \notin Buffers

VARIABLES
  buffer_, head_, tail_, ppc, pvalue, ptail,
  cpc, chead, count, copied, result,     (* pkt_queue_, see SyncQueue       *)
  free,        (* free_pkt_queue_                                           *)
  content,     (* number of the datagram last written into each buffer      *)
  received,    (* datagrams received so far                                 *)
  rpc, rbuf,   (* receiving thread: place, pkt_pool                         *)
  hpc, todo,   (* handling thread: place, rest of pkt_batch                 *)
  handled,     (* datagram numbers decoded, in order                        *)
  cloud,       (* datagrams whose points are in decoder_ptr_->point_cloud_  *)
  base,        (* history: Len(handled) when the session started            *)
  mpc, init_flag_, to_exit_recv_, to_exit_handle_, sessions, (* caller      *)
  begin, left, (* history: received, and the datagrams on pkt_queue_, when   *)
               (*  the session started                                      *)
  raced        (* history: the consumer was inside popBatch during a clear  *)

pktVars    == <<buffer_, head_, tail_, ppc, pvalue, ptail,
                cpc, chead, count, copied, result>>
recvVars   == <<rpc, rbuf, received>>
handleVars == <<hpc, todo, handled, cloud, base>>
mainVars   == <<mpc, init_flag_, to_exit_recv_, to_exit_handle_, sessions, begin, left>>
vars       == <<pktVars, free, content, recvVars, handleVars, mainVars, raced>>

Pkt == INSTANCE SyncQueue WITH Value <- Buffers, NoValue <- NoBuffer

Init ==
  /\ Pkt!Init
  /\ free = <<>>
  /\ content = [b \in Buffers |-> 0]
  /\ received = 0
  /\ rpc = "off" /\ rbuf = NoBuffer
  /\ hpc = "off" /\ todo = <<>> /\ handled = <<>> /\ cloud = {} /\ base = 0
  /\ mpc = "new" /\ init_flag_ = FALSE
  /\ to_exit_recv_ = FALSE /\ to_exit_handle_ = FALSE /\ sessions = 0
  /\ begin = 0 /\ left = {}
  /\ raced = FALSE

TrackRace == raced' = (raced \/ (ppc' = "clear" /\ cpc' # "idle"))

-----------------------------------------------------------------------------
(* The caller: init, start, stop *)

\* The Input may fail to open its sockets; then start() refuses.
DriverInit ==
  /\ mpc = "new"
  /\ \E ok \in BOOLEAN : init_flag_' = ok /\ mpc' = IF ok THEN "ready" ELSE "failed"
  /\ UNCHANGED <<pktVars, free, content, recvVars, handleVars, to_exit_recv_,
                 to_exit_handle_, sessions, begin, left, raced>>

\* start() launches the handling thread, then Input::start() the receiving one.  What
\* stop() left on pkt_queue_ is still there.
Start ==
  /\ mpc = "ready"
  /\ init_flag_
  /\ sessions < MaxSessions
  /\ to_exit_handle_' = FALSE /\ hpc' = "loop"
  /\ to_exit_recv_' = FALSE /\ rpc' = "loop"
  /\ mpc' = "started"
  /\ sessions' = sessions + 1
  /\ base' = Len(handled) /\ begin' = received
  /\ left' = {content[b] : b \in Range(Pkt!Contents) \cap Buffers}
  /\ UNCHANGED <<pktVars, free, content, rbuf, received, todo, handled, cloud,
                 init_flag_, raced>>

\* stop(): Input::stop() asks the receiving thread to exit and joins it ...
StopInput ==
  /\ mpc = "started"
  /\ to_exit_recv_' = TRUE
  /\ mpc' = "join_recv"
  /\ UNCHANGED <<pktVars, free, content, recvVars, handleVars, init_flag_,
                 to_exit_handle_, sessions, begin, left, raced>>

\* Mutant of JoinRecv: the handling thread is never told to exit.
JoinRecvNoFlag ==
  /\ mpc = "join_recv"
  /\ rpc = "off"
  /\ mpc' = "join_handle"
  /\ UNCHANGED <<pktVars, free, content, recvVars, handleVars, init_flag_,
                 to_exit_recv_, to_exit_handle_, sessions, begin, left, raced>>

\* ... and only then is the handling thread asked to exit and joined.
JoinRecv ==
  /\ mpc = "join_recv"
  /\ rpc = "off"
  /\ to_exit_handle_' = TRUE
  /\ mpc' = "join_handle"
  /\ UNCHANGED <<pktVars, free, content, recvVars, handleVars, init_flag_,
                 to_exit_recv_, sessions, begin, left, raced>>

\* Mutant of JoinHandle: the points of the session are kept.
JoinHandleKeepPoints ==
  /\ mpc = "join_handle"
  /\ hpc = "off"
  /\ mpc' = "ready"
  /\ UNCHANGED <<pktVars, free, content, recvVars, handleVars, init_flag_,
                 to_exit_recv_, to_exit_handle_, sessions, begin, left, raced>>

\* "clear all points before next session"
JoinHandle ==
  /\ mpc = "join_handle"
  /\ hpc = "off"
  /\ cloud' = {}
  /\ mpc' = "ready"
  /\ UNCHANGED <<pktVars, free, content, recvVars, hpc, todo, handled, base, init_flag_,
                 to_exit_recv_, to_exit_handle_, sessions, begin, left, raced>>

-----------------------------------------------------------------------------
(* The receiving thread: InputSock::recvPacket *)

\* Every object some shared_ptr still refers to, stale ring slots included.
Referenced == Range(buffer_) \cup Range(todo) \cup Range(copied) \cup Range(result)
              \cup Range(free) \cup {rbuf}

\* packetGet: a free buffer if there is one, else a new one.
PacketGet ==
  IF free # <<>>
    THEN rbuf' = Head(free) /\ free' = Tail(free) /\ UNCHANGED content
    ELSE /\ rbuf' = CHOOSE b \in Buffers : b \notin Referenced
         /\ content' = [content EXCEPT ![rbuf'] = 0]
         /\ UNCHANGED free

\* while (!to_exit_recv_) select(); then every empty place of pkt_pool is filled.
RecvSelect ==
  /\ rpc = "loop"
  /\ ~to_exit_recv_
  /\ IF rbuf = NoBuffer THEN PacketGet ELSE UNCHANGED <<rbuf, free, content>>
  /\ rpc' = "recv"
  /\ UNCHANGED <<pktVars, received, handleVars, mainVars, raced>>

\* recvmmsg writes the datagram into the buffer; too short a datagram leaves the
\* buffer in pkt_pool for the next one.
RecvStuff ==
  /\ rpc = "recv"
  /\ received < MaxPackets
  /\ received' = received + 1
  /\ content' = [content EXCEPT ![rbuf] = received + 1]
  /\ \E short \in BOOLEAN : rpc' = IF short THEN "loop" ELSE "push"
  /\ UNCHANGED <<pktVars, free, rbuf, handleVars, mainVars, raced>>

\* select timed out, or recvmmsg had nothing to read.
RecvNothing ==
  /\ rpc = "recv"
  /\ rpc' = "loop"
  /\ UNCHANGED <<pktVars, free, content, rbuf, received, handleVars, mainVars, raced>>

\* packetPut(pkt, true): push, and pkt_pool[k] = nullptr once it has returned.
RecvPushBegin ==
  /\ rpc = "push"
  /\ Pkt!PushFull(rbuf) \/ Pkt!PushLoad(rbuf)
  /\ rpc' = "pushing"
  /\ TrackRace
  /\ UNCHANGED <<free, content, rbuf, received, handleVars, mainVars>>

RecvPushWrite ==
  /\ Pkt!PushWrite
  /\ TrackRace
  /\ UNCHANGED <<free, content, recvVars, handleVars, mainVars>>

RecvPushEnd ==
  /\ Pkt!PushPublish
  /\ rpc' = "loop"
  /\ rbuf' = NoBuffer
  /\ TrackRace
  /\ UNCHANGED <<free, content, received, handleVars, mainVars>>

\* push returned -1: report ERRCODE_PKTBUFOVERFLOW and clear pkt_queue_.
RecvOverflow ==
  /\ Pkt!ClearHead
  /\ TrackRace
  /\ UNCHANGED <<free, content, recvVars, handleVars, mainVars>>

RecvCleared ==
  /\ Pkt!ClearTail
  /\ rpc' = "loop"
  /\ rbuf' = NoBuffer
  /\ TrackRace
  /\ UNCHANGED <<free, content, received, handleVars, mainVars>>

\* The loop ends when asked to, or when select() fails; pkt_pool is released.
RecvEnd ==
  /\ rpc' = "off"
  /\ rbuf' = NoBuffer
  /\ UNCHANGED <<pktVars, free, content, received, handleVars, mainVars, raced>>

RecvExit == rpc = "loop" /\ to_exit_recv_ /\ RecvEnd
RecvFail == rpc = "loop" /\ ~to_exit_recv_ /\ RecvEnd

-----------------------------------------------------------------------------
(* The handling thread: processPacket *)

\* while (!to_exit_handle_) popBatch(...): the batch form of pop.
HandlePop ==
  /\ hpc = "loop"
  /\ \/ ~to_exit_handle_ /\ Pkt!PopLoadHead
     \/ Pkt!PopEmpty
     \/ Pkt!BatchReady
     \/ Pkt!BatchReloadHead
     \/ Pkt!BatchCount
     \/ Pkt!CopyOne
  /\ TrackRace
  /\ UNCHANGED <<free, content, recvVars, handleVars, mainVars>>

HandleBatch ==
  /\ hpc = "loop"
  /\ Pkt!PopAdvance
  /\ todo' = result'
  /\ hpc' = "decode"
  /\ TrackRace
  /\ UNCHANGED <<free, content, recvVars, handled, cloud, base, mainVars>>

\* Mutant of HandleOne: the batch is not consumed from its front.
HandleOneFromBack ==
  /\ hpc = "decode"
  /\ todo # <<>>
  /\ Last(todo) # NoBuffer
  /\ LET b == Last(todo)
     IN  /\ handled' = Append(handled, content[b])
         /\ \E split \in BOOLEAN :
              cloud' = (IF split THEN {} ELSE cloud) \cup {content[b]}
         /\ free' = IF Len(free) < Capacity - 1 THEN Append(free, b) ELSE free
  /\ todo' = Front(todo)
  /\ UNCHANGED <<pktVars, content, recvVars, hpc, base, mainVars, raced>>

\* internalProcessPacket: decode, which may end the frame and hand its cloud to
\* the caller, then push the buffer on free_pkt_queue_ (dropped if that is full).
HandleOne ==
  /\ hpc = "decode"
  /\ todo # <<>>
  /\ Head(todo) # NoBuffer
  /\ LET b == Head(todo)
     IN  /\ handled' = Append(handled, content[b])
         /\ \E split \in BOOLEAN :
              cloud' = (IF split THEN {} ELSE cloud) \cup {content[b]}
         /\ free' = IF Len(free) < Capacity - 1 THEN Append(free, b) ELSE free
  /\ todo' = Tail(todo)
  /\ UNCHANGED <<pktVars, content, recvVars, hpc, base, mainVars, raced>>

\* A null packet is dereferenced without a check.
HandleNull ==
  /\ hpc = "decode"
  /\ todo # <<>>
  /\ Head(todo) = NoBuffer
  /\ hpc' = "crashed"
  /\ UNCHANGED <<pktVars, free, content, recvVars, todo, handled, cloud, base,
                 mainVars, raced>>

HandleBatchDone ==
  /\ hpc = "decode"
  /\ todo = <<>>
  /\ hpc' = "loop"
  /\ UNCHANGED <<pktVars, free, content, recvVars, todo, handled, cloud, base,
                 mainVars, raced>>

HandleExit ==
  /\ hpc = "loop"
  /\ cpc = "idle"
  /\ to_exit_handle_
  /\ hpc' = "off"
  /\ UNCHANGED <<pktVars, free, content, recvVars, todo, handled, cloud, base,
                 mainVars, raced>>

-----------------------------------------------------------------------------
Caller   == DriverInit \/ Start \/ StopInput \/ JoinRecv \/ JoinHandle
PutSteps == RecvPushBegin \/ RecvPushWrite \/ RecvPushEnd \/ RecvOverflow \/ RecvCleared
Receiver == RecvSelect \/ RecvStuff \/ RecvNothing \/ PutSteps \/ RecvExit \/ RecvFail
Handler  == HandlePop \/ HandleBatch \/ HandleOne \/ HandleNull \/ HandleBatchDone \/ HandleExit

Next == Caller \/ Receiver \/ Handler

\* Both threads keep being scheduled: recvmmsg does not block (MSG_DONTWAIT) and
\* select returns within a second.  The caller's join returns once the thread has
\* ended.  Nobody is obliged to call stop(), and no datagram need ever arrive.
Fairness ==
  /\ WF_vars(PutSteps)
  /\ WF_vars(RecvNothing)
  /\ WF_vars(RecvExit)
  /\ WF_vars(Handler)
  /\ WF_vars(JoinRecv \/ JoinHandle)

Spec == Init /\ [][Next]_vars /\ Fairness

-----------------------------------------------------------------------------
(* Properties *)

\* The type invariant; it also says that the ring indices stay below Capacity.
TypeOK ==
  /\ Pkt!TypeOK
  /\ free \in Seq(Buffers)
  /\ content \in [Buffers -> 0 .. MaxPackets]
  /\ received \in 0 .. MaxPackets
  /\ rpc \in {"off", "loop", "recv", "push", "pushing"}
  /\ rbuf \in Buffers \cup {NoBuffer}
  /\ hpc \in {"off", "loop", "decode", "crashed"}
  /\ todo \in Seq(Buffers \cup {NoBuffer})
  /\ handled \in Seq(0 .. MaxPackets)
  /\ cloud \subseteq 0 .. MaxPackets
  /\ mpc \in {"new", "failed", "ready", "started", "join_recv", "join_handle"}
  /\ sessions \in 0 .. MaxSessions
  /\ begin \in 0 .. MaxPackets /\ left \subseteq 0 .. MaxPackets

\* The places a buffer can be in: being stuffed, queued, popped and waiting to be
\* decoded, or free.
Places(b) ==
  LET in(s) == Cardinality({i \in DOMAIN s : s[i] = b})
  IN  (IF rbuf = b THEN 1 ELSE 0) + in(Pkt!Contents) + in(todo) + in(free)

\* A buffer has one owner: the receiving thread never stuffs a buffer that is
\* queued, being decoded or free, and no buffer is queued or freed twice.
\* (Between the two stores of clear() the indices are not yet meaningful.)
OneOwner == ppc # "clear" => \A b \in Buffers : Places(b) <= 1

\* Unless a clear() ran while the handling thread was inside popBatch, buffers have
\* one owner, across overflows and restarts, and every datagram is decoded at most once,
\* in the order of reception.
DecodedOnceUnlessRaced ==
  ~raced => OneOwner /\ \A i, j \in DOMAIN handled : i < j => handled[i] < handled[j]

\* The points of a cloud were decoded since the last start(), and their datagrams were
\* received since then too, but for those that stop() had left on pkt_queue_: a cloud
\* may begin with them, and with nothing older.  (After a raced clear() a stale slot of
\* the ring may be decoded again, whatever its age.)
FreshCloud ==
  mpc # "ready" =>
    /\ cloud \subseteq {handled[i] : i \in (base + 1) .. Len(handled)}
    /\ ~raced => \A n \in cloud : n > begin \/ n \in left

\* stop() returns: both joins come to an end whatever the threads were doing.
StopReturns == (mpc = "join_recv") ~> (mpc = "ready" \/ raced)
=============================================================================
