-------------------------------- MODULE RsNode --------------------------------
\* The rslidar_sdk node (ROS 2 build): main() and NodeManager, a SourceDriver or
\* SourcePacketRos per lidar with the queues of clouds between the handling thread of
\* rs_driver and the publishing thread, and the messages made of clouds and packets.
\*
\* A packet is its number: a lidar sends frames of Columns packets, and a packet
\* holds one point per channel. Where frames are cut is RsFrontEnd's subject; here a cloud
\* is cut at the first packet of another frame. pkt_queue_ is SyncQueue's, taken as atomic.
EXTENDS Ordering, SequencesExt

CONSTANTS
  FramesOf,             \* of each lidar in the configuration: the frames it sends
  Columns, Channels,
  CloudQueue, PktQueue, \* places of a queue of clouds (1023) and of packets
  MaxPktLoss            \* bound on packets lost before the driver

ASSUME NodeAssumption ==
  /\ FramesOf \in Seq(Nat) \ {<<>>} /\ MaxPktLoss \in Nat
  /\ {Columns, Channels, CloudQueue, PktQueue} \subseteq Nat \ {0}

VARIABLES
  config,            \* [msg_source, ros_send_by_rows, dense_points]
  node, at,          \* main(): "init", "start", "wait", "stop", "ended", "terminated",
                     \* "exited"; the source its loop is at
  sent, pktLoss,     \* packets the lidars, or the recordings of them, have sent; lost ones
  pkt_queue_, start_flag_, prevFrame,
  cloudMsg,          \* LidarPointCloudMsg objects, by source and number
  point_cloud_,      \* the decoder's object, or NoMsg
  free_point_cloud_queue_, point_cloud_queue_, to_exit_process_,
  processing,        \* publishing thread: "none", "loop", "wait", "send", "recycle", "ended"
  msg,               \* its object
  clouds, packets    \* messages published

inputVars == <<sent, pktLoss>>
driverVars == <<pkt_queue_, start_flag_, prevFrame, cloudMsg, point_cloud_, free_point_cloud_queue_,
                point_cloud_queue_>>
threadVars == <<processing, msg, to_exit_process_>>
nodeVars == <<config, node, at, inputVars, driverVars, threadVars, clouds, packets>>

Source == DOMAIN FramesOf
NoMsg == 0
FrameOfPkt(n) == (n - 1) \div Columns + 1

\* The points of a packet: the first channel of every second packet sees nothing, which
\* dense clouds leave out and others keep as NAN.
PacketPoints(n) ==
  [c \in 1 .. Channels |-> [pkt |-> n, chan |-> c, nan |-> c = 1 /\ n % 2 = 0]]
DecodedPoints(n) ==
  LET points == PacketPoints(n)
  IN  IF config.dense_points THEN Picked(points, {c \in DOMAIN points : ~points[c].nan}) ELSE points

-----------------------------------------------------------------------------
\* rs_driver's side of a source.

\* A packet comes in: while the driver runs, or from a topic as soon as it is subscribed.
\* A full queue is emptied, and the packet is lost with it.
Subscribed(s) == IF config.msg_source = "packets" THEN processing[s] # "none" ELSE start_flag_[s]
Receive(s) ==
  /\ Subscribed(s) /\ sent[s] < FramesOf[s] * Columns
  /\ sent' = [sent EXCEPT ![s] = @ + 1]
  /\ pkt_queue_' = [pkt_queue_ EXCEPT ![s] = IF Len(@) = PktQueue THEN <<>> ELSE Append(@, sent'[s])]
  /\ UNCHANGED <<config, node, at, pktLoss, start_flag_, prevFrame, cloudMsg, point_cloud_,
                 free_point_cloud_queue_, point_cloud_queue_, threadVars, clouds, packets>>

LosePacket(s) ==
  /\ Subscribed(s) /\ sent[s] < FramesOf[s] * Columns /\ pktLoss < MaxPktLoss
  /\ sent' = [sent EXCEPT ![s] = @ + 1] /\ pktLoss' = pktLoss + 1
  /\ UNCHANGED <<config, node, at, driverVars, threadVars, clouds, packets>>

Handling(s) == start_flag_[s] /\ point_cloud_[s] # NoMsg /\ pkt_queue_[s] # <<>>
\* The decoder splits before the packet: no split strategy does that on its first one.
Begins(s) == prevFrame[s] # 0 /\ FrameOfPkt(Head(pkt_queue_[s])) # prevFrame[s]

\* putPointCloud: a cloud that finds the queue full is dropped.
putPointCloud(s, id) ==
  point_cloud_queue_' = [point_cloud_queue_ EXCEPT ![s] = IF Len(@) < CloudQueue THEN Append(@, id) ELSE @]

\* splitFrame before the first point of another frame: header, cloud to the queue.
splitFrame(s) ==
  LET id == point_cloud_[s]
      n == Len(cloudMsg[s][id].points)
      height == IF config.dense_points THEN 1 ELSE Channels
  IN  /\ Handling(s) /\ Begins(s) /\ n > 0
      /\ cloudMsg' = [cloudMsg EXCEPT ![s][id].height = height, ![s][id].width = n \div height]
      /\ putPointCloud(s, id)
      /\ point_cloud_' = [point_cloud_ EXCEPT ![s] = NoMsg]
      /\ UNCHANGED <<config, node, at, inputVars, pkt_queue_, start_flag_, prevFrame,
                     free_point_cloud_queue_, threadVars, clouds, packets>>

\* getPointCloud: an object that was published before, or a new one, emptied.
getPointCloud(s) ==
  LET free == free_point_cloud_queue_[s]
      id == IF free = <<>> THEN Len(cloudMsg[s]) + 1 ELSE Head(free)
      empty == [points |-> <<>>, width |-> 0, height |-> 0]
  IN  /\ point_cloud_' = [point_cloud_ EXCEPT ![s] = id]
      /\ cloudMsg' = [cloudMsg EXCEPT ![s] = IF free = <<>> THEN Append(@, empty)
                                             ELSE [@ EXCEPT ![id].points = <<>>]]
      /\ free_point_cloud_queue_' = [free_point_cloud_queue_ EXCEPT ![s] = IF free = <<>> THEN @ ELSE Tail(@)]

NextCloud(s) ==
  /\ start_flag_[s] /\ point_cloud_[s] = NoMsg
  /\ getPointCloud(s)
  /\ UNCHANGED <<config, node, at, inputVars, pkt_queue_, start_flag_, prevFrame,
                 point_cloud_queue_, threadVars, clouds, packets>>

\* toRosMsg of a packet: its content, and whether the decoder split before it.
PacketToRosMsg(n, begins) == [pkt |-> n, is_frame_begin |-> begins]
sendPacket(s, m) == packets' = [packets EXCEPT ![s] = Append(@, m)]

\* internalProcessPacket: the points into the cloud, then the packet to its destination.
internalProcessPacket(s) ==
  LET n == Head(pkt_queue_[s])
      id == point_cloud_[s]
  IN  /\ Handling(s) /\ (Begins(s) => cloudMsg[s][id].points = <<>>)
      /\ cloudMsg' = [cloudMsg EXCEPT ![s][id].points = @ \o DecodedPoints(n)]
      /\ prevFrame' = [prevFrame EXCEPT ![s] = FrameOfPkt(n)]
      /\ pkt_queue_' = [pkt_queue_ EXCEPT ![s] = Tail(@)]
      /\ sendPacket(s, PacketToRosMsg(n, Begins(s)))
      /\ UNCHANGED <<config, node, at, inputVars, start_flag_, point_cloud_,
                     free_point_cloud_queue_, point_cloud_queue_, threadVars, clouds>>

-----------------------------------------------------------------------------
\* The publishing thread.

\* Dense clouds have no rows.
send_by_rows_ == config.ros_send_by_rows /\ ~config.dense_points

\* Rows of a cloud that is stored column by column.
ByRows(m) == [k \in 1 .. m.width * m.height |->
                m.points[(k - 1) \div m.width + (((k - 1) % m.width) * m.height) + 1]]

\* toRosMsg of a cloud. Without rows the two extents are exchanged and the points stay.
CloudToRosMsg(m) ==
  IF send_by_rows_
  THEN [width |-> m.width, height |-> m.height, data |-> ByRows(m)]
  ELSE [width |-> m.height, height |-> m.width, data |-> m.points]

ProcessStep(s, from, to) ==
  /\ processing[s] = from /\ processing' = [processing EXCEPT ![s] = to]
  /\ UNCHANGED <<config, node, at, inputVars, pkt_queue_, start_flag_, prevFrame, cloudMsg,
                 point_cloud_, to_exit_process_, packets>>

CheckExit(s) ==
  /\ ProcessStep(s, "loop", IF to_exit_process_[s] THEN "ended" ELSE "wait")
  /\ UNCHANGED <<msg, free_point_cloud_queue_, point_cloud_queue_, clouds>>

\* popWait returned a cloud, or nothing after a second.
PopCloud(s) ==
  /\ point_cloud_queue_[s] # <<>>
  /\ ProcessStep(s, "wait", "send")
  /\ msg' = [msg EXCEPT ![s] = Head(point_cloud_queue_[s])]
  /\ point_cloud_queue_' = [point_cloud_queue_ EXCEPT ![s] = Tail(@)]
  /\ UNCHANGED <<free_point_cloud_queue_, clouds>>

PopNothing(s) ==
  /\ point_cloud_queue_[s] = <<>>
  /\ ProcessStep(s, "wait", "loop")
  /\ UNCHANGED <<msg, free_point_cloud_queue_, point_cloud_queue_, clouds>>

sendPointCloud(s) == clouds' = [clouds EXCEPT ![s] = Append(@, CloudToRosMsg(cloudMsg[s][msg[s]]))]
PushFree(s) == free_point_cloud_queue_' = [free_point_cloud_queue_ EXCEPT ![s] = Append(@, msg[s])]

\* Mutant of processPointCloud: the object is free before it is published.
processPointCloudFreesFirst(s) ==
  \/ ProcessStep(s, "send", "recycle") /\ PushFree(s) /\ UNCHANGED <<msg, point_cloud_queue_, clouds>>
  \/ ProcessStep(s, "recycle", "loop") /\ sendPointCloud(s)
     /\ UNCHANGED <<msg, point_cloud_queue_, free_point_cloud_queue_>>

\* The cloud is published, then its object is free.
processPointCloud(s) ==
  \/ ProcessStep(s, "send", "recycle") /\ sendPointCloud(s)
     /\ UNCHANGED <<msg, point_cloud_queue_, free_point_cloud_queue_>>
  \/ ProcessStep(s, "recycle", "loop") /\ PushFree(s) /\ UNCHANGED <<msg, point_cloud_queue_, clouds>>

-----------------------------------------------------------------------------
\* main(): init of every source, start of every source, the wait, stop of every source.
Loop(here, next) ==
  /\ node = here
  /\ at' = IF at = Len(FramesOf) THEN 1 ELSE at + 1
  /\ node' = IF at = Len(FramesOf) THEN next ELSE node

\* SourceDriver::init: the publishing thread is started before the driver is set up.
SourceDriverInit(s) == processing' = [processing EXCEPT ![s] = "loop"] /\ getPointCloud(s)

InitSource ==
  /\ Loop("init", "start")
  /\ SourceDriverInit(at)
  /\ UNCHANGED <<config, inputVars, pkt_queue_, start_flag_, prevFrame, point_cloud_queue_, msg,
                 to_exit_process_, clouds, packets>>

\* The driver could not be set up: the process ends, in the middle of what threads do.
InitFails ==
  /\ node = "init" /\ config.msg_source = "lidar" /\ node' = "exited"
  /\ SourceDriverInit(at)
  /\ UNCHANGED <<config, at, inputVars, pkt_queue_, start_flag_, prevFrame, point_cloud_queue_, msg,
                 to_exit_process_, clouds, packets>>

StartSource ==
  /\ Loop("start", "wait")
  /\ start_flag_' = [start_flag_ EXCEPT ![at] = TRUE]
  /\ UNCHANGED <<config, inputVars, pkt_queue_, prevFrame, cloudMsg, point_cloud_,
                 free_point_cloud_queue_, point_cloud_queue_, threadVars, clouds, packets>>

\* g_cv.wait ends at a signal, or by itself; a signal that came earlier changed nothing.
WaitEnds ==
  /\ node = "wait" /\ node' = "stop"
  /\ UNCHANGED <<config, at, inputVars, driverVars, threadVars, clouds, packets>>

\* SourceDriver::stop: the driver, whose handling thread ends between two packets and whose
\* cloud is emptied; then the flag and the join of the publishing thread.
StopDriver ==
  /\ node = "stop" /\ start_flag_[at] /\ point_cloud_[at] # NoMsg
  /\ start_flag_' = [start_flag_ EXCEPT ![at] = FALSE]
  /\ cloudMsg' = [cloudMsg EXCEPT ![at][point_cloud_[at]].points = <<>>]
  /\ to_exit_process_' = [to_exit_process_ EXCEPT ![at] = TRUE]
  /\ UNCHANGED <<config, node, at, inputVars, pkt_queue_, prevFrame, point_cloud_,
                 free_point_cloud_queue_, point_cloud_queue_, processing, msg, clouds, packets>>

JoinProcess ==
  /\ Loop("stop", "ended")
  /\ to_exit_process_[at] /\ processing[at] = "ended"
  /\ UNCHANGED <<config, inputVars, driverVars, threadVars, clouds, packets>>

\* The thread that spins a SourcePacketRos is never joined: its destructor terminates.
SourceDestroyed ==
  /\ node = "ended" /\ config.msg_source = "packets" /\ node' = "terminated"
  /\ UNCHANGED <<config, at, inputVars, driverVars, threadVars, clouds, packets>>

-----------------------------------------------------------------------------
NodeInit ==
  /\ config \in [msg_source : {"lidar", "packets"}, ros_send_by_rows : BOOLEAN, dense_points : BOOLEAN]
  /\ node = "init" /\ at = 1 /\ pktLoss = 0
  /\ sent = [s \in Source |-> 0] /\ pkt_queue_ = [s \in Source |-> <<>>]
  /\ start_flag_ = [s \in Source |-> FALSE] /\ prevFrame = [s \in Source |-> 0]
  /\ cloudMsg = [s \in Source |-> <<>>] /\ point_cloud_ = [s \in Source |-> NoMsg]
  /\ free_point_cloud_queue_ = [s \in Source |-> <<>>] /\ point_cloud_queue_ = [s \in Source |-> <<>>]
  /\ to_exit_process_ = [s \in Source |-> FALSE] /\ processing = [s \in Source |-> "none"]
  /\ msg = [s \in Source |-> NoMsg]
  /\ clouds = [s \in Source |-> <<>>] /\ packets = [s \in Source |-> <<>>]

NodeNext ==
  \/ InitSource \/ InitFails \/ StartSource \/ WaitEnds \/ StopDriver \/ JoinProcess \/ SourceDestroyed
  \/ \E s \in Source :
       \/ Receive(s) \/ LosePacket(s) \/ splitFrame(s) \/ NextCloud(s) \/ internalProcessPacket(s)
       \/ CheckExit(s) \/ PopCloud(s) \/ PopNothing(s) \/ processPointCloud(s)

NodeSpec == NodeInit /\ [][NodeNext]_nodeVars

-----------------------------------------------------------------------------
NodeTypeOK ==
  /\ node \in {"init", "start", "wait", "stop", "ended", "terminated", "exited"} /\ at \in Source
  /\ \A s \in Source :
       /\ point_cloud_[s] \in 0 .. Len(cloudMsg[s]) /\ msg[s] \in 0 .. Len(cloudMsg[s])
       /\ Len(pkt_queue_[s]) <= PktQueue /\ Len(point_cloud_queue_[s]) <= CloudQueue
  /\ pktLoss \in 0 .. MaxPktLoss

\* What was decoded of a frame: the points of its packets that were handled.
HandledOf(s, frame) == {k \in DOMAIN packets[s] : FrameOfPkt(packets[s][k].pkt) = frame}
DecodedOf(s, frame) == UNION {ToSet(DecodedPoints(packets[s][k].pkt)) : k \in HandledOf(s, frame)}

\* The order in which points are decoded, and that of their rows.
Precedes(p, q) == p.pkt < q.pkt \/ (p.pkt = q.pkt /\ p.chan < q.chan)
RowPrecedes(p, q) == p.chan < q.chan \/ (p.chan = q.chan /\ p.pkt < q.pkt)

\* The points of one frame, each once, in their order or by rows of one channel each.
IsFrame(s, m, frame) ==
  /\ ToSet(m.data) = DecodedOf(s, frame) /\ Len(m.data) = m.width * m.height
  /\ \A i, j \in DOMAIN m.data :
       i < j => IF send_by_rows_ THEN RowPrecedes(m.data[i], m.data[j])
                                 ELSE Precedes(m.data[i], m.data[j])
  /\ send_by_rows_ => \A k \in DOMAIN m.data : m.data[k].chan = ((k - 1) \div m.width) + 1

\* A published cloud is one whole decoded frame, whatever object carried it before and while
\* other clouds were decoded, dropped and recycled; clouds are published in the order of
\* their frames; and a recording says where each of them began, except for the first packet
\* that is handled, which no frame ends before.
CloudFrame(m) == FrameOfPkt(m.data[1].pkt)
CloudsPublished ==
  \A s \in Source :
    /\ \A i \in DOMAIN clouds[s] :
         LET frame == CloudFrame(clouds[s][i])
         IN  /\ clouds[s][i].data # <<>> /\ IsFrame(s, clouds[s][i], frame)
             /\ \A k \in HandledOf(s, frame) :
                  packets[s][k].is_frame_begin <=> k # 1 /\ \A j \in HandledOf(s, frame) : k <= j
    /\ \A i, j \in DOMAIN clouds[s] : i < j => CloudFrame(clouds[s][i]) < CloudFrame(clouds[s][j])
=============================================================================
