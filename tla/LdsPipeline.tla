----------------------------- MODULE LdsPipeline -----------------------------
(***************************************************************************)
(* livox_ros_driver2 from the SDK's point-cloud callback to the ROS        *)
(* publisher:                                                              *)
(*                                                                         *)
(*   SDK thread      appends raw packets to PubHandler::raw_packet_queue_; *)
(*   process thread  PubHandler::RawDataProcess: turns packets into        *)
(*                   points, cuts frames, pushes each lidar's frame on the *)
(*                   lidar's ring and signals pcd_semaphore_;              *)
(*   poll thread     DriverNode::PointCloudDataPollThread: waits on the    *)
(*                   semaphore, empties the rings and publishes;           *)
(*   IMU thread      DriverNode::ImuDataPollThread: waits on               *)
(*                   imu_semaphore_, empties the lidars' IMU queues, which *)
(*                   the SDK fills itself, and publishes;                  *)
(*   main thread     ~DriverNode, ~Lddc and ~PubHandler.                   *)
(*                                                                         *)
(* The rings and the semaphore are shared without a common lock.  Memory   *)
(* is that of x86-64: a store may become visible to the other thread after *)
(* the storing thread's later loads, and a locked operation (Signal takes  *)
(* a mutex) makes it visible.  Only the store of wr_idx matters here: it   *)
(* is what GetCount() can overtake.  A late store of rd_idx only makes the *)
(* ring look fuller to the producer, as an earlier look would.             *)
(***************************************************************************)
EXTENDS Ordering, SequencesExt

CONSTANTS NLidars,        (* slots of lidars_ in use (lidar_count_)          *)
          QueueSize,      (* what CalculatePacketQueueSize asks for          *)
          IndexRange,     (* values of rd_idx and wr_idx: 2^32 in the code   *)
          MaxPackets,     (* bound: packets the SDK delivers                 *)
          MaxRaw,         (* bound: length of raw_packet_queue_              *)
          MaxImu,         (* bound: those of them that are IMU samples       *)
          Formats         (* values of xfer_format the user may set          *)

\* RoundupPowerOf2
RoundupPowerOf2(n) == CHOOSE p \in {2^k : k \in 0 .. n} :
                        p >= n /\ \A k \in 0 .. n : 2^k >= n => 2^k >= p

Size == RoundupPowerOf2(QueueSize)
Lidar == 0 .. (NLidars - 1)
Index == 0 .. (IndexRange - 1)
Slot  == 0 .. (Size - 1)

ASSUME LidarAssumption == NLidars \in Nat \ {0} /\ MaxPackets \in Nat /\ MaxRaw \in Nat
                             /\ MaxImu \in Nat
ASSUME SizeAssumption  == QueueSize \in Nat \ {0} /\ IndexRange \in Nat
ASSUME RangeAssumption == Size \in Nat \ {0} /\ IndexRange > Size /\ IndexRange % Size = 0

VARIABLES
  sdk,               (* the SDK is initialised and delivers packets          *)
  sent,              (* packets delivered so far; they are numbered from 1   *)
  raw_packet_queue_, (* records [lidar, n]                                   *)
  is_quit_,
  points_clouds_,    (* [Lidar -> packet numbers not yet in a frame]         *)
  ppc, frame_,       (* process thread: place, entries [lidar, points] left  *)
  ring,              (* [Lidar -> storage_packet, wr_idx, rd_idx, and wr:    *)
                     (*  the process thread's own value of wr_idx]           *)
  config,            (* lidars of the user's config; never changes           *)
  indexed,           (* lidars that cache_index_ knows                       *)
  sampling,          (* lidars whose connect_state is kConnectStateSampling  *)
  count_,            (* pcd_semaphore_                                       *)
  cpc, at,           (* poll thread: place, lidar_id                         *)
  transfer_format_,
  pkg,               (* [Lidar -> the frame popped last]                     *)
  published,         (* [Lidar -> packets published, in order]               *)
  request_exit_, mpc,(* main thread                                          *)
  imu_sent,          (* IMU samples delivered so far                         *)
  imu_data,          (* [Lidar -> samples on its LidarImuDataQueue]          *)
  storing,           (* the callback in StorageImuData: place, lidar         *)
  imu_count_,        (* imu_semaphore_                                       *)
  ipc, imu_at,       (* IMU thread: place, lidar_id                          *)
  dropped,           (* history: packets whose frame found the ring full, or
                        no index                                             *)
  missed             (* history: lidars with frames no Signal stands for     *)

inVars   == <<sdk, sent, raw_packet_queue_>>
procVars == <<is_quit_, points_clouds_, ppc, frame_, dropped>>
pollVars == <<cpc, at, pkg, published>>
mainVars == <<request_exit_, mpc, transfer_format_>>
cfgVars  == <<config, indexed, sampling>>
imuVars  == <<imu_sent, imu_data, storing, imu_count_, ipc, imu_at>>
pcdVars  == <<inVars, procVars, ring, cfgVars, count_, pollVars, mainVars, missed>>
vars     == <<pcdVars, imuVars>>

\* A queue whose storage_packet is still null; wr_idx and rd_idx are 0.
NoStorage == [storage_packet |-> <<>>, wr_idx |-> 0, rd_idx |-> 0, wr |-> 0]

\* The SDK's data thread is not in StorageImuData.
NoCallback == [at |-> "idle", lidar |-> 0]

\* InitQueue
InitQueue(q) == [q EXCEPT !.storage_packet = [s \in Slot |-> <<>>]]

\* InitLdsLidar may fail: the poll thread is started all the same, but no packet
\* will ever come.
Init ==
  /\ sdk \in BOOLEAN
  /\ sent = 0
  /\ raw_packet_queue_ = <<>> /\ is_quit_ = FALSE
  /\ points_clouds_ = [l \in Lidar |-> <<>>]
  /\ ppc = (IF sdk THEN "idle" ELSE "off") /\ frame_ = <<>>
  /\ ring = [l \in Lidar |-> NoStorage]
  /\ config \in SUBSET Lidar /\ indexed = config /\ sampling = {}
  /\ count_ = 0
  /\ cpc = "loop" /\ at = 0
  /\ transfer_format_ \in Formats
  /\ pkg = [l \in Lidar |-> <<>>] /\ published = [l \in Lidar |-> <<>>]
  /\ request_exit_ = FALSE /\ mpc = "running"
  /\ imu_sent = 0 /\ imu_data = [l \in Lidar |-> 0]
  /\ storing = NoCallback /\ imu_count_ = 0
  /\ ipc = "loop" /\ imu_at = 0
  /\ dropped = {} /\ missed = {}

-----------------------------------------------------------------------------
(* ldq: indices run freely and are masked on use *)

Masked(i) == i % Size                       \* i & queue->mask
Used(wr, rd) == (wr - rd) % IndexRange      \* unsigned wr_idx - rd_idx

\* Mutant of QueueIsFull: one frame more than the ring holds.
QueueIsFullLate(q) == Used(q.wr, q.rd_idx) > Size

\* Mutant of QueueIsFull: the indices are compared as if they never wrapped.
QueueIsFullNoWrap(q) == q.wr - q.rd_idx > Size - 1

QueueIsFull(q) == Used(q.wr, q.rd_idx) > Size - 1
QueueIsEmpty(q) == q.rd_idx = q.wr_idx

\* Mutant of Next1: the increment does not wrap.
Next1NoWrap(i) == i + 1

Next1(i) == (i + 1) % IndexRange            \* uint32_t increment

\* The frames between rd_idx and w, oldest first.
FramesTo(q, w) ==
  [k \in 1 .. Used(w, q.rd_idx) |-> q.storage_packet[Masked(q.rd_idx + k - 1)]]
Contents(q) == FramesTo(q, q.wr_idx)

-----------------------------------------------------------------------------
(* SDK threads *)

\* OnLivoxLidarPointCloudCallback for point data.  The packet's time_type also
\* overwrites is_timestamp_sync_, one flag for all lidars: see RawDataProcess.
OnPointCloud(l) ==
  /\ sdk /\ storing = NoCallback
  /\ sent + imu_sent < MaxPackets
  /\ Len(raw_packet_queue_) < MaxRaw
  /\ sent' = sent + 1
  /\ raw_packet_queue_' = Append(raw_packet_queue_, [lidar |-> l, n |-> sent + 1])
  /\ UNCHANGED <<sdk, procVars, ring, cfgVars, count_, pollVars, mainVars, missed>>

\* LidarInfoChangeCallback gives a lidar that is not in the user's config an index;
\* only lidars of the config reach sampling, when their last setting is confirmed.
AddIndex(l) ==
  /\ sdk
  /\ l \notin indexed
  /\ indexed' = indexed \cup {l}
  /\ UNCHANGED <<inVars, procVars, ring, config, sampling, count_, pollVars, mainVars, missed>>

StartSampling(l) ==
  /\ sdk
  /\ l \in config \ sampling
  /\ sampling' = sampling \cup {l}
  /\ missed' = IF ring[l].wr # ring[l].rd_idx THEN missed \cup {l} ELSE missed
  /\ UNCHANGED <<inVars, procVars, ring, config, indexed, count_, pollVars, mainVars>>

-----------------------------------------------------------------------------
(* The process thread: RawDataProcess, CheckTimer, StoragePointData *)

\* Lidars of S with points, in map order, as the entries of a frame.
Cut(S, clouds) ==
  LET order == Ascending({l \in S : clouds[l] # <<>>})
  IN  [k \in DOMAIN order |-> [lidar |-> order[k], points |-> clouds[order[k]]]]

\* Locking a mutex (packet_mutex_ here, the semaphore's in Signal) waits until the
\* thread's stores are visible.
Drained == \A l \in Lidar : ring[l].wr_idx = ring[l].wr

\* The store of wr_idx becomes visible to the poll thread.
StoreVisible(l) ==
  /\ ring[l].wr_idx # ring[l].wr
  /\ ring' = [ring EXCEPT ![l].wr_idx = ring[l].wr]
  /\ UNCHANGED <<inVars, procVars, cfgVars, count_, pollVars, mainVars, missed>>

\* One packet: its points join the lidar's cloud, and CheckTimer may cut a frame,
\* of this lidar alone when is_timestamp_sync_ is set, of all lidars when it is not.
\* The clock decides whether it does, and the latest packet of any lidar what the
\* flag says.
RawDataProcess ==
  /\ ppc = "idle"
  /\ ~is_quit_
  /\ raw_packet_queue_ # <<>>
  /\ Drained
  /\ LET raw    == Head(raw_packet_queue_)
         clouds == [points_clouds_ EXCEPT ![raw.lidar] = Append(@, raw.n)]
     IN  \/ points_clouds_' = clouds /\ UNCHANGED <<frame_, ppc>>
         \/ \E taken \in {{raw.lidar}, Lidar} :
              /\ frame_' = Cut(taken, clouds)
              /\ points_clouds_' = [l \in Lidar |-> IF l \in taken THEN <<>> ELSE clouds[l]]
              /\ ppc' = "store"
  /\ raw_packet_queue_' = Tail(raw_packet_queue_)
  /\ UNCHANGED <<sdk, sent, is_quit_, ring, cfgVars, count_,
                 pollVars, mainVars, dropped, missed>>

Entry == Head(frame_)

NextEntry == frame_' = Tail(frame_)

Drop == dropped' = dropped \cup Range(Entry.points)

StoreDone ==
  /\ ppc = "store"
  /\ frame_ = <<>>
  /\ ppc' = "idle"
  /\ UNCHANGED <<inVars, is_quit_, points_clouds_, frame_, dropped, ring, cfgVars,
                 count_, pollVars, mainVars, missed>>

\* StoragePointData: an entry whose lidar has no index is skipped.
StoreUnknown ==
  /\ ppc = "store"
  /\ frame_ # <<>>
  /\ Entry.lidar \notin indexed
  /\ Drop /\ NextEntry
  /\ UNCHANGED <<inVars, is_quit_, points_clouds_, ppc, ring, cfgVars, count_,
                 pollVars, mainVars, missed>>

\* PushLidarData: allocate the ring on first use, then look at the indices.  A full
\* ring only signals.
PushCheck ==
  /\ ppc = "store"
  /\ frame_ # <<>>
  /\ LET l == Entry.lidar
         q == IF ring[l].storage_packet = <<>> THEN InitQueue(ring[l]) ELSE ring[l]
     IN  /\ l \in indexed
         /\ ring' = [ring EXCEPT ![l] = q]
         /\ IF QueueIsFull(q)
              THEN ppc' = "getcount" /\ Drop
              ELSE ppc' = "write" /\ UNCHANGED dropped
  /\ UNCHANGED <<inVars, is_quit_, points_clouds_, frame_, cfgVars, count_, pollVars,
                 mainVars, missed>>

\* QueuePushAny: fill the slot (the thread is at "write" meanwhile), then advance
\* wr_idx.
QueuePushAny ==
  /\ ppc = "write"
  /\ LET l == Entry.lidar
     IN  ring' = [ring EXCEPT ![l].storage_packet[Masked(ring[l].wr)] = Entry.points,
                              ![l].wr = Next1(@)]
  /\ ppc' = "pushed"
  /\ UNCHANGED <<inVars, is_quit_, points_clouds_, frame_, dropped, cfgVars, count_,
                 pollVars, mainVars, missed>>

\* if (!QueueIsEmpty(queue)): the frame may have been taken already.
PushedCheck ==
  /\ ppc = "pushed"
  /\ IF ring[Entry.lidar].wr = ring[Entry.lidar].rd_idx
       THEN ppc' = "store" /\ NextEntry
       ELSE ppc' = "getcount" /\ UNCHANGED frame_
  /\ UNCHANGED <<inVars, is_quit_, points_clouds_, dropped, ring, cfgVars, count_,
                 pollVars, mainVars, missed>>

\* Mutant of GetCount: GetCount() < 0.
GetCountStrict ==
  /\ ppc = "getcount"
  /\ count_ >= 0
  /\ ppc' = "store"
  /\ NextEntry
  /\ UNCHANGED <<inVars, is_quit_, points_clouds_, dropped, ring, cfgVars, count_,
                 pollVars, mainVars, missed>>

\* if (pcd_semaphore_.GetCount() <= 0): read without the mutex.
GetCount ==
  /\ ppc = "getcount"
  /\ LET l == Entry.lidar
     IN  IF count_ <= 0
           THEN ppc' = "signal" /\ UNCHANGED <<frame_, missed>>
           ELSE /\ ppc' = "store"
                /\ NextEntry
                /\ missed' = IF Drained THEN missed ELSE missed \cup {l}
  /\ UNCHANGED <<inVars, is_quit_, points_clouds_, dropped, ring, cfgVars, count_,
                 pollVars, mainVars>>

Signal ==
  /\ ppc = "signal"
  /\ Drained
  /\ count_' = count_ + 1
  /\ ppc' = "store"
  /\ NextEntry
  /\ UNCHANGED <<inVars, is_quit_, points_clouds_, dropped, ring, cfgVars, pollVars,
                 mainVars, missed>>

ProcessExit ==
  /\ ppc = "idle"
  /\ is_quit_
  /\ ppc' = "off"
  /\ UNCHANGED <<inVars, is_quit_, points_clouds_, frame_, dropped, ring, cfgVars,
                 count_, pollVars, mainVars, missed>>

-----------------------------------------------------------------------------
(* The poll thread: PointCloudDataPollThread, DistributePointCloudData *)

DistributeEnter ==
  /\ cpc = "loop"
  /\ cpc' = IF request_exit_ THEN "status" ELSE "wait"
  /\ UNCHANGED <<inVars, procVars, ring, cfgVars, count_, at, pkg, published, mainVars, missed>>

\* pcd_semaphore_.Wait(): nothing but a Signal ends it.
Wait ==
  /\ cpc = "wait"
  /\ count_ > 0
  /\ count_' = count_ - 1
  /\ at' = 0
  /\ cpc' = "poll"
  /\ UNCHANGED <<inVars, procVars, ring, cfgVars, pkg, published, mainVars, missed>>

\* PollingLidarPointCloudData's loop condition.
Pollable == at \in sampling /\ ring[at].storage_packet # <<>>
MorePolling == Pollable /\ ~request_exit_ /\ ~QueueIsEmpty(ring[at])

\* Mutant of PollNext: the round ends at the first lidar with nothing to publish.
PollNextStops ==
  /\ cpc = "poll"
  /\ ~MorePolling
  /\ cpc' = "status"
  /\ missed' = IF Pollable /\ ring[at].wr = ring[at].rd_idx THEN missed \ {at} ELSE missed
  /\ UNCHANGED <<at, inVars, procVars, ring, cfgVars, count_, pkg, published, mainVars>>

PollNext ==
  /\ cpc = "poll"
  /\ ~MorePolling
  /\ IF at + 1 \in Lidar THEN at' = at + 1 /\ UNCHANGED cpc
                         ELSE cpc' = "status" /\ UNCHANGED at
  /\ missed' = IF Pollable /\ ring[at].wr = ring[at].rd_idx THEN missed \ {at} ELSE missed
  /\ UNCHANGED <<inVars, procVars, ring, cfgVars, count_, pkg, published, mainVars>>

\* PublishPointcloud2 and PublishCustomPointcloud empty the ring.  PublishPclMsg
\* returns at once and takes nothing, so that format has no step here: the polling
\* loop spins until exit is requested.  The ring was not empty a moment ago and only
\* this thread takes from it, so the inner loop starts with a QueuePrePop.
PublishEnter ==
  /\ cpc = "poll"
  /\ MorePolling
  /\ transfer_format_ # "Pcl"
  /\ cpc' = "copy"
  /\ UNCHANGED <<inVars, procVars, ring, cfgVars, count_, at, pkg, published, mainVars, missed>>

PublishLeave ==
  /\ cpc = "publish"
  /\ QueueIsEmpty(ring[at])
  /\ cpc' = "poll"
  /\ UNCHANGED <<inVars, procVars, ring, cfgVars, count_, at, pkg, published, mainVars, missed>>

\* while (!QueueIsEmpty(queue)): QueuePrePop copies the slot (the thread is at "copy"
\* meanwhile), then rd_idx advances and the copy is published.
QueuePrePop ==
  /\ cpc = "publish"
  /\ ~QueueIsEmpty(ring[at])
  /\ cpc' = "copy"
  /\ UNCHANGED <<inVars, procVars, ring, cfgVars, count_, at, pkg, published, mainVars, missed>>

QueuePopUpdate ==
  /\ cpc = "copy"
  /\ LET q == ring[at]
     IN  /\ pkg' = [pkg EXCEPT ![at] = q.storage_packet[Masked(q.rd_idx)]]
         /\ published' = [published EXCEPT ![at] = @ \o pkg'[at]]
         /\ ring' = [ring EXCEPT ![at].rd_idx = Next1(@)]
  /\ cpc' = "publish"
  /\ UNCHANGED <<inVars, procVars, cfgVars, count_, at, mainVars, missed>>

\* Mutant of PollStatus: the exit signal is not looked at.
PollStatusIgnored ==
  /\ cpc = "status"
  /\ cpc' = "loop"
  /\ UNCHANGED <<inVars, procVars, ring, cfgVars, count_, at, pkg, published, mainVars, missed>>

\* exit_signal_.set_value() has run: both poll threads read this future.
ExitSignalled == mpc \notin {"running", "signal"}

\* while (future_.wait_for(0) == timeout)
PollStatus ==
  /\ cpc = "status"
  /\ cpc' = IF ExitSignalled THEN "off" ELSE "loop"
  /\ UNCHANGED <<inVars, procVars, ring, cfgVars, count_, at, pkg, published, mainVars, missed>>

-----------------------------------------------------------------------------
(* IMU samples, which bypass the process thread: StorageImuData in the SDK's thread, *)
(* ImuDataPollThread and DistributeImuData.  The queues have a mutex of their own,   *)
(* so a push or a pop is one step and is seen at once.                               *)

\* StorageImuData: a sample of a lidar that has no index is thrown away.
OnImuData(l) ==
  /\ sdk /\ storing = NoCallback
  /\ imu_sent < MaxImu /\ sent + imu_sent < MaxPackets
  /\ imu_sent' = imu_sent + 1
  /\ IF l \in indexed
       THEN /\ imu_data' = [imu_data EXCEPT ![l] = @ + 1]
            /\ storing' = [at |-> "look", lidar |-> l]
       ELSE UNCHANGED <<imu_data, storing>>
  /\ UNCHANGED <<imu_count_, ipc, imu_at>>

\* if (!imu_queue->Empty()) and if (GetCount() <= 0), read without the mutex.
ImuLook ==
  /\ storing.at = "look"
  /\ storing' = IF imu_data[storing.lidar] > 0 /\ imu_count_ <= 0
                  THEN [storing EXCEPT !.at = "signal"] ELSE NoCallback
  /\ UNCHANGED <<imu_sent, imu_data, imu_count_, ipc, imu_at>>

ImuSignal ==
  /\ storing.at = "signal"
  /\ imu_count_' = imu_count_ + 1
  /\ storing' = NoCallback
  /\ UNCHANGED <<imu_sent, imu_data, ipc, imu_at>>

ImuEnter ==
  /\ ipc = "loop"
  /\ ipc' = IF request_exit_ THEN "status" ELSE "wait"
  /\ UNCHANGED <<imu_sent, imu_data, storing, imu_count_, imu_at>>

\* imu_semaphore_.Wait()
ImuWait ==
  /\ ipc = "wait"
  /\ imu_count_ > 0
  /\ imu_count_' = imu_count_ - 1
  /\ ipc' = "poll"
  /\ UNCHANGED <<imu_sent, imu_data, storing, imu_at>>

\* PollingLidarImuData's loop condition, for a lidar that is sampling.
MoreImu == imu_at \in sampling /\ ~request_exit_ /\ imu_data[imu_at] > 0

\* PublishImuData
PublishImu ==
  /\ ipc = "poll" /\ MoreImu
  /\ imu_data' = [imu_data EXCEPT ![imu_at] = @ - 1]
  /\ UNCHANGED <<imu_sent, storing, imu_count_, ipc, imu_at>>

ImuNext ==
  /\ ipc = "poll" /\ ~MoreImu
  /\ IF imu_at + 1 \in Lidar THEN imu_at' = imu_at + 1 /\ UNCHANGED ipc
                             ELSE ipc' = "status" /\ imu_at' = 0
  /\ UNCHANGED <<imu_sent, imu_data, storing, imu_count_>>

ImuStatus ==
  /\ ipc = "status"
  /\ ipc' = IF ExitSignalled THEN "off" ELSE "loop"
  /\ UNCHANGED <<imu_sent, imu_data, storing, imu_count_, imu_at>>

-----------------------------------------------------------------------------
(* The main thread: ~DriverNode, then ~Lddc, then ~PubHandler *)

MainStep(from, to) ==
  /\ mpc = from /\ mpc' = to
  /\ UNCHANGED <<sent, raw_packet_queue_, points_clouds_, ppc,
                 frame_, dropped, ring, cfgVars, count_, pollVars, transfer_format_, missed>>

RequestExit ==
  /\ MainStep("running", "signal")
  /\ request_exit_' = TRUE
  /\ UNCHANGED <<sdk, is_quit_>>

ExitSignal == MainStep("signal", "join") /\ UNCHANGED <<sdk, is_quit_, request_exit_>>

\* join() of both threads, then LdsLidar::PrepareExit (LivoxLidarSdkUninit) and
\* PubHandler::Uninit.
Joined ==
  /\ cpc = "off" /\ ipc = "off"
  /\ MainStep("join", "join_process")
  /\ sdk' = FALSE
  /\ is_quit_' = TRUE
  /\ UNCHANGED request_exit_

ProcessJoined ==
  /\ ppc = "off"
  /\ MainStep("join_process", "done")
  /\ UNCHANGED <<sdk, is_quit_, request_exit_>>

-----------------------------------------------------------------------------
\* Every step leaves either the IMU samples' variables or the points' alone.
Sdk     == (\E l \in Lidar : OnPointCloud(l) \/ AddIndex(l) \/ StartSampling(l))
           /\ UNCHANGED imuVars
Process == /\ \/ RawDataProcess \/ StoreDone \/ StoreUnknown \/ PushCheck \/ QueuePushAny
              \/ PushedCheck \/ GetCount \/ Signal \/ ProcessExit
           /\ UNCHANGED imuVars
Visible == (\E l \in Lidar : StoreVisible(l)) /\ UNCHANGED imuVars
Poll    == /\ \/ DistributeEnter \/ Wait \/ PollNext \/ PublishEnter \/ PublishLeave
              \/ QueuePrePop \/ QueuePopUpdate \/ PollStatus
           /\ UNCHANGED imuVars
Exit    == (ExitSignal \/ Joined \/ ProcessJoined) /\ UNCHANGED imuVars
Main    == (RequestExit /\ UNCHANGED imuVars) \/ Exit

ImuStore == (ImuLook \/ ImuSignal) /\ UNCHANGED pcdVars
ImuPoll  == (ImuEnter \/ ImuWait \/ PublishImu \/ ImuNext \/ ImuStatus) /\ UNCHANGED pcdVars
Imu      == ((\E l \in Lidar : OnImuData(l)) /\ UNCHANGED pcdVars) \/ ImuStore \/ ImuPoll

Next == Sdk \/ Process \/ Visible \/ Poll \/ Main \/ Imu

\* The threads, a callback once entered and the destructors run on; a stored value
\* becomes visible.  No packet need arrive, no lidar need reach sampling, nobody need
\* ask for the exit.
Fairness == WF_vars(Process) /\ WF_vars(Visible) /\ WF_vars(Poll) /\ WF_vars(Exit)
            /\ WF_vars(ImuStore) /\ WF_vars(ImuPoll)

Spec == Init /\ [][Next]_vars /\ Fairness

-----------------------------------------------------------------------------
(* Properties *)

\* A frame holds packets in the order they came.
Frames == UNION {{f \in [1 .. n -> 1 .. MaxPackets] : \A i, j \in DOMAIN f : i < j => f[i] < f[j]} :
                    n \in 1 .. MaxPackets}

\* The type invariant: indices stay in range across their wrap, count_ never exceeds one
\* although GetCount() is read without the mutex, and frames keep packets in order.
TypeOK ==
  /\ sdk \in BOOLEAN /\ is_quit_ \in BOOLEAN
  /\ sent \in 0 .. MaxPackets
  /\ raw_packet_queue_ \in Seq([lidar : Lidar, n : 1 .. MaxPackets])
  /\ points_clouds_ \in [Lidar -> Frames \cup {<<>>}]
  /\ ppc \in {"off", "idle", "store", "write", "pushed", "getcount", "signal"}
  /\ frame_ \in Seq([lidar : Lidar, points : Frames])
  /\ \A l \in Lidar :
       /\ ring[l].storage_packet \in [Slot -> Frames \cup {<<>>}] \cup {<<>>}
       /\ {ring[l].wr_idx, ring[l].rd_idx, ring[l].wr} \subseteq Index
  /\ config \subseteq Lidar /\ indexed \subseteq Lidar /\ sampling \subseteq indexed
  /\ count_ \in 0 .. 1
  /\ cpc \in {"off", "loop", "wait", "poll", "publish", "copy", "status"}
  /\ at \in Lidar
  /\ pkg \in [Lidar -> Frames \cup {<<>>}]
  /\ published \in [Lidar -> Frames \cup {<<>>}]
  /\ mpc \in {"running", "signal", "join", "join_process", "done"}
  /\ imu_sent \in 0 .. MaxImu /\ imu_data \in [Lidar -> 0 .. MaxImu]
  /\ storing \in [at : {"idle", "look", "signal"}, lidar : Lidar]
  /\ imu_count_ \in 0 .. 1
  /\ ipc \in {"off", "loop", "wait", "poll", "status"} /\ imu_at \in Lidar

\* QueuePushAny never fills the slot that QueuePrePop is copying.
SlotExclusion ==
  (ppc = "write" /\ cpc = "copy" /\ Entry.lidar = at)
    => Masked(ring[at].wr) # Masked(ring[at].rd_idx)

\* The entries of lidar l that the process thread has yet to push or to drop.
Unstored(l) ==
  {m \in DOMAIN frame_ : /\ frame_[m].lidar = l
                         /\ m > 1 \/ ppc \notin {"pushed", "getcount", "signal"}}

\* Where the packets of lidar l are: published, on its ring, in a frame, in its cloud,
\* still raw.
Stages(l) ==
  <<Range(published[l]),
    UNION {Range(f) : f \in Range(FramesTo(ring[l], ring[l].wr))},
    UNION {Range(frame_[m].points) : m \in Unstored(l)},
    Range(points_clouds_[l]),
    {raw.n : raw \in {r \in Range(raw_packet_queue_) : r.lidar = l}}>>

PacketsOf(l) == UNION Range(Stages(l))

Before(S, T) == \A x \in S, y \in T : x < y
Increasing(s) == \A i, j \in DOMAIN s : i < j => s[i] < s[j]

\* Within each stage of a lidar its packets keep the order in which they came, and what
\* has come further came earlier.
InOrder(l) ==
  LET onRing == FramesTo(ring[l], ring[l].wr)
  IN  /\ Increasing(published[l]) /\ Increasing(points_clouds_[l])
      /\ \A f \in Range(onRing) : Increasing(f)
      /\ \A i, j \in DOMAIN onRing : i < j => Before(Range(onRing[i]), Range(onRing[j]))
      /\ \A m, n \in Unstored(l) : m = n /\ Increasing(frame_[m].points)
      /\ \A i, j \in DOMAIN Stages(l) : i < j => Before(Stages(l)[i], Stages(l)[j])

\* Every packet of every lidar is published, on its way, or was dropped with its
\* frame (the ring was full, or the lidar had no index); none is repeated, overtaken
\* or attributed to two lidars.
NothingLostOrReordered ==
  /\ \A l \in Lidar : InOrder(l)
  /\ Increasing([m \in DOMAIN raw_packet_queue_ |-> raw_packet_queue_[m].n])
  /\ \A k, l \in Lidar : k # l => PacketsOf(k) \cap PacketsOf(l) = {}
  /\ \A l \in Lidar : PacketsOf(l) \cap dropped = {}
  /\ (UNION {PacketsOf(l) : l \in Lidar}) \cup dropped = 1 .. sent

\* No lost wakeup: if the poll thread is blocked and the process thread is between
\* frames, then a sampling lidar's ring is empty, except for frames that were there
\* when the lidar reached sampling, or whose store the GetCount() after it overtook:
\* those wait for the next frame of any lidar.
NoLostWakeup ==
  (cpc = "wait" /\ count_ = 0 /\ ppc \in {"idle", "store", "off"})
    => \A l \in sampling \ missed : ring[l].wr = ring[l].rd_idx

\* A frame a Signal stands for is taken from the ring, unless exit is requested or
\* the format is Pcl.
FramesTaken ==
  \A l \in Lidar :
    (l \in sampling \ missed /\ ~QueueIsEmpty(ring[l]))
      ~> (QueueIsEmpty(ring[l]) \/ l \in missed \/ request_exit_ \/ transfer_format_ = "Pcl")

\* What ~DriverNode waits for when it hangs: RequestExit signals neither semaphore, so
\* a poll thread that is in Wait() stays there until data come.
Blocked    == cpc = "wait" /\ count_ = 0
ImuBlocked == ipc = "wait" /\ imu_count_ = 0

\* The destructors come to an end once exit is requested and neither of the two threads
\* they join is blocked in Wait(): data that come later may still release one.
ExitReturns == (request_exit_ /\ ~Blocked /\ ~ImuBlocked) ~> (mpc = "done")

Fifo(l) == INSTANCE BoundedFifo WITH
             Bound <- Size, Value <- Frames,
             queue <- IF ring[l].storage_packet = <<>> THEN <<>> ELSE Contents(ring[l]),
             batch <- IF pkg[l] = <<>> THEN <<>> ELSE <<pkg[l]>>

\* Each ring implements a first-in first-out queue of Size frames, for one producer
\* and one consumer, whatever the free-running indices wrap at.
RingImplementsFifo ==
  /\ \A l \in Lidar : Fifo(l)!FifoInit
  /\ [][\A l \in Lidar : [Fifo(l)!FifoNext]_(Fifo(l)!fifoVars)]_vars
=============================================================================
