# Verification of the sensor drivers

TLA+ models of the concurrent and fault-handling core of this repository's three drivers:
RoboSense lidars (`rslidar_sdk` with `rs_driver`), Livox lidars (`Livox-SDK2` and
`livox_ros_driver2`) and the WTRTK-982DT GNSS receiver (`wtrtk_982dt_driver`). TLC checks
the models on small instances; TLAPS proves most of the safety properties for all values of
the constants. `PROJECT.json` lists runs, properties, mutants, theorems, findings,
hazards, and the source lines that every definition stands for.

## 1. Inventory

| Component | State | Operations | What is hard | What makes it correct |
|---|---|---|---|---|
| `SyncQueue` (rs_driver) | ring, `head_`, `tail_` | push, pop, popWait, popBatch, clear | lock-free, indices read and used later; `clear` in the producer | it is a bounded FIFO queue; no slot is shared |
| `LidarDriverImpl`, `InputSock` | two packet queues, buffers, cloud, exit flags | init, start, stop, receive, handle | overflow, null packets, restarts with packets left on the queue, joining threads | a buffer has one owner; packets decoded once and in order; a session's first cloud holds nothing of the past but what stop left on the queue; stop returns |
| Livox ROS pipeline | raw packet queue, frames, ring and IMU queue per lidar, two semaphores | SDK callback, RawDataProcess, StoragePointData, StorageImuData, two poll threads, destructors | no common lock; index wrap; `GetCount` without mutex; exit does not signal | nothing lost or reordered; no lost wakeup; destructors return |
| SDK command tracking | sequence counter, `commands_` | SendCommand (registration before the send, after it, or both), acknowledgement, time-out, Uninit/Init | wrapping numbers, late and duplicated datagrams, callbacks for the same command twice | the number of callbacks is bounded; answers belong to their command; every command is called back |
| GNSS node threads | two queues, three events, socket | serial worker, network worker, drain, stop | reconnection on both sides, full queues, socket registered during stop | no gap in the corrections; sockets closed; states shown; workers end; recovery |
| GNSS local pose | latest heading, pending positions, validity flags | receive, drain, expire, time-out, loss | two orders of arrival, delays, midnight, loss | poses in order; valid means paired and fresh; silence and loss invalidate |
| Livox configuration, detection and set-up | `custom_lidars_cfg_map_`, `channel_info_`, devices, `set_bits`, connect state | parse, check, open sockets, detect, query firmware, configure, settings callbacks | three threads, retries shared by lidars, sockets shared by configurations | data sent arrives; a lidar that samples has its settings |
| Livox upgrader | event, offset, try count | event handler, response handlers | a repeated answer advances the offset; a command may call back twice | the image is complete when it is declared so |
| Livox logger | bags, handlers, files | push, acknowledge, write, rename, cyclic deletion, stop | the writer against the deletion; two threads that rename without a lock; names of one second's resolution; crashes | files hold their own bags in order; none is lost by accident |
| rs_driver decoders and split strategies | settings from DIFOP, split state, cloud, times | decode MSOP, DIFOP, IMU; `isNewFrame` | settings change, packets lost, late or damaged, 21 types | a frame is one turn or one sequence; stamps are the cloud's own; replay is paced by the frames |
| `SourceDriver`, `SourcePacketRos`, `NodeManager`, node main | queues of clouds, exit flags | get/put cloud, process, send, record, stop | recycled objects, lost signals, shutdown | a published cloud is one whole frame |
| NMEA/HPR/NTRIP parsers, `Jumbo`, pcap, raw and epoll inputs | line and fragment buffers | feed, read | pieces of any length | not modelled, see section 8 |
| SDK I/O loop, frame parser, debug point cloud | descriptors, buffers | poll, parse, dispatch | framing | not modelled, see section 8 |

Interactions: InputSock hands packets to `LidarDriverImpl` by callback, which hands clouds to
`SourceDriver` by callback. The Livox SDK's I/O threads call `PubHandler` (points) and the
settings callbacks (commands); `livox_ros_driver2` calls the SDK's command functions. The
GNSS workers share two queues and three events and report to the ROS executor by `_emit`.
The three drivers do not interact with each other.

## 2. Modules

| Module | Models | Uses |
|---|---|---|
| `BoundedFifo` | abstract specification: a bounded FIFO queue with batched takes | |
| `SyncQueue` | `utility/sync_queue.hpp` | implements `BoundedFifo` |
| `SyncQueueProofs` | theorems about `SyncQueue` | `SyncQueue` |
| `RsDriver` | `lidar_driver_impl.hpp` with `input.hpp`, `input_sock_select.hpp` | composes `SyncQueue` (as `pkt_queue_`) |
| `RsDriverProofs` | theorems about `RsDriver` and about `RsFrontEnd` | `RsDriver`, `RsFrontEnd`, `NumberLemmas` |
| `LdsPipeline` | `pub_handler.cpp`, `lds.cpp`, `ldq.cpp`, `semaphore.cpp`, `lddc.cpp`, `driver_node.cpp` | `Ordering`; implements `BoundedFifo`, once per ring |
| `LdsPipelineProofs` | theorems about `LdsPipeline` | `LdsPipeline`, `NumberLemmas` |
| `LivoxCommand` | `general_command_handler.cpp` and the device handlers' `SendCommand`, `generate_seq.cpp` | |
| `LivoxCommandProofs` | theorems about `LivoxCommand` | `LivoxCommand`, `NumberLemmas` |
| `GnssBridge` | threads and queues of `gps_ntrip_node.py` | |
| `GnssBridgeProofs` | theorems about `GnssBridge` | `GnssBridge` |
| `GnssLocalPose` | pairing and validity in `gps_ntrip_node.py` | `Ordering` |
| `GnssLocalPoseProofs` | theorems about `GnssLocalPose` | `GnssLocalPose`, `NumberLemmas` |
| `RsLayouts` | sizes of the packet structures and constant parameters of the 21 decoders | |
| `RsSplit` | `split_strategy.hpp`, `block_iterator.hpp` | |
| `RsDecoders` | `decoder.hpp`, `decoder_mech.hpp` and `decoder_*.hpp` | `RsLayouts`, `RsSplit` |
| `RsFrontEnd` | packets of one lidar through `LidarDriverImpl` and its decoder to clouds | `RsDecoders` |
| `RsNode` | `source_driver.hpp`, `source_packet_ros.hpp`, `source_pointcloud_ros.hpp`, `node_manager.cpp`, `rslidar_sdk_node.cpp` | `Ordering` |
| `LidarConfig` | `parse_cfg_file.cpp`, `params_check.cpp`, sockets and `OnData` of `device_manager.cpp`, `build_request.cpp` | |
| `LidarSetup` | detection and set-up over `device_manager.cpp`, the command handlers, `lds_lidar.cpp`, `livox_lidar_callback.cpp` | `LidarConfig` |
| `Upgrader` | `livox_lidar_upgrader.cpp`, `firmware.cpp` | |
| `LogSession` | `logger_manager.cpp`, `logger_handler.cpp`, `file_manager.cpp` | |
| `Programs` | instance for TLC of the four programs above that share no state | `LidarSetup`, `Upgrader`, `LogSession`, `RsNode` |
| `ProgramsProofs` | theorems about these four programs | `Programs`, `NumberLemmas` |
| `Ordering` | sorted sequences and sets in order, for the modules that iterate maps | |
| `NumberLemmas` | lemmas on division, induction, ordered sets and counting | `Ordering` |

The modules take plain numbers and model values as constants, so most `.cfg` files instantiate
them directly. `Programs` is the one MC module: it gives addresses, files and settings to
`LidarSetup` and puts the independent programs side by side, each checked in its own behaviors. Variables carry the names of the fields they
stand for where TLA+ allows it (`head_`, `commands_`, `wr_idx`); places of a thread are kept
in variables such as `ppc`, `cpc`, `rpc`, `hpc`, `mpc` or named after the thread. Variables
marked *history* in the declarations record what happened and guard nothing. Operators
introduced by a comment "Mutant of X" are plausible mistakes in X used to show that the
properties notice them; no specification uses them.

**SyncQueue.** Each load and store of an index that the other thread may change is a step.
`push` loads, writes the slot, publishes `tail_`; `popBatch` reads readiness, loads `head_`,
then `tail_`, copies value by value, and advances `head_` with the index it loaded. `clear` is
two stores and belongs to the producer; it is outside `Spec` because only `RsDriver`'s
overflow calls it.

**RsDriver.** Three threads. Receiver: select, take a free buffer or allocate, receive (or a
datagram that is discarded), push, clear on overflow. Handler: popBatch, decode packet by
packet, free the buffer. Caller: init, start, stop with its two joins and the emptying of the
cloud. `stop()` does not empty `pkt_queue_`: what it leaves there is decoded after the next
start (`left`, and `begin` tells which datagrams are older). A packet is the number of its datagram; a buffer is an object with the number last
written into it, so that reuse of a buffer that is still queued is visible. `HandleNull` is
the dereference of a null packet.

**LdsPipeline.** Five threads and the memory between them: the SDK's, the process thread,
the poll threads of clouds and of IMU samples, and the one that destroys, which joins both poll
threads. The SDK's thread puts an IMU sample on its lidar's queue itself (`StorageImuData`,
with its moment between the queue and the signal). Memory is that of x86-64: the
ring's `wr_idx` has the value the process thread stored (`wr`) and the value the poll thread
sees (`wr_idx`); `StoreVisible` equalises them, and a locked operation waits for it. Frames are cut
nondeterministically (per lidar with time synchronisation, all lidars without) because the
timing of packets is the environment's. `missed` names the lidars with frames no Signal
stands for.

**LivoxCommand.** `SendBegin` draws a number and registers, as the HAP's handler and every
`SendCommand` with a port does; `SendUnregistered` is the general path of a Mid-360, which
sends first, so that an early acknowledgement finds nothing. `SendTo` or `SendToFailed` sends;
`SendAgain` is the registration by `GeneralCommandHandler::SendCommand` after it, the second
one of a HAP. `OnAck` may
happen any number of times for any request that has left, so loss, delay, duplication and
reordering are all there. `Destory` leaves `commands_` alone, as the code does (the block that
seems to clear it declares locals). The source's spelling is kept.

**GnssBridge.** `_emit` is three steps (put, drop the oldest, put again), since two threads
run it against the executor. The worker loops follow `_serial_worker`, `_network_worker`,
`_run_ntrip_session` statement by statement where another thread can come in between. A
disturbance may strike at every place the code handles one. A chunk is its connection and its
place in that connection's stream.

**GnssLocalPose.** Ages instead of clocks, cut off above the limits they are compared with.
UTC fields are numbers modulo `Day`, `Blank` is a field that is no time. A tick drains events,
then expires positions, then checks the heading's age; `Stall` lets time pass in the middle of
a tick.

**RsDecoders, RsFrontEnd.** A decoding state is a record; the operators follow the decoders'
methods (`decodeMsopPkt`, `decodeDifopPkt`, `newBlock`, `newPoint`, `cloudTs`, `isNewFrame`) and
the types differ by the tables of `RsLayouts` and by the operators a type overrides. Points are
counted, their coordinates left out; times are whole nanoseconds, azimuths hundredths
of a degree, both with the widths the code gives them. The environment is a lidar with a speed,
returns and a field of view, which may change them at any time; packets arrive damaged, of the
wrong length, without points, not at all, or (for those with sequence numbers) late. `fired`,
`frames` and `sure` are history: when a block was fired, and what a cloud is made of. The
assumption `PacketsFit` compares the length every decoder checks for with the size
of the structure it casts to.

**RsNode.** Receiver, handling thread, publishing thread, the thread that spins a
subscription, and main. A cloud is an object with the points last put into it, so that one
freed too early would show another frame's points. `WaitEnds` ends at a signal or at
a spurious wake-up; a signal before `Wait` is lost. A driver that cannot be set up ends the process
(`InitFails`). `is_frame_begin` is the split before the packet, so the first packet of a
run never has it. Recording (`sendPacket`) and messages by
rows or dense are configurations.

**LidarConfig, LidarSetup.** A file is a function from the names of its members; parsing keeps
which member wins when a lidar is listed twice, what is refused and what the checks overwrite.
`channel_info_` maps an address and a port to what its socket is bound to. Three threads act:
main, detection, commands; the driver's notification of a new lidar is one step per command
it sends, holding `config_mutex_` as the code does, since answers to the first commands come in
meanwhile. Answers are lost, refused, late or repeated (`TimedOut` with `done`).

**Upgrader.** `upgrade_event_table` is the table of the code. A request in flight is an element
of a bag; an answer may find it accepted, busy, refused or timed out, before or after the
lidar carried it out. A failed send calls back at once and leaves the command registered. A HAP's
command is registered before the send and after it; what happens in between (`between`: the time-out, and
the answer if another thread than `cmd_io_thread` sent it) calls back once and the second registration
once more. `doubled` says that a command called back twice. The handlers of two such chains are atomic, and a
datagram is answered at most once.

**LogSession.** The lidar pushes bags; `Handler` acknowledges and queues them, `TakeQueue`
swaps the queue, `Write` treats one bag; `CycleDelete` removes the oldest complete
files. `ChangeCurrentFileName` in the writer and each turn of the loop of `ChangeHiddenFiles` in
`Destory` are their calls: `access`, `remove` if the name is taken, `rename` (`AccessShown`, `RemoveShown`,
`RenameFile`), in any order of the two, since a Create that comes while the SDK is closing makes a
new handler with a writer of its own. `Die` ends the process anywhere, `Start` comes back to the files on disk. `numbering`
covers both readings of the bag index (per file, or through all files), which the
code leaves open.

## 3. Runs

| Run | Instance | Distinct states | Shows |
|---|---|---|---|
| `sync_queue` | 4 slots, batch 2, 2 values | 36 thousand | `IInv`, `SlotExclusion`, `NeverUnfilled`, `ImplementsFifo` |
| `rs_driver` | 3 slots, batch 2, 4 datagrams, 2 sessions | 590 thousand | `TypeOK`, `DecodedOnceUnlessRaced`, `FreshCloud`, `StopReturns` |
| `rs_overflow` | same, 1 session | violation | `OneOwner` fails: finding 1 |
| `lds_ring` | 1 lidar, ring of 2, indices modulo 4, 5 packets, both formats | 496 thousand | `TypeOK`, `SlotExclusion`, `RingImplementsFifo` |
| `lds_wakeup` | 2 lidars, ring of 1, 2 packets of which one may be an IMU sample, PointCloud2 | 361 thousand | `NothingLostOrReordered`, `NoLostWakeup`, `FramesTaken`, `ExitReturns` |
| `livox_command` | 3 commands, numbers 1..2, 2 sessions | 111 thousand | `IInv`, `CallbackBound`, `OwnAnswer`, `CalledBack` |
| `gnss_bridge` | queues of 1, 2 disturbances, 3 chunks | 2.6 million | `TypeOK`, `CorrectionsIntact`, `SocketClosed` |
| `gnss_bridge_live` | queues of 1, 1 disturbance, 1 chunk | 157 thousand | `StateShown`, `WorkersEnd`, `Recovers` |
| `gnss_pose` | 3 sentences, 1 loss, times on both sides of midnight | 3.7 million | `TypeOK`, `PosesInOrder`, `PairedWhenValid`, `OutageInvalidates` |
| `rs_frontend` | 21 types; 3 MSOP packets of a mechanical lidar, or 2 frames of 21 packets of one that numbers them | 0.8 million | `FrontTypeOK`, `FixedSplitIsOneTurn`, `StampIsOwn`, `FrameInOneCloud`, `PacedBySplits` |
| `programs` | see below | 2.0 million | `TypeOK`, `SettingsAgreed`, `DataReachable`, `ImageComplete`, `LogIntact`, `CloudsPublished` |
| `gnss_fresh` | same as `gnss_pose` | violation | `FreshAttitude` fails: finding 2 |

Runs switch the deadlock check off where the bound on inputs, or a completed stop, really ends
the behaviour; `sync_queue` checks it.

### Bounds and why they are enough

* Queues are taken as small as they can be while still holding a full, an empty and (for
  SyncQueue) a wrapped batch: capacity 4 holds three values, so a batch of two can wrap and leave
  one behind. `RsDriver` has 3 slots and 4 datagrams, the least with which a queue overflows,
  is cleared and is filled again while an old batch is decoded.
* `IndexRange` 4 with a ring of 2 makes the free-running indices wrap within 5 packets. The
  code's 2^32 is a multiple of every ring size as well, which is `RangeAssumption`.
* `SeqMax` 2 with 3 commands is one whole round of numbers: the third command takes the number
  of the first. The code has 65535; the theorems hold for every `SeqMax`.
* Two lidars are needed for one semaphore to stand for several rings. `MaxImu` bounds the IMU samples: one is enough
  for its thread to pass its semaphore and block there again; `lds_ring`, about one ring, has none.
  `Formats` keeps the PCL format, which never pops, to `lds_ring`.
* Queues of one element in `GnssBridge` make every put meet a full queue in some behaviour;
  two disturbances let the port and the caster fail in either order, three chunks let a gap
  show between two that arrive.
* In `GnssLocalPose` three sentences are the least with two positions and a heading between
  them in every order; times 0, 2, 3 of a day of 4 lie on both sides of midnight within
  and outside the tolerance of 1.
* `rs_frontend` runs each type from its first packet. Three mechanical packets are the least with
  a change of settings between two and a split in the third; `CLOUD_POINT_MAX` is lowered so
  that a cloud that never ends is dropped within them. Frames of 21 packets (`FrameLen > 2 * RANGE`)
  and a lag up to 10 let a packet be late by the whole safe range, across the end of a frame.
  A second disturbance (`MaxSeqTrouble`) lets a loss meet a delay, for the types with a split of their own
  (RSM1, the jumbo) and one (RSM2) of those that share `newPacket` as it is.
* `programs`, driver: one lidar of each family, three files that work (old format, new format with a group
  and odd lidar ports, two groups on the same sockets), seven others (slave, a lidar of the wrong type,
  refused ones), two sets of settings, of which one has a value beyond 8 bits; every lidar starts as
  application or loader; one request lost or refused, one retry of the firmware query.
* `programs`, upgrade: a firmware of 5 in blocks of 2 has a short last block; 3 faults reach the
  limit of 3 tries and leave a send that fails, or a command that calls back twice and two more (`MaxFaults` counts
  these as well).
* `programs`, logging: 2 files of 3 bags (create, data, end), a directory of 3 bags, so that the first file
  must go while the second is written; 2 starts, 2 moments of the clock. Both renames are under way
  at once in some behaviours, of the same file and of different ones.
* `programs`, node: 4 frames of 2 packets of 2 channels, one place for clouds, two for packets: a full
  queue, recycling and a lost packet in every combination, with each source of packets. The sources of
  one node share only main's loops, so one source is enough.

### Fairness

* `RsDriver`: both threads keep running, select returns within a second; nobody need call
  stop and no datagram need arrive.
* `LdsPipeline`: process thread, both poll threads and destructors run on, a callback in `StorageImuData`
  finishes, stores become visible. No packet, no step to sampling and no exit is promised.
* `LivoxCommand`: a sender finishes its call; the timer, every 50 ms, finds expired deadlines.
  No acknowledgement is promised.
* `GnssBridge`: the two workers, an `_emit` in progress, the executor and the closing half of
  stop run on. `Recovers` in addition supposes that a receiver whose port is read keeps sending
  positions (`PositionsKeepComing`): the code waits for one before it connects.
* `SyncQueue`, `GnssLocalPose`, `RsFrontEnd` and `Programs` have no fairness; their properties are
  safety properties.

All fairness is weak fairness of a thread's steps: what an operating system's scheduler gives
a runnable thread.

### What some results say in detail

* `NoLostWakeup` has two exceptions the code really has: frames stored before the lidar reached
  sampling, and a frame whose store was overtaken by the `GetCount()` that follows it. Both
  wait for the next frame of any lidar.
* `ExitReturns` holds up to `Blocked` and `ImuBlocked`: `RequestExit` signals neither semaphore, so a poll
  thread already in `Wait()` is released only by a frame, or by an IMU sample. With a lidar that sends no
  IMU data `~DriverNode` does not return.
* `FreshCloud`: a cloud holds what was decoded since the last start, and of the datagrams received before it only
  those that `stop()` left on `pkt_queue_` (the second part until a clear meets a popBatch). So the first cloud after
  a restart may begin with points of the session before.
* `FramesTaken` leaves out the PCL format, in which the poll loop never pops.
* `CallbackBound` is the exact bound: one callback, one more if the second registration came
  after the first was answered or had timed out, one more if `sendto` failed. A Mid-360's command has no
  first registration; an acknowledgement ahead of its only one is ignored and the command times out.
* `OwnAnswer` allows answers of commands whole rounds of numbers away, and `CalledBack` allows a
  command whose entry such a command took over: the 16-bit number permits no more.
* `CorrectionsIntact`: no gap within one connection and one opening of the port; but one chunk,
  not none, can survive a lost port, because the network worker may hold one between its
  check of `_serial_ready` and its put.
* `StateShown` excepts states whose event was dropped from the full queue.
* `StopReturns` excepts behaviours in which a clear overlapped a popBatch: the handling thread
  may then dereference null.
* `FixedSplitIsOneTurn` leaves out RS16 and RSHELIOS_16P, which update the number of blocks only when the
  returns change, and RSAIRY and RSFAIRY, which do so only with their first packets and count two blocks of one
  firing as two.
* `StampIsOwn` claims the stamp of the first point only for clouds that began with a split, and nothing before the
  decoder has learnt the sensor's settings.
* `FrameInOneCloud` holds while `steady`: losses of `RANGE` packets or more early in a frame join two
  frames; a late packet number 0 of RSEMX and a late last packet of RSM1, whose frame length grows
  with the numbers seen, cut one.
* `PacedBySplits` holds while replay and decoder have seen the same packets and no azimuth jumped: a jump when
  the speed changes may split one of the two copies only. So may, with a mechanical lidar, the loss of nearly a whole turn right after a split (see section 5).
* `SettingsAgreed` excepts values beyond 8 bits: `blind_spot_set` is cast to `int8_t`, so 200 is sent as a huge
  number and 255 means "unset", as does a configured -1, which is never sent. A setting the lidar refused counts as done.
* `DataReachable` excepts what the file itself breaks (see `SharesGroup`) and a HAP listed with ports it does
  not send from: the request names the standard ports and `OnData` compares with the file's.
* `ImageComplete` excepts `doubled`: once a command has called back twice, after a failed send or, with a HAP, around
  its second registration, two chains of callbacks run, and the second one's acknowledgement advances the offset past
  a block that is then never sent. The lidar's own checksum refuses the image.
* `LogIntact` excepts complete files that were deleted, replaced by one of the same name, or removed by the second of
  two renames of one file while the SDK closes: each finds the name without the dot taken by what the other renamed.
* `CloudsPublished` lets the first packet of a recording be unmarked: no split strategy splits before it.

## 4. Findings

1. `rs_overflow`: on overflow the receiving thread clears the queue while the handling thread
   may be inside popBatch. Its later store of `head_` brings discarded packets back, and
   one buffer is stuffed and decoded at the same time. The documentation says the queue protects
   accesses by several threads and that packets are discarded.
2. `gnss_fresh`: a heading that waited in the event queue longer than the time-out is published
   with `data_valid = true`; the README of the driver says that freshness is part of
   `data_valid`.

## 5. Proofs

**SyncQueueProofs**, for every `Capacity >= 2`, every `MaxCount >= 1` and every set of values
(`CapacityAssumption`, `MaxCountAssumption`, `NoValueAssumption`):

* `Invariance`: `Spec => []IInv`. `SlotExclusion` is not inductive: it needs to know that the
  index a thread loaded is still the ring's, that the room the producer saw is still there, and
  that the count the consumer computed does not exceed what is filled. `InFlight` says this for
  every place of the two threads. The argument is that each side only moves its own index
  forward, so what the other side checked can only become more true (`RoomStays`,
  `PublishGrows`, `TakeShrinks`).
* `TypeCorrect`, `NoSlotRace` (`SlotExclusion`), `OnlyPushedValues` (`NeverUnfilled`) follow.
* `Refinement`: `Spec => ImplementsFifo`. Only the publication of `tail_` and the advance of
  `head_` change the contents; the first is `Put`, the second `Take(n)`.

**RsDriverProofs**, for every ring capacity of two and more, every batch size, any number of datagrams
and sessions (`DriverAssumption`; there are as many buffers as datagrams and sessions, which `Supply` shows to be enough):

* `TypeCorrect`: `TypeOK`, which claims that indices are in range and that the free queue never holds the null
  pointer a raced popBatch may return, needs `Control` (which places of the three threads go together) and `Supply`: counting the
  buffers in use shows that one is left to allocate whenever the receiver needs one.
* `NoStalePoints` (`FreshCloud`): by `Session`, a cloud has no point while no session runs, so
  the first one of a session begins empty; by `Origins`, whatever reaches it was on `pkt_queue_` at the last
  start or was received after it.
* `DecodedInOrder` (`DecodedOnceUnlessRaced`): by `Whole`, until a clear() meets a popBatch. It joins
  `RingIntact`, the `InFlight` of `SyncQueue` with a third party that clears (the ring's steps are
  cited from `SyncQueueProofs`), and `Flow`: no buffer is at two places of its way (`Apart`), and
  datagram numbers grow along it (`InOrder`). A step is first shown to be one of seven moves of buffers.

The second part is about `RsFrontEnd`, for all 21 types of lidars, every configuration of the driver in
`FrontInit`, every number of packets and disturbances and every length of a frame with
`2 * RANGE < FrameLen < 65536 - RANGE` (`BoundsAssumption`: the number has 16 bits, and a frame must be longer than what
counts as late on both sides) and the sizes of the structures (`PacketsFit`). The inductive invariant is `FrontInv`, that is
`Counters`, `Flags` and one of two:

* `MechInv`, of a mechanical lidar: sensor, decoder and cloud are typed (`MechState`), and once a DIFOP packet has told the
  settings `split_blks_` is what they give (`ToldCount`).
* `SeqInv`, of one that numbers its packets: all is typed (`SeqState`), and while `steady` the split remembers the newest packet
  (`Tracks`) and the cloud holds points of its frame only, none of which was handed over (`FramesApart`; RSM1 ends a frame
  with the highest number it has seen, which is `Ended`).

What it yields:

* `FrontTyped` (`FrontTypeOK`): a packet is followed through every decoder. The loops over the blocks of a packet are recursive functions,
  of which a packet's number of blocks is known, so induction over it is induction over a set of numbers. That a header counts no more points than there
  are rests on `LASER_NUM` being positive in each of the 21 tables.
* `OneTurn` (`FixedSplitIsOneTurn`): by `ToldCount`. The turn of the sensor and the count of the decoder are two
  divisions of the same numbers, one rounded; `CountsOneTurn` bounds how far apart they come for every duration a type may have.
* `OneCloud` (`FrameInOneCloud`): `SeqAnswers` says what `newPacket` answers to any packet within `RANGE` of the newest one, wherever the two lie in
  their frames: a split exactly when the packet opens a later frame, and the newest number kept when it is late. `FramesApart` alone is
  not inductive, since that answer depends on what the split remembers (`Tracks`). Jumbo datagrams, frames of three with `PACKET_NUM` packets each,
  are their own case (`JumboNearby`).
* `SplitsInPace` (`PacedBySplits`, of lidars that number their packets): by `PaceInv`, which adds to `SeqInv` that the copy of the split that paces a replay has
  the same newest packet. RSEMX's decoder counts from 0 and `isNewFrameCommon` from 1: the same `SeqAnswers` for both
  offsets gives the same answer (`SameAnswer`), though the remembered numbers differ.

**LdsPipelineProofs**, for any number of lidars, every ring size and every width of the indices that is a
multiple of it (`LidarAssumption`, `SizeAssumption`, `RangeAssumption`):

* `TypeCorrect`: by `IInv`, of `Shape`, `Room`, `Strong` and `Chain`.
* `SlotsExclusive` (`SlotExclusion`): by `Room`, a producer at its write still has a free slot and a consumer
  at its copy still a full one, whichever value of `wr_idx` the poll thread sees; two places in
  the ring whose distance is less than its size are different slots (`FreeSlot`), also across the wrap.
* `WakeupsKept` (`NoLostWakeup`): by `Wake`, a frame on the ring of a sampling lidar that is not `missed` is `Awaited`:
  the semaphore is up, the poll thread is on its way to that lidar, an exit is under way, or the process thread
  has not decided yet whether to signal.
* `PacketsKept` (`NothingLostOrReordered`): `Chain` orders the packets of a lidar along their stages, `Account`
  says that stages and drops together have every packet once.
* `RingsAreFifos` (`RingImplementsFifo`): `Put` is the store that becomes visible, `Take(1)` the advance of
  `rd_idx`, every other step a stutter. It needs `Lags`: the poll thread is at most one store behind.

**LivoxCommandProofs**, for every number of commands, every `SeqMax >= 1` and every number of
sessions (`CommandAssumption`):

* `Invariance`: `Spec => []IInv`. `CallbackBound` is not inductive since it does not say
  that a registered command still has a callback to come; `CallsToCome` counts a
  registration as one. `OwnAnswer` needs `NumberedInTurn` (the k-th command drew number
  `k % SeqMax + 1`) and `OwnEntry` (a command is registered under its own number); `SameRemainder`
  then turns equal numbers into a distance of whole rounds.
* `CallbacksBounded` and `OwnAnswers` follow, whether a command was registered before its send, after it, or both.

**GnssBridgeProofs**, for queues of any capacity and any number of disturbances and chunks
(`BridgeAssumption`):

* `SocketsClosed` (`SocketClosed`): by `SocketOwned`, nothing is registered before the register step,
  and from it to the close an open socket is; so `stop()` may close it at any place of the session or miss it, and
  the session's own close still finds it.
* `TypeCorrect`: with `EventsTyped`, since a thread in the middle of `_emit` must still hold its event.
* `CorrectionsInOrder` (`CorrectionsIntact`): `StreamIntact` reads the last chunk written, the queue and the
  chunk about to be put as one stream whose neighbours follow each other, and counts what can still
  come while the port is gone (`Backlog`).

**GnssLocalPoseProofs**, for all limits, lengths of the day, numbers of sentences and losses
(`PoseAssumption`):

* `TypeCorrect`, `PublishedInOrder` (`PosesInOrder`) and `PairsMatch` (`PairedWhenValid`) by `WInv`, that is `Shape`, `InOrder` and
  `Paired`. Positions are in order along published, pending, event queue; and pending
  positions are sorted by age, for only then does expiring the old ones keep the order.
* `OutageRevokes` (`OutageInvalidates`): by `Revoked`, the event of a lost port is behind all others,
  so whatever was queued before it is worked off first.

**ProgramsProofs**, for each of the four programs of `Programs` and all values of its constants:

* `Upgrader` (`UpgraderAssumption`): `InRange`, and `CompleteImage` (`ImageComplete`). By `OneFlow`, while no command has
  called back twice, exactly one command is registered, it is the one the state waits for, and the lidar has every block
  below `read_offset_`. `UpgradeBounded` proves the bound on the offset that the model states for doubled chains as well: each failed send
  and each doubly registered command adds one to those that can move it (`OffsetNear`), and counts as a fault.
* `LogSession` (`LogAssumption`): `FilesIntact` (`LogIntact`) and `LogBounded`. By `Sound`, files have different names, each has its own
  bags in order, and every bag taken from the queue is in one of them, in `gone`, or only ends a file; `OpenIntact` says that deletion, which goes by names,
  leaves the open file alone, and `Renaming` that neither rename removes or replaces it: a rename is of a hidden file, the
  writer's of one it has closed, and an open file `ChangeHiddenFiles` has shown has no hidden file of its name beside it.
* `RsNode` (`NodeAssumption`): `FramesPublished` (`CloudsPublished`) and `NodeBounded`. `NodeInv` holds of each source: packets are handled in order, and the first of
  each frame but the very first packet is marked (`PacketFlow`); an object is in one pair of hands (`Owned`: the decoder's, on its way out, on its way back), which is
  why recycling cannot change a cloud that waits; each cloud on its way (`Waits`) and each message (`Outgone`) is all of
  one frame that is over, in order (`InTurn`); the decoder's has all of the present one (`Filling`). That rows are columns
  turned round is a bijection of places.
* `LidarSetup` (`SetupAssumption`): `SettingsKept` (`SettingsAgreed`) and `SetupBounded`, for any lidars, files and
  settings. `SettingsAgreed` speaks of lidars that sample only; `Promised` says of any request under way that every other
  setting of its lidar has its bit in `set_bits`, is settled, or is yet to be sent by the thread that holds `config_mutex_`
  (`Complete`), so the answer that clears the last bit leaves all of them settled (`AllSettled`).
* `Programs`: a behavior of `Programs` is one of each program (`EachProgram`), so `TypeCorrect` follows from the four, and the other
  theorems hold of what the run `programs` checks.

**NumberLemmas** holds what the proofs share: division by a number the provers do not know, induction over
numbers as a statement on sets (the library's takes an operator), sets of numbers in ascending order,
and counting. `Ordering` defines the order without recursion so that proofs can use it.

Only model-checked:

* Liveness, in `rs_driver`, `lds_wakeup`, `livox_command` and `gnss_bridge_live`: fairness and ENABLED are outside
  what the proof system treats.
* `DataReachable` of `LidarSetup`: it depends on which sockets the folds over a file's configurations open, hence on
  induction over the list, which needs an induction theorem with an operator parameter. The other properties of `LidarSetup` are
  proved for every configuration such a file could have left.
* `StampIsOwn` of `RsFrontEnd`: the time of a block is a chain of roundings (a firing's angle, the blind zone, a turn's share) over what the sensor
  did since its last change of settings; the provers do not find such mixed integer divisions, and the errors add up per packet, not per step.
* `PacedBySplits` of mechanical lidars. It is not true for arbitrarily long behaviours: `isNewFrame` stops at the block that splits while the decoder goes on to the
  last one, so the two remember different azimuths, and a loss of nearly a whole turn right after a split is seen by one of them only. Within the
  run's three packets, as with one that is lost, they agree.
* That the constants' assumptions can be met: TLC evaluates them in every run.

## 6. Hazards

`PROJECT.json` lists them with the line at which each bites and the properties that would
notice. Those without a property are what the code does where no document promises more
(a node that misses its signal, a writer that spins, a lidar that never samples), or belong to an input
that is not modelled. Other consequences of the code that the models show or that came up while reading:

* Configuration: a slave's driver is never told of its lidars, so it publishes nothing. A second
  configuration on the same host address and port never joins its own multicast group; with a group, the
  push messages of a Mid-360 go to the group while the socket is bound to the host. `IpToU8` accepts 256.
  A notification before `SetLivoxLidarInfoChangeCallback` is lost for good.
* Driver: packets that `stop()` leaves queued go into the next session's first cloud.
* Pipeline: `~DriverNode` joins the IMU thread, which nobody wakes when no IMU data come.
* Commands: a Mid-360's acknowledgement that is faster than the registration after the send is ignored.
* Set-up: the firmware query's retries are shared by all lidars; HAP's refusals are reported as success and
  never retried; the retry branch of the IMU setting is dead.
* Upgrader: a HAP's command that calls back twice starts a second chain of blocks without any failed send. The destructor returns at once in state Idle, also before the start; requests still in flight then call
  an object that is gone. A truncated file is opened and sent.
* Logger: a bag with an older index is skipped without being popped, the writer spins and `Destory` waits for it; with
  per-file numbering one lost Create is enough. Two Creates in one second leave one file. Bags acknowledged
  but still queued are lost at `Destory`. A repeated End closes the next file, whose bags then are lost. A Create during
  `Destory` makes a second writer, and its rename and that of `ChangeHiddenFiles` may remove the complete file. A second `Destory` in one process does nothing.
* Node: clouds queued at `stop()` are never sent and the exit flag is never reset; the thread of a packet
  subscription is never joined; a full queue drops the new cloud silently.

## 7. Plan

In the order of importance:

1. `StampIsOwn` for all settings: bounds on the block iterators' times for every azimuth, and a relation between the
   sensor's firing times and the decoder's that survives a change of settings.
2. Liveness of `Upgrader` (it comes to an end with a lidar that answers) and of `LogSession` (a stop returns
   unless the writer spins), in runs of their own.
3. The remaining state kept between calls: `Jumbo`'s fragments, the NMEA line buffer, the NTRIP response
   parser and the SDK's frame parser, each against a reference definition.
4. The debug point cloud.

## 8. Not modelled, and why

* Point geometry (coordinates, projections, extrinsics), intensities and temperatures: floating-point
  arithmetic. Builds of rs_driver with options that are off by default (DIFOP parsing of device information,
  transformation, CRC, IMU parsing beyond counting).
* The byte layouts of the SDK's frames and of the state information, and the commands that only query.
* The parsers of NMEA, HPR and NTRIP, `Jumbo`, pcap, raw and epoll inputs.
* The SDK's I/O loop; its effect is the environment's freedom (any order, any moment). The debug point cloud,
  view mode and observers.
* In `RsDriver`: DIFOP and IMU packets (`RsFrontEnd` has them), packet callbacks (`RsNode` has them); and it takes
  one free buffer at a time where `recvmmsg` fills a pool of 16 taken together: pushes have the same order and
  contents, only the moment at which free buffers are taken differs. In `LidarSetup`: a failed send, a lidar that restarts or changes its mode, and the unlocked
  reads of the map of configurations by two threads. In `Upgrader`: duplicated answers, and two handlers inside each other. In `LogSession`: a
  restart within one process. In `RsNode`:
  ROS 1, the IMU branch, `rclcpp`'s own shutdown; its packet queue is atomic since `SyncQueue` and `RsDriver` treat it.
  In `GnssBridge`: a socket that cannot be created, disabled NTRIP, and
  the periodic requests to the receiver. In `GnssLocalPose`: diagnostics, and overflow of
  the event queue (which `GnssBridge` has).
* `3rdparty`, samples, demos, tools, launch files and message definitions.
