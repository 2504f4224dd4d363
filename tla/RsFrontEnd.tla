----------------------------- MODULE RsFrontEnd -----------------------------
(***************************************************************************)
(* The handling side of rs_driver: packets of one lidar, in the order in   *)
(* which the handling thread takes them, through LidarDriverImpl and the   *)
(* decoder of its type to the clouds handed to the user.                   *)
(*                                                                         *)
(* s        the decoding state of RsDecoders                               *)
(* lidar    the sensor (external): its settings and where it is            *)
(* running  start_flag_ of the driver                                      *)
(* used     how much of each bound a behaviour has used                    *)
(*                                                                         *)
(* History: paced, what isNewFrame said of the last packet when a file is  *)
(* replayed; instep, whether replay and decoder have seen the same packets *)
(* of a sensor that kept turning (azimuths jump when its settings change); *)
(* steady, whether nothing has happened yet that the split by sequence     *)
(* number is known not to cope with (see Unsettles). A packet is a record: *)
(* its kind, whether its length and identifier are right, and the fields   *)
(* that its decoder reads.                                                 *)
(***************************************************************************)
EXTENDS RsDecoders, FiniteSets

CONSTANTS
  LidarTypes,       \* the types of lidar to run
  CLOUD_POINT_MAX,  \* points at which a cloud that never ends is dropped,
  SEQ_POINT_MAX,    \*   and the same for a lidar that numbers its packets
  MaxMsop,          \* MSOP packets of a mechanical lidar
  FrameLen,         \* packets in a frame of a lidar that numbers them
  MaxFrames,        \* frames of such a lidar, and a fifth of one more
  MaxLag,           \* packets that may overtake a delayed one
  MaxTrouble,       \* damaged and lost packets, changes, restarts,
  Troubled,         \*   and the same for some types that number their packets
  MaxSeqTrouble

ASSUME BoundsAssumption ==
  /\ {CLOUD_POINT_MAX, SEQ_POINT_MAX, MaxMsop, MaxFrames, MaxLag, MaxTrouble,
      MaxSeqTrouble} \subseteq Nat
  /\ FrameLen \in Nat /\ FrameLen > 2 * RANGE /\ FrameLen + RANGE < 65536
  /\ MaxLag <= RANGE

VARIABLES s, lidar, running, used, paced, instep, steady

frontVars == <<s, lidar, running, used, paced, instep, steady>>

SeqTypes == {"RSM1", "RSM1_JUMBO", "RSM2", "RSM3", "RSE1", "RSMX", "RSEMX"}
AiryTypes == {"RSAIRY", "RSFAIRY"}
MechTypes == AiryTypes \cup {"RSAIRYLITE", "RS16", "RS32", "RSBP", "RS48", "RS80", "RS128",
                             "RSP48", "RSP80", "RSP128", "RSHELIOS", "RSHELIOS_16P"}

\* The casts of the decoders stay within a packet: the length that the checks
\* of processMsopPkt, processDifopPkt and processImuPkt demand is that of the
\* structure the decoder reads, and a block iterator has room for the blocks.
\* (RSP48's and RSHELIOS's structures serve RS48 and RSHELIOS_16P too.)
Formats ==
  {<<RS16_Packets, RS16_getConstParam>>,
     <<RS32_Packets, RS32_getConstParam>>,
     <<RSBP_Packets, RSBP_getConstParam>>,
     <<RSP48_Packets, RS48_getConstParam>>,
     <<RS80_Packets, RS80_getConstParam>>,
     <<RS128_Packets, RS128_getConstParam>>,
     <<RSP48_Packets, RSP48_getConstParam>>,
     <<RSP80_Packets, RSP80_getConstParam>>,
     <<RSP128_Packets, RSP128_getConstParam>>,
     <<RSHELIOS_Packets, RSHELIOS_getConstParam>>,
     <<RSHELIOS_Packets, RSHELIOS_16P_getConstParam>>,
     <<RSAIRY_Packets, RSAIRY_getConstParam>>,
     <<RSFAIRY_Packets, RSFAIRY_getConstParam>>,
     <<RSAIRYLITE_Packets, RSAIRYLITE_getConstParam>>,
     <<RSM1_Packets, RSM1_getConstParam>>,
     <<RSM1_JUMBO_Packets, RSM1_JUMBO_getConstParam>>,
     <<RSM2_Packets, RSM2_getConstParam>>,
     <<RSM3_Packets, RSM3_getConstParam>>,
     <<RSE1_Packets, RSE1_getConstParam>>,
     <<RSMX_Packets, RSMX_getConstParam>>,
     <<RSEMX_Packets, RSEMX_getConstParam>>}
ASSUME PacketsFit ==
  \A f \in Formats :
    /\ f[1].msop = f[2].MSOP_LEN /\ f[1].difop = f[2].DIFOP_LEN /\ f[1].imu = f[2].IMU_LEN
    /\ f[2].BLOCK_DURATION # 0 => f[2].BLOCKS_PER_PKT <= MAX_BLOCKS_PER_PKT

(* ---- dispatch on the type of the lidar ---- *)
createDecoder(type, param) ==
  CASE type = "RS16"         -> DecoderRS16(param)
    [] type = "RS32"         -> DecoderMech(type, RS32_getConstParam, param)
    [] type = "RSBP"         -> DecoderMech(type, RSBP_getConstParam, param)
    [] type = "RSAIRY"       -> DecoderMech(type, RSAIRY_getConstParam, param)
    [] type = "RSAIRYLITE"   -> DecoderMech(type, RSAIRYLITE_getConstParam, param)
    [] type = "RSFAIRY"      -> DecoderMech(type, RSFAIRY_getConstParam, param)
    [] type = "RSHELIOS"     -> DecoderMech(type, RSHELIOS_getConstParam, param)
    [] type = "RSHELIOS_16P" -> DecoderRSHELIOS_16P(param)
    [] type = "RS128"        -> DecoderMech(type, RS128_getConstParam, param)
    [] type = "RS80"         -> DecoderMech(type, RS80_getConstParam, param)
    [] type = "RS48"         -> DecoderMech(type, RS48_getConstParam, param)
    [] type = "RSP128"       -> DecoderMech(type, RSP128_getConstParam, param)
    [] type = "RSP80"        -> DecoderRSP80(param)
    [] type = "RSP48"        -> DecoderMech(type, RSP48_getConstParam, param)
    [] type = "RSM1"         -> DecoderRSM1(param)
    [] type = "RSM2"         -> DecoderRSM2(param)
    [] type = "RSM3"         -> DecoderRSM3(param)
    [] type = "RSE1"         -> DecoderRSE1(param)
    [] type = "RSM1_JUMBO"   -> DecoderRSM1_Jumbo(param)
    [] type = "RSMX"         -> DecoderRSMX(param)
    [] type = "RSEMX"        -> DecoderRSEMX(param)

\* The virtual decodeDifopPkt, decodeMsopPkt and isNewFrame.
decodeDifopPkt(d, p) ==
  CASE d.type = "RS16"         -> RS16_decodeDifopPkt(d, p)
    [] d.type = "RS32"         -> RS32_decodeDifopPkt(d, p)
    [] d.type = "RSBP"         -> RSBP_decodeDifopPkt(d, p)
    [] d.type = "RSAIRY"       -> RSAIRY_decodeDifopPkt(d, p)
    [] d.type = "RSAIRYLITE"   -> RSAIRYLITE_decodeDifopPkt(d, p)
    [] d.type = "RSFAIRY"      -> RSFAIRY_decodeDifopPkt(d, p)
    [] d.type = "RSHELIOS"     -> RSHELIOS_decodeDifopPkt(d, p)
    [] d.type = "RSHELIOS_16P" -> RSHELIOS_16P_decodeDifopPkt(d, p)
    [] d.type = "RS128"        -> RS128_decodeDifopPkt(d, p)
    [] d.type = "RS80"         -> RS80_decodeDifopPkt(d, p)
    [] d.type = "RS48"         -> RS48_decodeDifopPkt(d, p)
    [] d.type = "RSP128"       -> RSP128_decodeDifopPkt(d, p)
    [] d.type = "RSP80"        -> RSP80_decodeDifopPkt(d, p)
    [] d.type = "RSP48"        -> RSP48_decodeDifopPkt(d, p)
    [] d.type = "RSM1"         -> RSM1_decodeDifopPkt(d, p)
    [] d.type = "RSM2"         -> RSM2_decodeDifopPkt(d, p)
    [] d.type = "RSM3"         -> RSM3_decodeDifopPkt(d, p)
    [] d.type = "RSE1"         -> RSE1_decodeDifopPkt(d, p)
    [] d.type = "RSM1_JUMBO"   -> RSM1_JUMBO_decodeDifopPkt(d, p)
    [] d.type = "RSMX"         -> RSMX_decodeDifopPkt(d, p)
    [] d.type = "RSEMX"        -> RSEMX_decodeDifopPkt(d, p)
decodeMsopPkt(t, p) ==
  LET type == t.d.type
  IN CASE type = "RS16"         -> RS16_decodeMsopPkt(t, p)
       [] type = "RS32"         -> RS32_decodeMsopPkt(t, p)
       [] type = "RSBP"         -> RSBP_decodeMsopPkt(t, p)
       [] type = "RSAIRY"       -> RSAIRY_decodeMsopPkt(t, p)
       [] type = "RSAIRYLITE"   -> RSAIRYLITE_decodeMsopPkt(t, p)
       [] type = "RSFAIRY"      -> RSFAIRY_decodeMsopPkt(t, p)
       [] type = "RSHELIOS"     -> RSHELIOS_decodeMsopPkt(t, p)
       [] type = "RSHELIOS_16P" -> RSHELIOS_16P_decodeMsopPkt(t, p)
       [] type = "RS128"        -> RS128_decodeMsopPkt(t, p)
       [] type = "RS80"         -> RS80_decodeMsopPkt(t, p)
       [] type = "RS48"         -> RS48_decodeMsopPkt(t, p)
       [] type = "RSP128"       -> RSP128_decodeMsopPkt(t, p)
       [] type = "RSP80"        -> RSP80_decodeMsopPkt(t, p)
       [] type = "RSP48"        -> RSP48_decodeMsopPkt(t, p)
       [] type = "RSM1"         -> RSM1_decodeMsopPkt(t, p)
       [] type = "RSM2"         -> RSM2_decodeMsopPkt(t, p)
       [] type = "RSM3"         -> RSM3_decodeMsopPkt(t, p)
       [] type = "RSE1"         -> RSE1_decodeMsopPkt(t, p)
       [] type = "RSM1_JUMBO"   -> RSM1_JUMBO_decodeMsopPkt(t, p)
       [] type = "RSMX"         -> RSMX_decodeMsopPkt(t, p)
       [] type = "RSEMX"        -> RSEMX_decodeMsopPkt(t, p)
\* isNewFrameCommon reads the packet's number where RSM1's header has it.
isNewFrameCommon(d, p) ==
  LET new == newPacket(d.pre, p.seq) IN [pre |-> new.state, new |-> new.split]
isNewFrame(d, p) ==
  CASE d.type = "RS16"         -> RS16_isNewFrame(d, p)
    [] d.type = "RS32"         -> RS32_isNewFrame(d, p)
    [] d.type = "RSBP"         -> RSBP_isNewFrame(d, p)
    [] d.type = "RSAIRY"       -> RSAIRY_isNewFrame(d, p)
    [] d.type = "RSAIRYLITE"   -> RSAIRYLITE_isNewFrame(d, p)
    [] d.type = "RSFAIRY"      -> RSFAIRY_isNewFrame(d, p)
    [] d.type = "RSHELIOS"     -> RSHELIOS_isNewFrame(d, p)
    [] d.type = "RSHELIOS_16P" -> RSHELIOS_16P_isNewFrame(d, p)
    [] d.type = "RS128"        -> RS128_isNewFrame(d, p)
    [] d.type = "RS80"         -> RS80_isNewFrame(d, p)
    [] d.type = "RS48"         -> RS48_isNewFrame(d, p)
    [] d.type = "RSP128"       -> RSP128_isNewFrame(d, p)
    [] d.type = "RSP80"        -> RSP80_isNewFrame(d, p)
    [] d.type = "RSP48"        -> RSP48_isNewFrame(d, p)
    [] OTHER                   -> isNewFrameCommon(d, p)

(* ---- Decoder and LidarDriverImpl: one packet ---- *)
pointMax(d) == IF d.type \in SeqTypes THEN SEQ_POINT_MAX ELSE CLOUD_POINT_MAX

processMsopPkt(t, p) ==
  LET u == IF t.cloud.points > pointMax(t.d) THEN [t EXCEPT !.cloud = EmptyCloud] ELSE t
  IN IF \/ u.d.param.wait_for_difop /\ ~ u.d.ready
        \/ p.len # u.d.const.MSOP_LEN
        \/ ~ p.id
     THEN [u EXCEPT !.ret = FALSE]
     ELSE decodeMsopPkt(u, p)

processDifopPkt(t, p) ==
  IF (p.len # t.d.const.DIFOP_LEN /\ t.d.type # "RSEMX") \/ ~ p.id THEN t
  ELSE [t EXCEPT !.d = decodeDifopPkt(t.d, p)]

\* putImuData hands every sample over.
processImuPkt(t, p) ==
  IF p.len # t.d.const.IMU_LEN \/ ~ p.id THEN t ELSE [t EXCEPT !.imus = @ + 1]

internalProcessPacket(t, p) ==
  CASE p.kind = "msop"  -> processMsopPkt(t, p)
    [] p.kind = "difop" -> processDifopPkt(t, p)
    [] p.kind = "imu"   -> processImuPkt(t, p)

\* A replayed file is paced by isNewFrame, before the packet is decoded (not
\* when it holds jumbo datagrams).
PacedByFrames(d) == d.param.replay /\ d.type # "RSM1_JUMBO"
preSplit(t, p) ==
  IF PacedByFrames(t.d) /\ p.kind = "msop" THEN isNewFrame(t.d, p)
  ELSE [pre |-> t.d.pre, new |-> t.ret]

(* ---- the sensor (external): mechanical lidars ---- *)
Dual(l) ==
  IF l.type \in {"RS16", "RS32", "RSBP", "RSHELIOS", "RSHELIOS_16P"} THEN l.mode = 0
  ELSE l.type # "RSAIRYLITE" /\ l.mode = 3
\* Blocks that carry one firing, and firings that share a block's duration.
PerFiring(l) ==
  CASE l.type \in {"RS16", "RSHELIOS_16P"} -> 1
    [] l.type \in AiryTypes -> (IF Dual(l) THEN 2 ELSE 1) * (IF l.model = 1 THEN 1 ELSE 2)
    [] OTHER -> IF Dual(l) THEN 2 ELSE 1
Pace(l) == IF l.type \in {"RS16", "RSHELIOS_16P"} /\ ~ Dual(l) THEN 2 ELSE 1
Duration(l) == IF l.type # "RSBP" THEN l.duration ELSE IF l.model = 4 THEN 55560 ELSE 55520
Rps(l) == l.rpm \div 60

\* The angle between two firings, and the firings of a turn.
Step(l, rps) == ((36 * rps * Duration(l) + 500000) \div 1000000) * Pace(l)
\* A narrow view lies across the angle at which frames are split, or beside it.
Fov(l) ==
  LET width == 4 * (l.blocks + 1) * Step(l, 10)
  IN CASE l.full                -> [start |-> 0, end |-> RS_ONE_ROUND]
       [] ~ l.full /\ l.mode = 0 -> [start |-> RS_ONE_ROUND - 6 * Step(l, 10),
                                    end   |-> width - 6 * Step(l, 10)]
       [] ~ l.full /\ l.mode = 3 -> [start |-> 1000, end |-> 1000 + width]
Turn(l) == fovRange(Fov(l)) \div Step(l, Rps(l))
Blind(l) == blindTime(RS_ONE_ROUND - fovRange(Fov(l)), Rps(l))

\* Block j since the settings were chosen: its azimuth and when it is fired.
Firing(l, j) == j \div PerFiring(l)
Azimuth(l, j) == (Fov(l).start + (Firing(l, j) % Turn(l)) * Step(l, Rps(l))) % RS_ONE_ROUND
FiredAt(l, j) ==
  l.t0 + Firing(l, j) * Pace(l) * Duration(l) + (Firing(l, j) \div Turn(l)) * Blind(l)

\* Whether the decoder can know the settings this packet was made with.
Known(l, d) ==
  /\ l.told
  /\ l.type \in AiryTypes => ~ d.init \/ (d.echo = "dual") = Dual(l)
  /\ l.type = "RSAIRYLITE" => l.full
Msop(l, d) ==
  LET at == [k \in 1 .. l.blocks |-> FiredAt(l, l.n + k - 1)]
  IN [kind |-> "msop", len |-> d.const.MSOP_LEN, id |-> TRUE, ts |-> at[1], host |-> at[l.blocks],
      az |-> [k \in 1 .. l.blocks |-> Azimuth(l, l.n + k - 1)], fired |-> at,
      bad |-> 0, raw |-> 100, sure |-> Known(l, d), model |-> l.model, mode |-> l.mode,
      data_type |-> 0]

\* The calibration, in the unit of the type; Unset is what an empty table holds.
Angle(type) == [sign  |-> 0,
                value |-> CASE type = "RS16" -> 150000 [] type = "RS32" -> 15000 [] OTHER -> 1500]
Unset == [sign |-> 255, value |-> 16777215]
Difop(l, d) ==
  LET angles == <<Angle(l.type), Angle(l.type)>>
  IN [kind |-> "difop", len |-> d.const.DIFOP_LEN, id |-> TRUE, mode |-> l.mode, rpm |-> l.rpm,
      fov |-> Fov(l), install |-> l.install, vert |-> angles, horiz |-> angles]
Imu(d) == [kind |-> "imu", len |-> d.const.IMU_LEN, id |-> TRUE]
\* One that is right, one of a wrong length, one of a wrong id.
ImuPackets(d) == {Imu(d), [Imu(d) EXCEPT !.len = @ - 1], [Imu(d) EXCEPT !.id = FALSE]}

(* ---- the sensor (external): lidars that number their packets ---- *)
\* Packet i since power-on: its frame and its number. A jumbo datagram stands
\* for 63 packets; its frames are three datagrams long here.
FrameOf(l, i) == i \div l.frame_len
SentAt(i) == 1000000 + 100000 * i
NumberOf(l, i) == (i % l.frame_len) + 1
\* A packet is late when one of the next frame has overtaken it; with RSM1
\* already when the one that ended its frame has.
Late(l, d, i) ==
  \/ FrameOf(l, l.newest) > FrameOf(l, i)
  \/ /\ l.type = "RSM1" /\ FrameOf(l, l.newest) = FrameOf(l, i)
     /\ l.newest > i /\ NumberOf(l, l.newest) = d.split.max
SeqMsop(l, d, i) ==
  [kind |-> "msop", len |-> d.const.MSOP_LEN, id |-> TRUE, ts |-> SentAt(i), host |-> SentAt(i + 1),
   seq |-> NumberOf(l, i), frame |-> FrameOf(l, i), late |-> Late(l, d, i),
   raw |-> 100, offset |-> 1000, mode |-> l.mode, surface |-> 0]
SeqDifop(l, d) == [kind |-> "difop", len |-> d.const.DIFOP_LEN, id |-> TRUE, mode |-> l.mode]

\* What the split by sequence number does not cope with: RANGE packets or
\* more missing in a row; with RSEMX, whose first packet has number 0, a packet
\* of the last frame after the first one of the next; with RSM1, a highest
\* number that grows in a later frame or comes late; jumbo datagrams that
\* change places, a frame of them missing, or the first of a frame missing when
\* one of the frame before was.
Unsettles(l, d, p, i) ==
  LET gap == IF l.newest < 0 THEN 1 ELSE i - l.newest
  IN CASE d.type = "RSM1_JUMBO" ->
            \/ gap < 0 \/ gap > l.frame_len
            \/ gap > 1 /\ d.split.prev # NumberOf(l, l.newest) * PACKET_NUM
       [] d.type = "RSEMX" -> gap > RANGE \/ (p.late /\ d.split.prev = 0)
       [] d.type = "RSM1" ->
            \/ gap > RANGE
            \/ d.split.looped /\ p.seq > d.split.max
            \/ d.split.looped /\ p.late /\ p.seq = d.split.max
       [] OTHER -> gap > RANGE

(* ---- configurations and initial states ---- *)
\* Four ways to run a mechanical lidar: on line, split by angle; a replayed
\* file; split by a count of blocks the user gives, with a calibration file;
\* split by the count of a turn, with an unreadable calibration file.
Config(mode, first, dense, wait, file, file_ok, clock, replay) ==
  [split_frame_mode |-> mode, split_angle |-> 0, num_blks_split |-> 5, ts_first_point |-> first,
   dense_points |-> dense, wait_for_difop |-> wait, config_from_file |-> file,
   angle_file_ok |-> file_ok, use_lidar_clock |-> clock, replay |-> replay,
   min_distance |-> 0, max_distance |-> 0]
Online == Config("angle", TRUE, FALSE, TRUE, FALSE, FALSE, TRUE, FALSE)
Replay == Config("angle", FALSE, TRUE, FALSE, FALSE, FALSE, TRUE, TRUE)
ByCount == Config("custom", TRUE, TRUE, TRUE, TRUE, TRUE, TRUE, FALSE)
ByTurn == Config("fixed", FALSE, FALSE, TRUE, TRUE, FALSE, FALSE, FALSE)

Models(type) == CASE type = "RSBP" -> {0, 4} [] type = "RSP80" -> {2, 3}
                  [] type = "RSAIRY" -> {1, 2, 3} [] type = "RSFAIRY" -> {1, 2} [] OTHER -> {0}
Speeds(type) == IF type = "RSAIRYLITE" THEN {600} ELSE {600, 1200}
\* A sensor that begins with settings m, at t0, three firings before a turn ends
\* when it sees all around.
Mech(type, const, model, mode, rpm, full, t0) ==
  LET l == [type |-> type, model |-> model, mode |-> mode, rpm |-> rpm, full |-> full,
            install |-> IF type = "RSAIRY" THEN model % 2 ELSE 255,
            blocks |-> const.BLOCKS_PER_PKT, duration |-> const.BLOCK_DURATION,
            n |-> 0, t0 |-> t0, told |-> FALSE]
  IN [l EXCEPT !.n = IF full THEN (Turn(l) - 3) * PerFiring(l) ELSE 0]
Numbered(type, mode) ==
  LET len == IF type = "RSM1_JUMBO" THEN 3 ELSE FrameLen
  IN [type |-> type, mode |-> mode, frame_len |-> len, next |-> len - (IF len = 3 THEN 1 ELSE 4),
      newest |-> -1, held |-> {}]

\* The lidar is one of its models, with settings of its own, for the driver's.
MechSensor(type, const, param) ==
  /\ type \in MechTypes
  /\ \E model \in Models(type), mode \in {0, 3}, rpm \in Speeds(type), full \in BOOLEAN :
       /\ param = ByCount => ~ full
       /\ param = ByTurn => full
       /\ lidar = Mech(type, const, model, mode, rpm, full, 100000000)
SeqSensor(type, param) ==
  /\ type \in SeqTypes /\ param \in {Online, Replay}
  /\ \E mode \in IF type = "RSMX" THEN {0, 3} ELSE {0} : lidar = Numbered(type, mode)
StateOf(d) ==
  [d |-> d, cloud |-> EmptyCloud, out |-> NoCloud, delivered |-> {}, imus |-> 0, ret |-> FALSE]
FrontInit ==
  /\ \E type \in LidarTypes, param \in {Online, Replay, ByCount, ByTurn} :
       /\ s = StateOf(createDecoder(type, param))
       /\ MechSensor(type, s.d.const, param) \/ SeqSensor(type, param)
  /\ running = TRUE
  /\ used = [packets |-> 0, trouble |-> 0]
  /\ paced = FALSE /\ instep = TRUE /\ steady = TRUE

(* ---- actions ---- *)
\* The driver takes a packet; sane says that the decoder accepts what it is.
Take(p, sane) ==
  LET pre == preSplit(s, p)
  IN /\ running
     /\ s' = internalProcessPacket([s EXCEPT !.d.pre = pre.pre], p)
     /\ paced' = IF p.kind = "msop" THEN pre.new ELSE s'.ret
     /\ instep' = (instep /\ sane)
     /\ UNCHANGED running
TroubleBound == IF lidar.type \in Troubled THEN MaxSeqTrouble ELSE MaxTrouble
Trouble ==
  /\ used.trouble < TroubleBound
  /\ used' = [used EXCEPT !.trouble = @ + 1]
Accepts(d) == d.ready \/ ~ d.param.wait_for_difop

\* Mechanical lidars: a packet of points.
Emit ==
  /\ lidar.type \in MechTypes /\ used.packets < MaxMsop
  /\ lidar' = [lidar EXCEPT !.n = @ + lidar.blocks]
  /\ UNCHANGED steady
SendMsop ==
  /\ Emit
  /\ Take(Msop(lidar, s.d), Accepts(s.d) /\ lidar.model # 3)
  /\ used' = [used EXCEPT !.packets = @ + 1]
\* A block without identifier, or nothing within range.
SendPoorMsop ==
  /\ Emit /\ Trouble
  /\ \E p \in {[Msop(lidar, s.d) EXCEPT !.bad = 1], [Msop(lidar, s.d) EXCEPT !.bad = lidar.blocks],
             [Msop(lidar, s.d) EXCEPT !.raw = 0]} : Take(p, Accepts(s.d) /\ lidar.model # 3)
SendWrongMsop ==
  /\ Emit /\ Trouble
  /\ \E p \in {[Msop(lidar, s.d) EXCEPT !.len = @ - 1], [Msop(lidar, s.d) EXCEPT !.id = FALSE]} :
       Take(p, FALSE)
\* RSAIRY, RSFAIRY: packets of the same port that hold no points.
SendNoPoints ==
  /\ lidar.type \in AiryTypes /\ Trouble
  /\ Take([Msop(lidar, s.d) EXCEPT !.data_type = 1], TRUE)
  /\ UNCHANGED <<lidar, steady>>
LoseMsop ==
  /\ Emit /\ Trouble
  /\ UNCHANGED <<s, running, paced, instep>>

SendDifop ==
  /\ lidar.type \in MechTypes
  /\ Take(Difop(lidar, s.d), TRUE)
  /\ lidar' = [lidar EXCEPT !.told = TRUE]
  /\ UNCHANGED <<used, steady>>
\* A sensor that has not measured its speed yet, an empty calibration table.
SendPoorDifop ==
  /\ lidar.type \in MechTypes /\ Trouble
  /\ LET p == Difop(lidar, s.d)
         unset == [i \in 1 .. 2 |-> Unset]
     IN \E q \in {[p EXCEPT !.rpm = 0], [p EXCEPT !.vert = unset, !.horiz = unset]} : Take(q, TRUE)
  /\ lidar' = [lidar EXCEPT !.told = FALSE]
  /\ UNCHANGED steady
SendWrongDifop ==
  /\ lidar.type \in MechTypes /\ Trouble
  /\ LET p == Difop(lidar, s.d)
     IN \E q \in {[p EXCEPT !.len = @ - 1], [p EXCEPT !.id = FALSE]} : Take(q, TRUE)
  /\ UNCHANGED <<lidar, steady>>
SendImu ==
  /\ Trouble
  /\ s.d.const.IMU_LEN > 0
  /\ \E p \in ImuPackets(s.d) : Take(p, TRUE)
  /\ UNCHANGED <<lidar, steady>>
\* The user changes the returns, the speed or the field of view.
ChangeSettings ==
  /\ lidar.type \in MechTypes /\ Trouble
  /\ \E mode \in {0, 3}, rpm \in Speeds(lidar.type), full \in BOOLEAN :
       /\ <<mode, rpm, full>> # <<lidar.mode, lidar.rpm, lidar.full>>
       /\ lidar' = Mech(lidar.type, s.d.const, lidar.model, mode, rpm, full,
                        FiredAt(lidar, lidar.n))
  /\ instep' = FALSE
  /\ UNCHANGED <<s, running, paced, steady>>

\* Lidars that number their packets.
More == lidar.type \in SeqTypes /\ lidar.next < MaxFrames * lidar.frame_len + lidar.frame_len \div 5
Arrive(p, i, l) ==
  /\ Take(p, Accepts(s.d))
  /\ lidar' = IF Accepts(s.d) /\ i > l.newest THEN [l EXCEPT !.newest = i] ELSE l
  /\ steady' = (steady /\ (Accepts(s.d) => ~ Unsettles(lidar, s.d, p, i)))
NextSeq == SeqMsop(lidar, s.d, lidar.next)
Onward(k) == [lidar EXCEPT !.next = @ + k]
SendSeq ==
  /\ More
  /\ Arrive(NextSeq, lidar.next, Onward(1))
  /\ UNCHANGED used
\* A run of packets is lost, or one is delayed.
LoseSeq ==
  /\ More /\ Trouble
  /\ \E k \in {1, RANGE - 1, RANGE} : lidar' = Onward(k)
  /\ UNCHANGED <<s, running, paced, instep, steady>>
HoldSeq ==
  /\ More /\ Trouble /\ lidar.held = {}
  /\ lidar' = [Onward(1) EXCEPT !.held = {lidar.next}]
  /\ UNCHANGED <<s, running, paced, instep, steady>>
ReleaseSeq ==
  /\ lidar.type \in SeqTypes
  /\ \E i \in lidar.held : /\ lidar.next - i <= MaxLag + 1
                           /\ Arrive(SeqMsop(lidar, s.d, i), i, [lidar EXCEPT !.held = {}])
  /\ UNCHANGED used
\* Nothing in range.
SendFarSeq ==
  /\ More /\ Trouble
  /\ Arrive([NextSeq EXCEPT !.raw = 0], lidar.next, Onward(1))
\* Wrong length or identifier; RSEMX: a surface it does not have.
SendWrongSeq ==
  /\ More /\ Trouble
  /\ \E p \in {[NextSeq EXCEPT !.len = @ - 1], [NextSeq EXCEPT !.id = FALSE],
             [NextSeq EXCEPT !.surface = EMX_SURFACE_NUM]} :
       /\ p.surface # 0 => lidar.type = "RSEMX"
       /\ Take(p, FALSE)
  /\ lidar' = Onward(1)
  /\ UNCHANGED steady
\* The settings; of the wrong length while they are waited for.
SendSeqDifop ==
  /\ lidar.type \in SeqTypes
  /\ \E wrong \in IF s.d.ready THEN {0} ELSE {0, 1} :
       Take([SeqDifop(lidar, s.d) EXCEPT !.len = @ - wrong], TRUE)
  /\ UNCHANGED <<lidar, used, steady>>

\* stop() drops the points of the frame under way and nothing else.
StopFront ==
  /\ running /\ Trouble
  /\ running' = FALSE
  /\ s' = [s EXCEPT !.cloud = EmptyCloud]
  /\ steady' = FALSE
  /\ UNCHANGED <<lidar, paced, instep>>
StartFront ==
  /\ ~ running /\ running' = TRUE
  /\ UNCHANGED <<s, lidar, used, paced, instep, steady>>

FrontNext ==
  \/ SendMsop \/ SendPoorMsop \/ SendWrongMsop \/ SendNoPoints \/ LoseMsop
  \/ SendDifop \/ SendPoorDifop \/ SendWrongDifop \/ SendImu \/ ChangeSettings
  \/ SendSeq \/ LoseSeq \/ HoldSeq \/ ReleaseSeq \/ SendFarSeq \/ SendWrongSeq
  \/ SendSeqDifop \/ StopFront \/ StartFront

FrontSpec == FrontInit /\ [][FrontNext]_frontVars

(* ---- properties ---- *)
\* Every variable has its type; a cloud's header counts no more points than
\* the cloud has, and a history never claims packets nobody decoded.
FrontTypeOK ==
  /\ s.d.type \in LidarTypes /\ s.d.type = lidar.type
  /\ s.d.echo \in {"single", "dual"} /\ s.d.ready \in BOOLEAN
  /\ {s.d.split_blks, s.d.blind, s.d.prev_point_ts, s.cloud.points, s.imus} \subseteq Nat
  /\ s.out.height * s.out.width <= s.out.points
  /\ s.cloud.frames \cup s.delivered \subseteq 0 .. MaxFrames + 1
  /\ used.packets <= MaxMsop /\ used.trouble <= TroubleBound
  /\ {running, paced, instep, steady, s.ret} \subseteq BOOLEAN

\* split_blks_per_frame_, to which a frame of fixed length is cut, is the number
\* of blocks the sensor sends in one turn, whatever its speed and its returns,
\* once a DIFOP packet has told them. RS16, RSHELIOS_16P (which update it only
\* when the returns change) and RSAIRY, RSFAIRY (only with their first packets,
\* counting two blocks of one firing as two) are known not to.
StaleCount == {"RS16", "RSHELIOS_16P"} \cup AiryTypes
FixedSplitIsOneTurn ==
  lidar.type \in MechTypes \ StaleCount /\ lidar.told =>
    LET turn == PerFiring(lidar) * (1000000000 \div (Rps(lidar) * Pace(lidar) * Duration(lidar)))
    IN s.d.split_blks - turn \in -2 * PerFiring(lidar) .. 2 * PerFiring(lidar)

\* The stamp of a cloud (cloudTs) is the time its own first or last point was
\* measured, to one firing, across packets, blind zones, lost and damaged
\* packets and changes of speed or returns, as long as the decoder knew the
\* sensor's settings and the cloud began with a split.
StampIsOwn ==
  LET near(t) == s.out.stamp - t \in -2 * s.d.const.BLOCK_DURATION .. 2 * s.d.const.BLOCK_DURATION
  IN s.out.points > 0 /\ s.out.sure /\ s.d.param.use_lidar_clock =>
       IF s.d.param.ts_first_point THEN s.out.opened => near(s.out.from) ELSE near(s.out.to)

\* The split by sequence number neither puts two frames into one cloud nor one
\* frame into two, with up to RANGE - 1 packets lost in a row and packets
\* delayed by up to RANGE others (newPacket), unless Unsettles.
FrameInOneCloud ==
  steady => /\ Cardinality(s.cloud.frames) <= 1
            /\ s.cloud.frames \cap s.delivered = {}

\* The copy of the split strategy that paces a replayed file announces a new
\* frame with exactly the packets in which the decoder begins one.
PacedBySplits ==
  PacedByFrames(s.d) /\ instep /\ steady => paced = s.ret
=============================================================================
