----------------------------- MODULE RsDecoders -----------------------------
(***************************************************************************)
(* The decoders of rs_driver (driver/decoder/), in the default build:      *)
(* ENABLE_DIFOP_PARSE, ENABLE_TRANSFORM and ENABLE_CRC32_CHECK off.        *)
(*                                                                         *)
(* A decoding state s holds the decoder s.d, the cloud that grows s.cloud, *)
(* the last cloud handed over s.out and what the last packet returned      *)
(* s.ret. Every operator maps a state to the state the code leaves.        *)
(* Abstracted: the coordinates of points (only their number is kept), the  *)
(* errors reported to the log, temperatures.                               *)
(*                                                                         *)
(* The fields fired (the times the blocks were really fired) and sure of a *)
(* packet and the fields from, to, opened, sure and frames of a cloud are  *)
(* history: the code neither reads nor keeps them.                         *)
(***************************************************************************)
EXTENDS RsLayouts, RsSplit, SequencesExt

(* ---- clouds ---- *)
EmptyCloud == [points |-> 0, from |-> 0, to |-> 0, opened |-> FALSE, sure |-> TRUE,
               frames |-> {}]
\* A cloud with the header that is filled in before it is handed over.
withHeader(cloud, ts, height, width) ==
  [points |-> cloud.points, from |-> cloud.from, to |-> cloud.to, opened |-> cloud.opened,
   sure |-> cloud.sure, frames |-> cloud.frames, stamp |-> ts, height |-> height, width |-> width]
NoCloud == withHeader(EmptyCloud, 0, 1, 0)

cloudTs(d) == IF d.param.ts_first_point THEN d.first_point_ts ELSE d.prev_point_ts

\* Mutant of setPointCloudHeader: the rows of a cloud that is not dense are forgotten.
setPointCloudHeaderNoRows(d, cloud, height, ts) ==
  withHeader(cloud, ts, IF d.param.dense_points THEN 1 ELSE height, cloud.points)
setPointCloudHeader(d, cloud, height, ts) ==
  IF d.param.dense_points THEN withHeader(cloud, ts, 1, cloud.points)
  ELSE withHeader(cloud, ts, height, cloud.points \div height)
splitFrame(s, height) ==
  IF s.cloud.points = 0 THEN s
  ELSE [s EXCEPT !.out = setPointCloudHeader(s.d, s.cloud, height, cloudTs(s.d)),
                 !.delivered = s.delivered \cup s.cloud.frames,
                 !.cloud = EmptyCloud]
\* A frame begins with a block or packet stamped ts.
beginFrame(s, height, ts) ==
  [splitFrame(s, height) EXCEPT !.d.first_point_ts = ts, !.ret = TRUE,
                                !.cloud = [EmptyCloud EXCEPT !.opened = TRUE]]

\* n points of one block enter the cloud; ts is the stamp of the last one.
addPoints(s, n, ts, from, to, sure) ==
  LET fresh == s.cloud.to = 0
  IN [s EXCEPT !.d.prev_point_ts = ts,
               !.cloud.points = s.cloud.points + n,
               !.cloud.from = IF fresh THEN from ELSE s.cloud.from,
               !.cloud.to = to,
               !.cloud.sure = s.cloud.sure /\ sure]

DistanceSection(d) ==
  IF d.param.min_distance # 0 \/ d.param.max_distance # 0
  THEN d.param.min_distance .. d.param.max_distance
  ELSE d.const.DISTANCE_MIN .. d.const.DISTANCE_MAX
\* The points one channel contributes: out of the section, a NaN unless dense.
pointsOfChannel(d, raw) ==
  IF raw * d.const.DISTANCE_RES \in DistanceSection(d) \/ ~ d.param.dense_points THEN 1 ELSE 0

(* ---- the base class ---- *)
Decoder(type, const, param) ==
  [type |-> type, const |-> const, param |-> param, echo |-> "single", ready |-> FALSE,
   packet_duration |-> 0, prev_pkt_ts |-> 0, prev_point_ts |-> 0, first_point_ts |-> 0,
   split |-> SplitStrategyBySeq, pre |-> SplitStrategyBySeq,
   rps |-> 0, blks |-> 0, split_blks |-> 0, blind |-> 0,
   model |-> 0, init |-> FALSE, install |-> 255]

\* The stamp of a packet: the lidar's clock, or the arrival less one packet.
pktTs(d, p) == IF d.param.use_lidar_clock THEN p.ts ELSE p.host - d.packet_duration

(* ---- the base class of the mechanical lidars ---- *)
blksPerFrame(rps, duration) == 1000000000 \div (rps * duration)

splitStrategy(param) ==
  IF param.split_frame_mode \in {"fixed", "custom"} THEN SplitStrategyByNum
  ELSE SplitStrategyByAngle(param.split_angle)
\* What max_blks_ points to.
maxBlks(d) ==
  IF d.param.split_frame_mode = "custom" THEN d.param.num_blks_split ELSE d.split_blks

DecoderMech(type, const, param) ==
  LET blks == blksPerFrame(10, const.BLOCK_DURATION)
  IN [Decoder(type, const, [param EXCEPT !.wait_for_difop = @ /\ ~ param.config_from_file])
        EXCEPT !.packet_duration = const.BLOCK_DURATION * const.BLOCKS_PER_PKT,
               !.rps = 10, !.blks = blks, !.split_blks = blks,
               !.split = splitStrategy(param), !.pre = splitStrategy(param),
               !.ready = param.config_from_file /\ param.angle_file_ok]

\* Calibration angles, in 0.01 degree with a sign byte: 255 means unset.
angleCheck(v) == -9000 <= v /\ v < 18000
calibrated(angle) == IF angle.sign # 0 THEN - angle.value ELSE angle.value
loadFromDifop(vert, horiz) ==
  /\ Len(vert) > 0
  /\ \A i \in DOMAIN vert : /\ vert[i].sign # 255
                            /\ angleCheck(calibrated(vert[i]))
                            /\ angleCheck(calibrated(horiz[i]))
\* RSAIRYLITE_ETH: any angle of 90 degrees or more refuses the whole table.
loadFromDifopAIRYLITE(vert, horiz) ==
  \A i \in DOMAIN vert : /\ calibrated(vert[i]) \in -9000 .. 8999
                         /\ calibrated(horiz[i]) \in -9000 .. 8999

roundsPerSecond(rps) == IF rps = 0 THEN 10 ELSE rps
fovRange(fov) == IF fov.start < fov.end THEN fov.end - fov.start
                 ELSE fov.end + RS_ONE_ROUND - fov.start
\* The time the blind zone takes: range / (36000 * rps) seconds.
blindTime(range, rps) == ((range * 25000) \div (9 * rps)) * 10
decodeDifopCommon(d, p) ==
  LET rps == roundsPerSecond(p.rpm \div 60)
  IN [d EXCEPT !.rps = rps,
               !.blks = blksPerFrame(rps, d.const.BLOCK_DURATION),
               !.blind = blindTime(RS_ONE_ROUND - fovRange(p.fov), rps),
               !.ready = IF ~ d.param.config_from_file /\ ~ d.ready
                         THEN loadFromDifop(p.vert, p.horiz) ELSE d.ready]
\* Most mechanical decoders: two blocks for a firing when both returns are sent.
\* Mutant of difopEcho: the count follows a change of the returns only.
difopEchoOnChange(d, echo) ==
  [d EXCEPT !.echo = echo,
            !.split_blks = IF echo = d.echo THEN @ ELSE IF echo = "dual" THEN d.blks * 2 ELSE d.blks]
difopEcho(d, echo) ==
  [d EXCEPT !.echo = echo, !.split_blks = IF echo = "dual" THEN d.blks * 2 ELSE d.blks]

\* The loop over the blocks of a packet. A block without its identifier ends
\* the packet (p.bad is the first one, 0 if none); v names what differs
\* between the decoders.
Variant(d) == [height |-> d.const.LASER_NUM, bits |-> 16, ids |-> TRUE, paired |-> FALSE]
blocksOf(d, p, ids) == IF p.bad # 0 /\ ids THEN p.bad - 1 ELSE d.const.BLOCKS_PER_PKT
\* Block k, which is fired at ts.
decodeBlock(s, p, v, k, ts) ==
  LET new   == newBlock(s.d.split, p.az[k], maxBlks(s.d))
      moved == [s EXCEPT !.d.split = new.state]
      last  == IF v.paired /\ k % 2 = 1 THEN s.d.const.MID_TSS ELSE s.d.const.LAST_TSS
  IN addPoints(IF new.split THEN beginFrame(moved, v.height, ts) ELSE moved,
               s.d.const.CHANNELS_PER_BLOCK * pointsOfChannel(s.d, p.raw % 2 ^ v.bits),
               ts + last, p.fired[k], p.fired[k] + last, p.sure)
internDecodeMsopPkt(s, p, it, v) ==
  LET ts  == pktTs(s.d, p)
      off == Offsets(it, p.az, s.d.const.BLOCK_DURATION, s.d.blind)
      n   == blocksOf(s.d, p, v.ids)
      after[k \in 0 .. n] ==
        IF k = 0 THEN [s EXCEPT !.ret = FALSE] ELSE decodeBlock(after[k - 1], p, v, k, ts + off[k])
  IN [after[n] EXCEPT !.d.prev_pkt_ts = ts]

\* isNewFrame of the mechanical decoders stops at the first block that splits.
newFrameAt(d, p, r, k) ==
  IF r.new THEN r
  ELSE LET new == newBlock(r.pre, p.az[k], maxBlks(d)) IN [pre |-> new.state, new |-> new.split]
newFrameWithin(d, p, n) ==
  LET after[k \in 0 .. n] ==
        IF k = 0 THEN [pre |-> d.pre, new |-> FALSE] ELSE newFrameAt(d, p, after[k - 1], k)
  IN after[n]
\* Mutant of isNewFrameMech: blocks without an identifier are looked at too.
isNewFrameMechAnyBlock(d, p, ids) == newFrameWithin(d, p, d.const.BLOCKS_PER_PKT)
isNewFrameMech(d, p, ids) == newFrameWithin(d, p, blocksOf(d, p, ids))

Single(d) == d.echo = "single"

(* ---- RS16 ---- *)
\* 24-bit angles without a sign: the lower half of the channels looks down.
\* (A table is two channels here, one of each half.)
RS16DifopPkt2Adapter(p) ==
  [p EXCEPT !.vert = [i \in 1 .. 2 |-> [sign |-> IF i = 1 THEN 1 ELSE 0,
                                        value |-> (p.vert[i].value \div 100) % 65536]],
            !.horiz = [i \in 1 .. 2 |-> [sign |-> 0, value |-> 0]]]
RS16_calcParam(d) == [d EXCEPT !.const.LAST_TSS = IF Single(d) THEN 97500 ELSE 42000]
RS16_getEchoMode(mode) == IF mode = 0 THEN "dual" ELSE "single"
DecoderRS16(param) ==
  RS16_calcParam([DecoderMech("RS16", RS16_getConstParam, param) EXCEPT !.packet_duration = @ * 2])
RS16_decodeDifopPkt(d, p) ==
  LET e    == decodeDifopCommon(d, RS16DifopPkt2Adapter(p))
      echo == RS16_getEchoMode(p.mode)
  IN IF echo = d.echo THEN e
     ELSE RS16_calcParam([e EXCEPT !.echo = echo,
                                   !.split_blks = IF echo = "dual" THEN e.blks ELSE e.blks \div 2])
RS16_internDecodeMsopPkt(s, p, it) == internDecodeMsopPkt(s, p, it, Variant(s.d))
RS16_decodeMsopPkt(s, p) ==
  RS16_internDecodeMsopPkt(s, p, IF Single(s.d) THEN Rs16SingleReturnBlockIterator
                                 ELSE Rs16DualReturnBlockIterator)
RS16_isNewFrame(d, p) == isNewFrameMech(d, p, TRUE)

(* ---- RS32 ---- *)
RS32DifopPkt2Adapter(p) ==
  LET coarse(angles) == [i \in DOMAIN angles |-> [angles[i] EXCEPT !.value = (@ + 5) \div 10]]
  IN [p EXCEPT !.vert = coarse(p.vert), !.horiz = coarse(p.horiz)]
RS32_getEchoMode(mode) == IF mode = 0 THEN "dual" ELSE "single"
RS32_decodeDifopPkt(d, p) ==
  difopEcho(decodeDifopCommon(d, RS32DifopPkt2Adapter(p)), RS32_getEchoMode(p.mode))
RS32_internDecodeMsopPkt(s, p, it) == internDecodeMsopPkt(s, p, it, Variant(s.d))
RS32_decodeMsopPkt(s, p) ==
  RS32_internDecodeMsopPkt(s, p, IF Single(s.d) THEN SingleReturnBlockIterator
                                 ELSE DualReturnBlockIterator)
RS32_isNewFrame(d, p) == isNewFrameMech(d, p, TRUE)

(* ---- RSBP ---- *)
RSBP_getEchoMode(mode) == IF mode = 0 THEN "dual" ELSE "single"
RSBP_decodeDifopPkt(d, p) == difopEcho(decodeDifopCommon(d, p), RSBP_getEchoMode(p.mode))
\* The first packet tells version 4 of the sensor from the earlier ones.
RSBP_const(d, p) ==
  IF ~ d.init /\ p.model = 4
  THEN [d.const EXCEPT !.DISTANCE_RES = 25, !.BLOCK_DURATION = 55560, !.LAST_TSS = 51710]
  ELSE d.const
RSBP_learn(d, p) == [d EXCEPT !.init = TRUE, !.const = RSBP_const(d, p)]
RSBP_internDecodeMsopPkt(s, p, it) ==
  LET d == RSBP_learn(s.d, p) IN internDecodeMsopPkt([s EXCEPT !.d = d], p, it, Variant(d))
RSBP_decodeMsopPkt(s, p) ==
  RSBP_internDecodeMsopPkt(s, p, IF Single(s.d) THEN SingleReturnBlockIterator
                                 ELSE DualReturnBlockIterator)
RSBP_isNewFrame(d, p) == isNewFrameMech(d, p, TRUE)

(* ---- RS48 ---- *)
RS48_getEchoMode(mode) == IF mode = 3 THEN "dual" ELSE "single"
RS48_decodeDifopPkt(d, p) == difopEcho(decodeDifopCommon(d, p), RS48_getEchoMode(p.mode))
RS48_internDecodeMsopPkt(s, p, it) == internDecodeMsopPkt(s, p, it, Variant(s.d))
RS48_decodeMsopPkt(s, p) ==
  RS48_internDecodeMsopPkt(s, p, IF Single(s.d) THEN SingleReturnBlockIterator
                                 ELSE DualReturnBlockIterator)
RS48_isNewFrame(d, p) == isNewFrameMech(d, p, TRUE)

(* ---- RS80 ---- *)
RS80_getEchoMode(mode) == IF mode = 3 THEN "dual" ELSE "single"
RS80_decodeDifopPkt(d, p) == difopEcho(decodeDifopCommon(d, p), RS80_getEchoMode(p.mode))
RS80_internDecodeMsopPkt(s, p, it) == internDecodeMsopPkt(s, p, it, Variant(s.d))
RS80_decodeMsopPkt(s, p) ==
  RS80_internDecodeMsopPkt(s, p, IF Single(s.d) THEN SingleReturnBlockIterator
                                 ELSE DualReturnBlockIterator)
RS80_isNewFrame(d, p) == isNewFrameMech(d, p, TRUE)

(* ---- RS128 ---- *)
RS128_getEchoMode(mode) == IF mode = 3 THEN "dual" ELSE "single"
RS128_decodeDifopPkt(d, p) == difopEcho(decodeDifopCommon(d, p), RS128_getEchoMode(p.mode))
RS128_internDecodeMsopPkt(s, p, it) == internDecodeMsopPkt(s, p, it, Variant(s.d))
RS128_decodeMsopPkt(s, p) ==
  RS128_internDecodeMsopPkt(s, p, IF Single(s.d) THEN SingleReturnBlockIterator
                                  ELSE ABDualReturnBlockIterator)
RS128_isNewFrame(d, p) == isNewFrameMech(d, p, TRUE)

(* ---- RSP48 ---- *)
RSP48_getEchoMode(mode) == IF mode \in {0, 1, 2} THEN "single" ELSE "dual"
RSP48_decodeDifopPkt(d, p) == difopEcho(decodeDifopCommon(d, p), RSP48_getEchoMode(p.mode))
RSP48_internDecodeMsopPkt(s, p, it) == internDecodeMsopPkt(s, p, it, Variant(s.d))
RSP48_decodeMsopPkt(s, p) ==
  RSP48_internDecodeMsopPkt(s, p, IF Single(s.d) THEN SingleReturnBlockIterator
                                  ELSE DualReturnBlockIterator)
RSP48_isNewFrame(d, p) == isNewFrameMech(d, p, TRUE)

(* ---- RSP80 ---- *)
RSP80_getEchoMode(mode) == IF mode \in {0, 1, 2} THEN "single" ELSE "dual"
RSP80_decodeDifopPkt(d, p) == difopEcho(decodeDifopCommon(d, p), RSP80_getEchoMode(p.mode))
RSP80_calcParam(d) == [d EXCEPT !.const.LAST_TSS = IF d.model = 3 THEN 31963 ELSE 53771]
DecoderRSP80(param) == RSP80_calcParam(DecoderMech("RSP80", RSP80_getConstParam, param))
RSP80_learn(d, p) ==
  IF p.model # d.model THEN RSP80_calcParam([d EXCEPT !.model = p.model]) ELSE d
RSP80_internDecodeMsopPkt(s, p, it) ==
  LET d == RSP80_learn(s.d, p) IN internDecodeMsopPkt([s EXCEPT !.d = d], p, it, Variant(d))
RSP80_decodeMsopPkt(s, p) ==
  RSP80_internDecodeMsopPkt(s, p, IF Single(s.d) THEN SingleReturnBlockIterator
                                  ELSE DualReturnBlockIterator)
RSP80_isNewFrame(d, p) == isNewFrameMech(d, p, TRUE)

(* ---- RSP128 ---- *)
RSP128_getEchoMode(mode) == IF mode \in {0, 1, 2} THEN "single" ELSE "dual"
RSP128_decodeDifopPkt(d, p) == difopEcho(decodeDifopCommon(d, p), RSP128_getEchoMode(p.mode))
RSP128_internDecodeMsopPkt(s, p, it) == internDecodeMsopPkt(s, p, it, Variant(s.d))
RSP128_decodeMsopPkt(s, p) ==
  RSP128_internDecodeMsopPkt(s, p, IF Single(s.d) THEN SingleReturnBlockIterator
                                   ELSE ABDualReturnBlockIterator)
RSP128_isNewFrame(d, p) == isNewFrameMech(d, p, TRUE)

(* ---- RSHELIOS ---- *)
RSHELIOS_getEchoMode(mode) == IF mode = 0 THEN "dual" ELSE "single"
RSHELIOS_decodeDifopPkt(d, p) == difopEcho(decodeDifopCommon(d, p), RSHELIOS_getEchoMode(p.mode))
RSHELIOS_internDecodeMsopPkt(s, p, it) == internDecodeMsopPkt(s, p, it, Variant(s.d))
RSHELIOS_decodeMsopPkt(s, p) ==
  RSHELIOS_internDecodeMsopPkt(s, p, IF Single(s.d) THEN SingleReturnBlockIterator
                                     ELSE DualReturnBlockIterator)
RSHELIOS_isNewFrame(d, p) == isNewFrameMech(d, p, TRUE)

(* ---- RSHELIOS_16P ---- *)
RSHELIOS_16P_calcParam(d) == [d EXCEPT !.const.LAST_TSS = IF Single(d) THEN 53630 ELSE 25950]
RSHELIOS_16P_getEchoMode(mode) == IF mode = 0 THEN "dual" ELSE "single"
DecoderRSHELIOS_16P(param) ==
  RSHELIOS_16P_calcParam([DecoderMech("RSHELIOS_16P", RSHELIOS_16P_getConstParam, param)
                            EXCEPT !.packet_duration = @ * 2])
RSHELIOS_16P_decodeDifopPkt(d, p) ==
  LET e    == decodeDifopCommon(d, p)
      echo == RSHELIOS_16P_getEchoMode(p.mode)
  IN IF echo = d.echo THEN e
     ELSE RSHELIOS_16P_calcParam(
            [e EXCEPT !.echo = echo,
                      !.split_blks = IF echo = "dual" THEN e.blks ELSE e.blks \div 2])
RSHELIOS_16P_internDecodeMsopPkt(s, p, it) == internDecodeMsopPkt(s, p, it, Variant(s.d))
RSHELIOS_16P_decodeMsopPkt(s, p) ==
  RSHELIOS_16P_internDecodeMsopPkt(s, p, IF Single(s.d) THEN Rs16SingleReturnBlockIterator
                                         ELSE Rs16DualReturnBlockIterator)
RSHELIOS_16P_isNewFrame(d, p) == isNewFrameMech(d, p, TRUE)

(* ---- RSAIRY: the model (48, 96 or 192 channels) and the returns are in  *)
(*      the MSOP packet, the way it is mounted in the DIFOP packet         *)
RSAIRY_getEchoMode(mode) == IF mode = 3 THEN "dual" ELSE "single"
RSAIRY_getLidarModel(mode) == CASE mode = 1 -> 48 [] mode = 3 -> 192 [] OTHER -> 96
RSAIRY_decodeDifopPkt(d, p) ==
  [decodeDifopCommon(d, p) EXCEPT !.install = IF p.install # 255 THEN p.install ELSE @]
\* The parameters are learnt from every packet until they are complete: with
\* 96 channels, when the mounting is known.
RSAIRY_told(d, p) ==
  difopEcho([d EXCEPT !.model = RSAIRY_getLidarModel(p.model), !.const.BLOCK_DURATION = 111080],
            RSAIRY_getEchoMode(p.mode))
RSAIRY_tss(d, last, mid) ==
  [d EXCEPT !.const.LAST_TSS = last, !.const.MID_TSS = mid, !.init = TRUE]
RSAIRY_learn(d, p) ==
  LET e == RSAIRY_told(d, p)
  IN CASE e.model = 48 -> RSAIRY_tss(e, 97104, e.const.MID_TSS)
       [] e.model = 96 /\ e.install = 1 -> RSAIRY_tss(e, 99008, 54264)
       [] e.model = 96 /\ e.install = 0 -> RSAIRY_tss(e, 93296, 33320)
       [] e.model = 96 /\ e.install = 2 -> [e EXCEPT !.init = TRUE]
       [] OTHER -> e
Airy_variant(d, bits) ==
  [Variant(d) EXCEPT !.height = d.model, !.bits = bits, !.paired = d.model = 96]
RSAIRY_internDecodeMsopPkt(s, p, it) == internDecodeMsopPkt(s, p, it, Airy_variant(s.d, 14))
Airy_iterator(d) ==
  CASE d.model = 48 /\ Single(d)   -> SingleReturnBlockIterator
    [] d.model = 48 /\ ~ Single(d) -> DualReturnBlockIterator
    [] d.model = 96 /\ Single(d)   -> TwoInOneBlockIterator
    [] d.model = 96 /\ ~ Single(d) -> FourInOneBlockIterator
RSAIRY_decodeMsopPkt(s, p) ==
  LET t == [s EXCEPT !.d = IF s.d.init THEN s.d ELSE RSAIRY_learn(s.d, p), !.ret = FALSE]
  IN CASE p.data_type # 0       -> [s EXCEPT !.ret = FALSE]
       [] t.d.model \in {48, 96} -> RSAIRY_internDecodeMsopPkt(t, p, Airy_iterator(t.d))
       [] OTHER                 -> t
RSAIRY_isNewFrame(d, p) ==
  IF p.data_type > 0 THEN [pre |-> d.pre, new |-> FALSE] ELSE isNewFrameMech(d, p, TRUE)

(* ---- RSFAIRY: as RSAIRY, complete with the first packet ---- *)
RSFAIRY_getEchoMode(mode) == IF mode = 3 THEN "dual" ELSE "single"
RSFAIRY_getLidarModel(mode) == IF mode = 1 THEN 48 ELSE 96
RSFAIRY_decodeDifopPkt(d, p) == decodeDifopCommon(d, p)
RSFAIRY_told(d, p) ==
  difopEcho([d EXCEPT !.model = RSFAIRY_getLidarModel(p.model), !.init = TRUE],
            RSFAIRY_getEchoMode(p.mode))
RSFAIRY_learn(d, p) ==
  LET e == RSFAIRY_told(d, p)
  IN IF e.model = 48 THEN [e EXCEPT !.const.LAST_TSS = 51040] ELSE e
RSFAIRY_internDecodeMsopPkt(s, p, it) == internDecodeMsopPkt(s, p, it, Airy_variant(s.d, 15))
RSFAIRY_decodeMsopPkt(s, p) ==
  LET t == [s EXCEPT !.d = IF s.d.init THEN s.d ELSE RSFAIRY_learn(s.d, p)]
  IN IF p.data_type # 0 THEN [s EXCEPT !.ret = FALSE]
     ELSE RSFAIRY_internDecodeMsopPkt(t, p, Airy_iterator(t.d))
RSFAIRY_isNewFrame(d, p) ==
  IF p.data_type > 0 THEN [pre |-> d.pre, new |-> FALSE] ELSE isNewFrameMech(d, p, TRUE)

(* ---- RSAIRYLITE_ETH: blocks have no identifier; the field of view of    *)
(*      the DIFOP packet is not used                                       *)
RSAIRYLITE_decodeDifopAngles(d, p) ==
  LET rps  == roundsPerSecond((p.rpm * 10) \div 600)
      blks == blksPerFrame(rps, d.const.BLOCK_DURATION)
  IN [d EXCEPT !.rps = rps, !.blks = blks, !.split_blks = blks,
               !.ready = IF d.param.config_from_file THEN @
                         ELSE loadFromDifopAIRYLITE(p.vert, p.horiz)]
RSAIRYLITE_decodeDifopPkt(d, p) == RSAIRYLITE_decodeDifopAngles(d, p)
RSAIRYLITE_internDecodeMsopPkt(s, p, it) ==
  internDecodeMsopPkt(s, p, it, [Variant(s.d) EXCEPT !.height = 24, !.bits = 14, !.ids = FALSE])
RSAIRYLITE_decodeMsopPkt(s, p) == RSAIRYLITE_internDecodeMsopPkt(s, p, SingleReturnBlockIterator)
RSAIRYLITE_isNewFrame(d, p) == isNewFrameMech(d, p, FALSE)

(* ---- lidars that number their packets within a frame ---- *)
DecoderSeq(type, const, param, packets) ==
  [Decoder(type, const, param) EXCEPT !.packet_duration = 100000000 \div packets, !.ready = TRUE]

\* One packet, numbered seq, of frame p.frame; per is the number of points of
\* a channel and offset the time of its last block.
decodePacket(s, p, seq, per, offset) ==
  LET d   == s.d
      ts  == pktTs(d, p)
      new == newPacket(d.split, seq)
      t   == [s EXCEPT !.d.split = new.state]
      n   == per * d.const.BLOCKS_PER_PKT * d.const.CHANNELS_PER_BLOCK * pointsOfChannel(d, p.raw)
      u   == addPoints(IF new.split THEN beginFrame(t, d.const.LASER_NUM, ts) ELSE t,
                       n, ts + offset, p.ts, p.ts + offset, TRUE)
  IN [u EXCEPT !.d.prev_pkt_ts = ts,
               !.cloud.frames = IF p.late \/ n = 0 THEN @ ELSE @ \cup {p.frame}]
decodePkt(s, p, per, offset) == decodePacket([s EXCEPT !.ret = FALSE], p, p.seq, per, offset)

(* ---- RSM1: the packet with the highest number so far ends the frame ---- *)
DecoderRSM1(param) == DecoderSeq("RSM1", RSM1_getConstParam, param, 630)
RSM1_getEchoMode(mode) == IF mode = 0 THEN "dual" ELSE "single"
RSM1_decodeDifopPkt(d, p) == [d EXCEPT !.echo = RSM1_getEchoMode(p.mode)]
RSM1_decodeMsopPkt(s, p) ==
  LET t == decodePkt(s, p, 1, p.offset)
  IN IF maxSeq(t.d.split) = p.seq THEN splitFrame(t, t.d.const.LASER_NUM) ELSE t

(* ---- RSM1_JUMBO: 63 packets in one datagram ---- *)
PACKET_NUM == 63
DecoderRSM1_Jumbo(param) == DecoderSeq("RSM1_JUMBO", RSM1_JUMBO_getConstParam, param, 630)
RSM1_JUMBO_getEchoMode(mode) == IF mode = 0 THEN "dual" ELSE "single"
RSM1_JUMBO_decodeDifopPkt(d, p) == [d EXCEPT !.echo = RSM1_JUMBO_getEchoMode(p.mode)]
RSM1_JUMBO_internDecodeMsopPkt(s, p, seq) == decodePacket(s, p, seq, 1, p.offset)
\* ret tells whether any packet so far began a frame.
JUMBO_packetOf(s, p, i) ==
  [RSM1_JUMBO_internDecodeMsopPkt(s, p, (p.seq - 1) * PACKET_NUM + i) EXCEPT !.ret = @ \/ s.ret]
RSM1_JUMBO_decodeMsopPkt(s, p) ==
  IF p.len # RSM1_JUMBO_Packets.msop THEN [s EXCEPT !.ret = FALSE]
  ELSE LET after[i \in 0 .. PACKET_NUM] ==
             IF i = 0 THEN [s EXCEPT !.ret = FALSE] ELSE JUMBO_packetOf(after[i - 1], p, i)
       IN after[PACKET_NUM]

(* ---- RSM2 ---- *)
DecoderRSM2(param) == DecoderSeq("RSM2", RSM2_getConstParam, param, 1260)
RSM2_getEchoMode(mode) == IF mode = 0 THEN "dual" ELSE "single"
RSM2_decodeDifopPkt(d, p) == [d EXCEPT !.echo = RSM2_getEchoMode(p.mode)]
RSM2_decodeMsopPkt(s, p) == decodePkt(s, p, 1, p.offset)

(* ---- RSM3, RSE1: nothing of the DIFOP packet is used ---- *)
DecoderRSM3(param) == DecoderSeq("RSM3", RSM3_getConstParam, param, 2270)
RSM3_decodeDifopPkt(d, p) == d
RSM3_decodeMsopPkt(s, p) == decodePkt(s, p, 1, p.offset)
DecoderRSE1(param) == DecoderSeq("RSE1", RSE1_getConstParam, param, 288)
RSE1_decodeDifopPkt(d, p) == d
RSE1_decodeMsopPkt(s, p) == decodePkt(s, p, 1, p.offset)

(* ---- RSMX: two points for a channel when both returns are sent ---- *)
DecoderRSMX(param) == DecoderSeq("RSMX", RSMX_getConstParam, param, 630)
RSMX_decodeDifopPkt(d, p) == d
RSMX_decodeMsopPkt(s, p) == decodePkt(s, p, IF p.mode = 0 THEN 2 ELSE 1, p.offset)

(* ---- RSEMX: numbers packets from 1, counts from 0; four kinds of DIFOP  *)
(*      packets, whose length nobody checks before                         *)
EMX_SURFACE_NUM == 2
DecoderRSEMX(param) ==
  [DecoderSeq("RSEMX", RSEMX_getConstParam, param, 1520) EXCEPT !.ready = FALSE]
RSEMX_decodeDifopPkt(d, p) == IF p.len \in RSEMX_Difops THEN [d EXCEPT !.ready = TRUE] ELSE d
RSEMX_decodeMsopPkt(s, p) ==
  IF p.surface >= EMX_SURFACE_NUM THEN [s EXCEPT !.ret = FALSE]
  ELSE decodePacket([s EXCEPT !.ret = FALSE], p, p.seq - 1, 1, 0)
=============================================================================
