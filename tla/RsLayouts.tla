------------------------------ MODULE RsLayouts ------------------------------
(***************************************************************************)
(* The packed packet structures of the rs_driver decoders, as sizes in     *)
(* bytes, and the constant parameters every decoder starts from.           *)
(*                                                                         *)
(* Units: lengths in bytes, distances in 0.1 mm, times in nanoseconds.     *)
(* Of CHAN_TSS only the entry of a block's last channel outlives the block *)
(* (in prev_point_ts_): LAST_TSS, and MID_TSS for the first of two blocks  *)
(* that share 96 channels.                                                 *)
(***************************************************************************)
EXTENDS Integers

(* ---- structures that several lidars share ---- *)
RSTimestampYMD == 10
RSTimestampUTC == 6 + 4
RSTemperature == 2
RSCalibrationAngle == 1 + 2
RSMsopHeaderV1 == 8 + 12 + RSTimestampYMD + 3 + 5 + RSTemperature + 2
RSMsopHeaderV2 == 4 + 2 + 2 + RSTemperature + RSTimestampUTC + 10 + 2 + 48
RSChannel == 2 + 1
RSEthNetV1 == 4 + 4 + 6 + 4 * 2
RSEthNetV2 == 4 + 4 + 6 + 4 * 2
RSFOV == 2 + 2
RSVersionV1 == 5 + 5
RSVersionV2 == 5 + 5 + 5 + 5 + 3
RSSN == 6
RSStatusV1 == 3 + 3 + 9 * 2
RSStatusV2 == 6 * 2 + 12
RSDiagnoV1 == 9 + 3 * 2 + 1 + 5 * 2 + 5 + 2 + 7
RSDiagnoV2 == 6 * 2 + 1 + 2 * 2 + 1 + 22
RSTimeInfo == 1 + 1 + RSTimestampUTC

\* A block of a mechanical lidar: its identifier, azimuth and channels.
MsopBlock(id, channels) == id + 2 + channels * RSChannel

\* The part of a DIFOP packet that precedes the calibration, in the older
\* (timestamp and software version) and the newer protocol.
DifopV1 == 8 + 2 + RSEthNetV1 + RSFOV + 2 + 2 + RSVersionV1 + 242 + RSSN + 2
           + 1 + 2 + RSTimestampYMD + RSStatusV1 + 5 + RSDiagnoV1 + 86
DifopV2(status, diagno) ==
  8 + 2 + RSEthNetV2 + RSFOV + 2 + 2 + RSVersionV2 + 229 + RSSN + 2
  + 1 + RSTimeInfo + status + 5 + diagno + 86

(* ---- the packets of each lidar: msop, difop, imu ---- *)
Packets(msop, difop, imu) == [msop |-> msop, difop |-> difop, imu |-> imu]

RS16_Packets == Packets(RSMsopHeaderV1 + 12 * MsopBlock(2, 32) + 4 + 2,
                        DifopV1 + 697 + 48 + 33 + 2, 0)
RS32_Packets == Packets(RSMsopHeaderV1 + 12 * MsopBlock(2, 32) + 4 + 2,
                        DifopV1 + 2 * 32 * RSCalibrationAngle + 586 + 2, 0)
RSBP_Packets == Packets(RSMsopHeaderV1 + 12 * MsopBlock(2, 32) + 4 + 2,
                        DifopV1 + 2 * 32 * RSCalibrationAngle + 586 + 2, 0)
DifopRuby == DifopV2(RSStatusV1, RSDiagnoV1) + 2 * 128 * RSCalibrationAngle + 10 + 2
RS80_Packets == Packets(RSMsopHeaderV2 + 4 * MsopBlock(2, 80) + 192, DifopRuby, 0)
RS128_Packets == Packets(RSMsopHeaderV2 + 3 * MsopBlock(2, 128) + 4, DifopRuby, 0)
RSP48_Packets == Packets(RSMsopHeaderV2 + 8 * MsopBlock(2, 48) + 4, DifopRuby, 0)
RSP80_Packets == Packets(RSMsopHeaderV2 + 4 * MsopBlock(2, 80) + 192, DifopRuby, 0)
RSP128_Packets == Packets(RSMsopHeaderV2 + 3 * MsopBlock(2, 128) + 4, DifopRuby, 0)
RSHELIOS_Packets ==
  LET header == 4 + 2 + 14 + RSTimestampUTC + 1 + 7 + RSTemperature + 2
  IN Packets(header + 12 * MsopBlock(2, 32) + 4 + 2,
             DifopV2(RSStatusV2, RSDiagnoV2) + 2 * 32 * RSCalibrationAngle + 586 + 2, 0)

RSM1MsopHeader == 4 + 2 + 2 + 1 + 1 + RSTimestampUTC + 10 + 1 + 1
RSM1_Packets ==
  LET channel == 3 * 2 + 1 + 1 + 1
      ether   == 4 + 4 + 6 + 2 + 2
      version == 5 + 5
      status  == 3 + 3 + 2 * 2 + 10
  IN Packets(RSM1MsopHeader + 25 * (1 + 1 + 5 * channel) + 3,
             8 + 1 + 1 + ether + version + RSSN + 1 + RSTimeInfo + status + 40
             + 20 * (1 + 2) + 79, 0)
\* A jumbo datagram carries 63 packets; its DIFOP is RSM1's.
RSM1_JUMBO_Packets ==
  LET pkt == RSM1MsopHeader + 25 * (1 + 1 + 5 * (3 * 2 + 1)) + 11 + 16
  IN Packets(63 * pkt + 160, RSM1_Packets.difop, 0)
\* Distance, x, y, z, intensity and attribute of one point.
PointXYZ == 4 * 2 + 1 + 1
RSM2_Packets == Packets(RSM1MsopHeader + 25 * (1 + 1 + 5 * PointXYZ) + 4 + 4 + 2,
                        RSM1_Packets.difop, 0)
RSM3_Packets == Packets(RSM1MsopHeader + 5 * (2 + 28 * PointXYZ) + 2 + 4,
                        8 + RSSN + 96 + RSTimeInfo + 390, 0)
RSE1_Packets == Packets(RSM1MsopHeader + 96 * (2 + PointXYZ) + 16,
                        8 + 93 + 1 + 1 + RSTimestampUTC + 95 + 6 * 4 + 24, 0)
RSMX_Packets == Packets(RSM1MsopHeader + 50 * (1 + 2 * (2 + 2 + 3 * 2 + 3)) + 16 + 4 + 2,
                        8 + 30 + RSSN + 212, 0)

\* RSEMX has four DIFOP packets, told apart by their length.
EMX_PIXELS_PER_COLUMN == 192
RSEMX_Difops ==
  LET ether  == 4 + 4 + 6 + 4 + 2 + 2 + 4 + 2 + 2 + 4 + 2 + 2 + 4 * 2 + 7
      faults == 3 + 3 + 3 + 6 + 1 + 1
      check  == 2 + 2 + 4 + 4
      angles == 1 + 1 + 1 + 24 + 2 * EMX_PIXELS_PER_COLUMN + 2 * 2 + 2 + 4 + check
  IN {8 + 4 + 4 + 4 + 4 + 1 + RSSN + 4 + 9 + ether + 1 + 1 + 1 + RSTimeInfo + 1 + 1
      + 26 + 2 * EMX_PIXELS_PER_COLUMN + 2 + 66 + 5 + faults + 28 + check,
      4 + 63 + angles, 4 + 303 + angles, 4 + 319 + angles}
RSEMX_Packets ==
  Packets(4 + 2 + 2 + 1 + 1 + RSTimestampUTC + 1 + 1 + 2 + 2 + 1 + 1 + 2 + 1 + 1
          + EMX_PIXELS_PER_COLUMN * (2 + 1 + 1) + 2 + 2 + 4 + 4,
          CHOOSE n \in RSEMX_Difops : n = 654, 0)

AiryHeader == 4 + 4 + 4 + 4 + 2 + 2 + RSTimestampUTC + 3 + 5 + 2 * RSTemperature
AiryStatus == 5 * 2 + 16
AiryImu == 4 + RSTimestampUTC + 6 * 4 + 4 + 3 + 4 + 2
RSAIRY_Packets ==
  Packets(AiryHeader + 8 * MsopBlock(2, 48) + 6 + 16,
          8 + 2 + RSEthNetV2 + RSFOV + 4 + RSVersionV1 + 239 + 1 + 2 + RSSN + 2 + 1 + 167
          + 2 * 96 * RSCalibrationAngle + 22 + AiryStatus + 7 * 4 + 4 + 3 * 4 + 110 + 2,
          AiryImu)
RSFAIRY_Packets ==
  Packets(AiryHeader + 8 * MsopBlock(2, 48) + 6 + 16,
          8 + 2 + RSEthNetV2 + RSFOV + 4 + RSVersionV1 + 242 + RSSN + 2 + 1 + 167
          + 2 * 96 * RSCalibrationAngle + 22 + AiryStatus + 7 * 4 + 126 + 2,
          AiryImu)
RSAIRYLITE_Packets ==
  Packets(4 + 2 + RSTimestampUTC + 2 + 2 * RSTemperature + 16 * MsopBlock(0, 24) + 70 + 2 + 2,
          4 + 2 + 3 * 4 + 8 + 6 + 17 + RSSN + 18 + 3 * 4 + 6 + 3 + 2 + RSTimestampUTC + 205
          + RSFOV + 25 + 2 + 2 + 4 + 2 * (24 * 2 + 3) + 23 + 7 * 4 + 6 + 1 + 14 * 2 + 2 + 2,
          4 + 1 + 1 + RSTimestampUTC + 6 * 4 + 4 + 3 + 2 + 2)

(* ---- RSDecoderConstParam and RSDecoderMechConstParam ---- *)
RSDecoderConstParam(msop, difop, lasers, blks, chans, min, max, res) ==
  [MSOP_LEN |-> msop, DIFOP_LEN |-> difop, IMU_LEN |-> 0, LASER_NUM |-> lasers,
   BLOCKS_PER_PKT |-> blks, CHANNELS_PER_BLOCK |-> chans,
   DISTANCE_MIN |-> min, DISTANCE_MAX |-> max, DISTANCE_RES |-> res,
   BLOCK_DURATION |-> 0, LAST_TSS |-> 0, MID_TSS |-> 0]
RSDecoderMechConstParam(base, duration, last) ==
  [base EXCEPT !.BLOCK_DURATION = duration, !.LAST_TSS = last]

RS16_getConstParam ==
  RSDecoderMechConstParam(RSDecoderConstParam(1248, 1248, 16, 12, 32, 4000, 2300000, 50), 55500, 0)
RS32_getConstParam ==
  RSDecoderMechConstParam(RSDecoderConstParam(1248, 1248, 32, 12, 32, 4000, 2300000, 50), 55520, 46080)
RSBP_getConstParam ==
  RSDecoderMechConstParam(RSDecoderConstParam(1248, 1248, 32, 12, 32, 1000, 1500000, 50), 55520, 44880)
RS48_getConstParam ==
  RSDecoderMechConstParam(RSDecoderConstParam(1268, 1248, 48, 8, 48, 4000, 2500000, 50), 55552, 48540)
RS80_getConstParam ==
  RSDecoderMechConstParam(RSDecoderConstParam(1248, 1248, 80, 4, 80, 4000, 2500000, 50), 55552, 48540)
RS128_getConstParam ==
  RSDecoderMechConstParam(RSDecoderConstParam(1248, 1248, 128, 3, 128, 4000, 2500000, 50), 55550, 48540)
RSP48_getConstParam ==
  RSDecoderMechConstParam(RSDecoderConstParam(1268, 1248, 48, 8, 48, 4000, 2500000, 50), 55560, 40666)
RSP80_getConstParam ==
  RSDecoderMechConstParam(RSDecoderConstParam(1248, 1248, 80, 4, 80, 4000, 2500000, 50), 55560, 0)
RSP128_getConstParam ==
  RSDecoderMechConstParam(RSDecoderConstParam(1248, 1248, 128, 3, 128, 4000, 2500000, 50), 55560, 53771)
RSHELIOS_getConstParam ==
  RSDecoderMechConstParam(RSDecoderConstParam(1248, 1248, 32, 12, 32, 1000, 1800000, 25), 55560, 53630)
RSHELIOS_16P_getConstParam ==
  RSDecoderMechConstParam(RSDecoderConstParam(1248, 1248, 16, 12, 32, 1000, 1800000, 25), 55560, 0)
RSAIRY_getConstParam ==
  [RSDecoderMechConstParam(RSDecoderConstParam(1248, 1248, 96, 8, 48, 1000, 600000, 50), 111080, 97104)
     EXCEPT !.IMU_LEN = 51, !.MID_TSS = 42840]
RSFAIRY_getConstParam ==
  [RSDecoderMechConstParam(RSDecoderConstParam(1248, 1248, 96, 8, 48, 1000, 1500000, 50), 69462, 53856)
     EXCEPT !.IMU_LEN = 51, !.MID_TSS = 8160]
RSAIRYLITE_getConstParam ==
  [RSDecoderMechConstParam(RSDecoderConstParam(1280, 540, 24, 16, 24, 1000, 1000000, 50), 166667, 107300)
     EXCEPT !.IMU_LEN = 51]
RSM1_getConstParam == RSDecoderConstParam(1210, 256, 5, 25, 5, 2000, 2000000, 50)
RSM1_JUMBO_getConstParam == RSDecoderConstParam(62152, 256, 5, 25, 5, 2000, 2000000, 50)
RSM2_getConstParam == RSDecoderConstParam(1342, 256, 5, 25, 5, 2000, 2500000, 50)
RSM3_getConstParam == RSDecoderConstParam(1448, 512, 28, 5, 28, 1000, 3000000, 50)
RSE1_getConstParam == RSDecoderConstParam(1200, 256, 1, 96, 1, 0, 2000000, 50)
RSMX_getConstParam == RSDecoderConstParam(1404, 256, 2, 50, 2, 2000, 2000000, 50)
RSEMX_getConstParam == RSDecoderConstParam(812, 654, 1, 192, 1, 2000, 3000000, 50)
=============================================================================
