------------------------------- MODULE RsSplit -------------------------------
(***************************************************************************)
(* How rs_driver cuts the stream of blocks and packets into frames (the    *)
(* split strategies) and how it tells when the blocks of a packet were     *)
(* fired (the block iterators). Azimuths are in 0.01 degree.               *)
(***************************************************************************)
EXTENDS Integers, Sequences

RS_ONE_ROUND == 36000

(* ---- split strategies: newBlock and newPacket return the new state and  *)
(*      whether a frame begins here                                        *)
SplitStrategyByAngle(angle) == [kind |-> "angle", split_angle |-> angle, prev |-> angle]
ByAngle_newBlock(s, angle) ==
  LET prev == IF angle < s.prev THEN s.prev - RS_ONE_ROUND ELSE s.prev
  IN [state |-> [s EXCEPT !.prev = angle],
      split |-> prev < s.split_angle /\ s.split_angle <= angle]

SplitStrategyByNum == [kind |-> "num", blks |-> 0]
\* max_blks points to a variable of the decoder: its present value counts.
ByNum_newBlock(s, max_blks) ==
  IF s.blks + 1 >= max_blks
  THEN [state |-> [s EXCEPT !.blks = 0], split |-> TRUE]
  ELSE [state |-> [s EXCEPT !.blks = s.blks + 1], split |-> FALSE]

newBlock(s, angle, max_blks) ==
  IF s.kind = "angle" THEN ByAngle_newBlock(s, angle) ELSE ByNum_newBlock(s, max_blks)

RANGE == 10
\* The safe range around a sequence number, cut to 16 bits as in the code.
safe_seq_min(prev) == IF prev > RANGE THEN prev - RANGE ELSE 0
safe_seq_max(prev) == (prev + RANGE) % 65536
SplitStrategyBySeq == [kind |-> "seq", prev |-> 0, max |-> 0, looped |-> FALSE]
\* Mutant of newPacket: every number below the last one is taken for a rewind.
newPacketNoRange(s, seq) ==
  [state |-> [s EXCEPT !.max = IF seq > s.max THEN seq ELSE s.max, !.prev = seq,
                       !.looped = s.looped \/ seq < s.prev],
   split |-> seq < s.prev]
newPacket(s, seq) ==
  LET rewind  == seq < safe_seq_min(s.prev)
      forward == s.prev <= seq /\ (seq <= safe_seq_max(s.prev) \/ s.prev = 0)
  IN [state |-> [s EXCEPT !.max = IF seq > s.max THEN seq ELSE s.max,
                          !.prev = IF rewind \/ forward THEN seq ELSE s.prev,
                          !.looped = s.looped \/ rewind],
      split |-> rewind]
maxSeq(s) == IF s.looped THEN s.max ELSE 0

(* ---- block iterators ---- *)
MAX_BLOCKS_PER_PKT == 16

\* An iterator treats `group' consecutive blocks as fired together, and takes
\* `scale' block durations from one group to the next.
Iterator(group, scale) == [group |-> group, scale |-> scale, ab |-> FALSE]
SingleReturnBlockIterator == Iterator(1, 1)
DualReturnBlockIterator == Iterator(2, 1)
TwoInOneBlockIterator == Iterator(2, 1)
FourInOneBlockIterator == Iterator(4, 1)
Rs16SingleReturnBlockIterator == Iterator(1, 2)
Rs16DualReturnBlockIterator == Iterator(1, 1)
\* Three blocks of two firings: AAB or ABB.
ABDualReturnBlockIterator == [Iterator(1, 1) EXCEPT !.ab = TRUE]

\* The time between two firings, from their azimuths: more than one degree
\* means that the blind zone of the field of view lies between them.
\* Mutant of Elapsed: a difference across the zero is not brought back.
ElapsedNoWrap(from, to, step, blind) == IF to - from > 100 THEN blind ELSE step
Elapsed(from, to, step, blind) ==
  LET diff == to - from
  IN IF (IF diff < 0 THEN diff + RS_ONE_ROUND ELSE diff) > 100 THEN blind ELSE step

\* The time of every block of a packet with azimuths az, counted from its
\* first block.
ABDualOffsets(az, duration, blind) ==
  LET later == Elapsed(az[1], az[3], duration, blind)
  IN IF az[1] = az[2] THEN <<0, 0, later>> ELSE <<0, later, later>>
GroupOffsets(it, az, duration, blind) ==
  LET first(g) == az[g * it.group + 1]
      at[g \in 0 .. (Len(az) \div it.group) - 1] ==
        IF g = 0 THEN 0
        ELSE at[g - 1] + Elapsed(first(g - 1), first(g), it.scale * duration, blind)
  IN [blk \in 1 .. Len(az) |-> at[(blk - 1) \div it.group]]
Offsets(it, az, duration, blind) ==
  IF it.ab THEN ABDualOffsets(az, duration, blind)
           ELSE GroupOffsets(it, az, duration, blind)
=============================================================================
