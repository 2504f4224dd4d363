------------------------- MODULE GnssLocalPoseProofs -------------------------
(***************************************************************************)
(* Proofs about GnssLocalPose, for any limits, any length of the day and   *)
(* any number of sentences and losses.                                     *)
(*   Shape     the types; a position that waits in _ros_events is new;     *)
(*   InOrder   sentence numbers rise along _ros_events, the positions      *)
(*             still pending come before them and the published ones       *)
(*             before those; the pending ones are sorted by age, so that   *)
(*             the oldest expire first;                                    *)
(*   Paired    every published pose pairs two sentences of one moment;     *)
(*   Revoked   a lost port has its event behind all others, and a heading  *)
(*             that was found out of date has left nothing valid behind,   *)
(*             unless another heading is on its way to the executor.       *)
(***************************************************************************)
EXTENDS GnssLocalPose, NumberLemmas

-----------------------------------------------------------------------------
(* The invariant *)

Sentence == [id : Nat, utc : 0 .. Day, ok : BOOLEAN, age : 0 .. MaxAge]
Event    == [kind : {"gga", "hpr", "local_pose_invalid"}, data : Sentence]
PoseSet  == [gga : Nat, valid : BOOLEAN, times : (0 .. Day) \X (0 .. Day)]

SerialShape ==
  /\ serial \in {"run", "hpr", "lost"} /\ serial_ready \in BOOLEAN
  /\ serial = "lost" => ~serial_ready
  /\ serial = "hpr" => serial_ready
  /\ latest_hpr \in Sentence
  /\ sentences \in 0 .. MaxSentences /\ losses \in 0 .. MaxLosses

QueueShape ==
  /\ events \in Seq(Event)
  /\ \A i \in DOMAIN events : events[i].kind = "gga" => events[i].data.age = 0

ExecutorShape ==
  /\ executor \in {"idle", "drain"} /\ drained \in 0 .. MaxDrain
  /\ stale \in BOOLEAN /\ attitude \in BOOLEAN /\ pose_valid \in BOOLEAN /\ outdated \in BOOLEAN
  /\ pending \in Seq(Sentence)
  /\ poses \in Seq(PoseSet)

Shape == SerialShape /\ QueueShape /\ ExecutorShape

\* The positions of q, and the ages they have.
Rising(q) == \A i, j \in DOMAIN q : i < j => q[i].id < q[j].id
Aging(q)  == \A i, j \in DOMAIN q : i < j => q[i].age >= q[j].age

\* Poses in order; the positions of q come after them; none is later than n.
Ordered(ps)    == \A i, j \in DOMAIN ps : i < j => ps[i].gga < ps[j].gga
Before(ps, q)  == \A i \in DOMAIN ps, j \in DOMAIN q : ps[i].gga < q[j].id
UpTo(ps, q, n) == (\A i \in DOMAIN ps : ps[i].gga <= n) /\ (\A j \in DOMAIN q : q[j].id <= n)

\* The positions among the events es: in order, after those of ps and q, and up to n.
Queued(es, ps, q, n) ==
  /\ \A i, j \in DOMAIN es :
       i < j /\ es[i].kind = "gga" /\ es[j].kind = "gga" => es[i].data.id < es[j].data.id
  /\ \A i \in DOMAIN es : es[i].kind = "gga" =>
       es[i].data.id <= n /\ UpTo(ps, q, es[i].data.id - 1)

WorkedOff(ps, q) == Ordered(ps) /\ Before(ps, q) /\ Rising(q) /\ Aging(q)

InOrder ==
  /\ WorkedOff(poses, pending) /\ UpTo(poses, pending, sentences)
  /\ Queued(events, poses, pending, sentences)

\* PairedWhenValid, of a pose.
PairedPose(p) ==
  p.valid => /\ Blank \notin {p.times[1], p.times[2]}
             /\ \E days \in -1 .. 1 :
                  (p.times[1] + days * Day) - p.times[2] \in -Tolerance .. Tolerance

Paired(ps) == \A i \in DOMAIN ps : PairedPose(ps[i])

\* A heading was received that the executor has not seen.
Unannounced == serial = "hpr" \/ \E i \in DOMAIN events : events[i].kind = "hpr"

LossRevokes ==
  ~serial_ready /\ serial # "lost" =>
    /\ events = <<>> => ~pose_valid /\ pending = <<>>
    /\ events # <<>> => events[Len(events)] = Invalidate

SilenceRevokes ==
  /\ stale => ~attitude
  /\ stale /\ ~Unannounced => /\ ~pose_valid
                              /\ latest_hpr.age >= Timeout
                              /\ executor = "drain" => latest_hpr.age > Timeout
  /\ executor = "idle" /\ latest_hpr.age >= Timeout => stale

Revoked == LossRevokes /\ SilenceRevokes

-----------------------------------------------------------------------------
(* Ages, filtered lists and published poses *)

LEMMA Ages ==
  /\ MaxAge \in Nat /\ Timeout \in Nat \ {0} /\ Tolerance \in Nat \ {0} /\ Day \in Nat \ {0}
  /\ Timeout < MaxAge /\ Tolerance < MaxAge
BY PoseAssumption DEF MaxAge

\* Nothing but the age of a sentence changes, and ages keep their order.
LEMMA OlderSentence ==
  ASSUME NEW r \in Sentence
  PROVE  /\ Older(r) \in Sentence
         /\ Older(r).id = r.id /\ Older(r).utc = r.utc /\ Older(r).ok = r.ok
         /\ Older(r).age = (IF r.age < MaxAge THEN r.age + 1 ELSE r.age)
BY Ages DEF Sentence, Older

LEMMA NoHprSentence == NoHpr \in Sentence /\ NoHpr.age = 0 /\ NoHpr.ok = FALSE
BY Ages DEF NoHpr, Sentence, Blank

\* The last of the matching positions, 0 when there is none.
LEMMA LastPlace ==
  ASSUME NEW N \in Nat, NEW S \in SUBSET (1 .. N)
  PROVE  /\ Max(S \cup {0}) \in 0 .. N
         /\ \A i \in S : i <= Max(S \cup {0})
<1> DEFINE T == {N - i : i \in S \cup {0}}
<1>1. T \in SUBSET Nat /\ T # {}
  OBVIOUS
<1>2. PICK x \in T : \A y \in T : x <= y
  BY <1>1, LeastNumber
<1>3. PICK m \in S \cup {0} : x = N - m
  BY <1>2
<1>4. \A i \in S \cup {0} : m >= i
  <2> TAKE i \in S \cup {0}
  <2>1. N - i \in T
    OBVIOUS
  <2>2. m \in 0 .. N /\ i \in 0 .. N
    OBVIOUS
  <2>3. N - m <= N - i
    <3> HIDE DEF T
    <3>1. QED
      BY <1>2, <1>3, <2>1
  <2>4. QED
    BY <2>2, <2>3
<1>5. \E k \in S \cup {0} : \A i \in S \cup {0} : k >= i
  BY <1>4
<1>6. /\ Max(S \cup {0}) \in S \cup {0}
      /\ \A i \in S \cup {0} : Max(S \cup {0}) >= i
  BY <1>5 DEF Max
<1> DEFINE k == Max(S \cup {0})
<1> HIDE DEF k
<1>7. k \in S \cup {0} /\ \A i \in S : k >= i
  BY <1>6 DEF k
<1>8. k \in 0 .. N
  BY <1>7
<1>9. ASSUME NEW i \in S PROVE i <= k
  <2>1. i \in 1 .. N /\ k >= i
    BY <1>7
  <2>2. QED
    BY <1>8, <2>1
<1>10. QED
  BY <1>8, <1>9 DEF k

LEMMA PosesOf ==
  ASSUME NEW q \in Seq(Sentence), NEW h \in Sentence
  PROVE  /\ Poses(q, h) \in Seq(PoseSet) /\ Len(Poses(q, h)) = Len(q)
         /\ \A i \in DOMAIN q : Poses(q, h)[i] = Pose(q[i], h)
<1>1. \A i \in 1 .. Len(q) : Pose(q[i], h) \in PoseSet
  <2> TAKE i \in 1 .. Len(q)
  <2>1. q[i] \in Sentence
    OBVIOUS
  <2>2. QED
    BY <2>1 DEF Sentence, Pose, PoseSet
<1>2. Poses(q, h) = [i \in 1 .. Len(q) |-> Pose(q[i], h)]
  BY DEF Poses
<1> HIDE DEF PoseSet
<1>3. QED
  BY <1>1, <1>2

\* Poses published for some positions of q, in their order, after those of ps.
LEMMA Published ==
  ASSUME NEW ps \in Seq(PoseSet), NEW q \in Seq(Sentence), NEW S \in SUBSET DOMAIN q,
         NEW h \in Sentence,
         Ordered(ps), Rising(q), Before(ps, q)
  PROVE  LET out == ps \o Poses(Picked(q, S), h)
         IN  /\ out \in Seq(PoseSet)
             /\ Ordered(out)
             /\ \A k \in DOMAIN out : \/ k \in DOMAIN ps /\ out[k] = ps[k]
                                      \/ \E i \in S : out[k] = Pose(q[i], h)
<1> DEFINE p == Picked(q, S)
           new == Poses(p, h)
           out == ps \o new
<1>1. p \in Seq(Sentence)
  BY PickedItems
<1>2. PICK f \in [DOMAIN p -> S] :
        /\ \A k \in DOMAIN p : p[k] = q[f[k]]
        /\ \A j, k \in DOMAIN p : j < k => f[j] < f[k]
  BY PickedItems
<1> HIDE DEF p
<1>3. new \in Seq(PoseSet) /\ Len(new) = Len(p) /\ \A i \in DOMAIN p : new[i] = Pose(p[i], h)
  BY <1>1, PosesOf
<1> HIDE DEF new
<1>4. out \in Seq(PoseSet) /\ Len(out) = Len(ps) + Len(new)
      /\ \A k \in DOMAIN out : out[k] = IF k <= Len(ps) THEN ps[k] ELSE new[k - Len(ps)]
  <2> DEFINE E == PoseSet
  <2> HIDE DEF E
  <2>1. ps \in Seq(E) /\ new \in Seq(E)
    BY <1>3 DEF E
  <2>2. out \in Seq(E) /\ Len(out) = Len(ps) + Len(new)
        /\ \A k \in DOMAIN out : out[k] = IF k <= Len(ps) THEN ps[k] ELSE new[k - Len(ps)]
    BY <2>1
  <2>3. QED
    BY <2>2 DEF E
<1> HIDE DEF out
<1>5. ASSUME NEW k \in DOMAIN out, k > Len(ps)
      PROVE  /\ k - Len(ps) \in DOMAIN p
             /\ f[k - Len(ps)] \in S
             /\ out[k] = Pose(q[f[k - Len(ps)]], h)
             /\ out[k].gga = q[f[k - Len(ps)]].id
  <2>1. k - Len(ps) \in DOMAIN p
    BY <1>1, <1>3, <1>4, <1>5
  <2>2. out[k] = new[k - Len(ps)]
    BY <1>4, <1>5
  <2>3. out[k] = Pose(q[f[k - Len(ps)]], h)
    BY <1>2, <1>3, <2>1, <2>2
  <2>4. QED
    BY <1>2, <2>1, <2>3 DEF Pose
<1>6. ASSUME NEW i \in DOMAIN out, NEW j \in DOMAIN out, i < j PROVE out[i].gga < out[j].gga
  <2>0. i \in Nat /\ j \in Nat /\ Len(ps) \in Nat
    BY <1>4
  <2>1. CASE j <= Len(ps)
    <3>1. i \in DOMAIN ps /\ j \in DOMAIN ps /\ out[i] = ps[i] /\ out[j] = ps[j]
      BY <1>4, <1>6, <2>0, <2>1
    <3>2. QED
      BY <1>6, <3>1 DEF Ordered
  <2>2. CASE i <= Len(ps) /\ j > Len(ps)
    <3>1. i \in DOMAIN ps /\ out[i] = ps[i]
      BY <1>4, <2>0, <2>2
    <3>2. out[j].gga = q[f[j - Len(ps)]].id /\ f[j - Len(ps)] \in DOMAIN q
      BY <1>5, <2>2
    <3>3. QED
      BY <3>1, <3>2 DEF Before
  <2>3. CASE i > Len(ps)
    <3> DEFINE a == i - Len(ps)
               b == j - Len(ps)
    <3>1. /\ a \in DOMAIN p /\ f[a] \in S /\ out[i].gga = q[f[a]].id
          /\ b \in DOMAIN p /\ f[b] \in S /\ out[j].gga = q[f[b]].id
      BY <1>5, <1>6, <2>0, <2>3
    <3>2. a < b
      BY <1>6, <2>0
    <3>3. f[a] < f[b]
      BY <1>2, <3>1, <3>2
    <3>4. QED
      BY <3>1, <3>3 DEF Rising
  <2>4. QED
    BY <1>6, <2>0, <2>1, <2>2, <2>3
<1>7. ASSUME NEW k \in DOMAIN out
      PROVE  \/ k \in DOMAIN ps /\ out[k] = ps[k]
             \/ \E i \in S : out[k] = Pose(q[i], h)
  <2>1. CASE k <= Len(ps)
    BY <1>4, <2>1
  <2>2. CASE k > Len(ps)
    BY <1>5, <2>2
  <2>3. QED
    BY <1>4, <2>1, <2>2
<1>8. QED
  BY <1>4, <1>6, <1>7 DEF out, new, p, Ordered

\* What Near says of two times of the day, also with midnight between them.
LEMMA NearTimes ==
  ASSUME NEW a \in 0 .. Day, NEW b \in 0 .. Day, Near(a, b)
  PROVE  /\ Blank \notin {a, b}
         /\ \E days \in -1 .. 1 : (a + days * Day) - b \in -Tolerance .. Tolerance
<1> DEFINE d == IF a < b THEN b - a ELSE a - b
<1>1. a # Blank /\ b # Blank /\ Min({d, Day - d}) <= Tolerance
  BY DEF Near
<1>2. d \in 0 .. Day /\ Day - d \in 0 .. Day
  BY Ages
<1>3. Min({d, Day - d}) \in {d, Day - d}
  <2>1. \E x \in {d, Day - d} : \A y \in {d, Day - d} : x <= y
    <3>1. CASE d <= Day - d
      BY <1>2, <3>1
    <3>2. CASE Day - d <= d
      BY <1>2, <3>2
    <3>3. QED
      BY <1>2, <3>1, <3>2, Ages
  <2> HIDE DEF d
  <2>2. QED
    BY <2>1 DEF Min
<1>4. d <= Tolerance \/ Day - d <= Tolerance
  BY <1>1, <1>3
<1>5. /\ (a + 0 * Day) - b = a - b
      /\ (a + 1 * Day) - b = a - b + Day
      /\ (a + (-1) * Day) - b = a - b - Day
  BY Ages
<1>6. CASE d <= Tolerance
  <2>1. (a + 0 * Day) - b \in -Tolerance .. Tolerance
    BY <1>5, <1>6, Ages
  <2>2. 0 \in -1 .. 1
    OBVIOUS
  <2>3. QED
    BY <1>1, <2>1, <2>2
<1>7. CASE Day - d <= Tolerance /\ a < b
  <2>1. (a + 1 * Day) - b \in -Tolerance .. Tolerance
    BY <1>2, <1>5, <1>7, Ages
  <2>2. 1 \in -1 .. 1
    OBVIOUS
  <2>3. QED
    BY <1>1, <2>1, <2>2
<1>8. CASE Day - d <= Tolerance /\ ~(a < b)
  <2>1. (a + (-1) * Day) - b \in -Tolerance .. Tolerance
    BY <1>2, <1>5, <1>8, Ages
  <2>2. -1 \in -1 .. 1
    OBVIOUS
  <2>3. QED
    BY <1>1, <2>1, <2>2
<1>9. QED
  BY <1>4, <1>6, <1>7, <1>8

\* Whether the last pose is valid, after poses went out for q.
LEMMA ValidPose ==
  ASSUME pose_valid \in BOOLEAN, NEW q \in Seq(Sentence), NEW h \in Sentence
  PROVE  /\ ValidAfter(Poses(q, h)) \in BOOLEAN
         /\ q = <<>> => ValidAfter(Poses(q, h)) = pose_valid
         /\ ~h.ok /\ ~pose_valid => ~ValidAfter(Poses(q, h))
<1> DEFINE out == Poses(q, h)
<1>1. out \in Seq(PoseSet) /\ Len(out) = Len(q) /\ \A i \in DOMAIN q : out[i] = Pose(q[i], h)
  BY PosesOf
<1> HIDE DEF out
<1>2. CASE q = <<>>
  <2>1. out = <<>>
    BY <1>1, <1>2
  <2>2. QED
    BY <1>2, <2>1 DEF ValidAfter, out
<1>3. CASE q # <<>>
  <2>1. Len(q) \in DOMAIN q /\ q[Len(q)] \in Sentence
    BY <1>3
  <2>2. out # <<>> /\ out[Len(out)] = Pose(q[Len(q)], h)
    BY <1>1, <2>1
  <2>3. ValidAfter(out) = Pose(q[Len(q)], h).valid
    BY <2>2 DEF ValidAfter, Last
  <2>4. Pose(q[Len(q)], h).valid = (q[Len(q)].ok /\ h.ok)
    BY DEF Pose
  <2>5. q[Len(q)].ok \in BOOLEAN /\ h.ok \in BOOLEAN
    BY <2>1 DEF Sentence
  <2>6. QED
    BY <1>3, <2>3, <2>4, <2>5 DEF out
<1>4. QED
  BY <1>2, <1>3

-----------------------------------------------------------------------------
(* What matching and expiring leave *)

\* What holds of the poses out and the positions rest after a step, given what held of
\* ps and q.
Advanced(ps, q, out, rest) ==
  /\ out \in Seq(PoseSet) /\ rest \in Seq(Sentence)
  /\ WorkedOff(out, rest)
  /\ Paired(ps) => Paired(out)
  /\ \A n \in Int : UpTo(ps, q, n) => UpTo(out, rest, n)

\* The places S of q went out, with h, and rest holds places after them.
LEMMA Advance ==
  ASSUME NEW ps \in Seq(PoseSet), NEW q \in Seq(Sentence), NEW h \in Sentence,
         NEW S \in SUBSET DOMAIN q, NEW rest \in Seq(Sentence), NEW f \in [DOMAIN rest -> DOMAIN q],
         WorkedOff(ps, q),
         \A k \in DOMAIN rest : rest[k] = q[f[k]],
         \A j, k \in DOMAIN rest : j < k => f[j] < f[k],
         \A i \in S : \A k \in DOMAIN rest : i < f[k],
         \A i \in S : PairedPose(Pose(q[i], h))
  PROVE  Advanced(ps, q, ps \o Poses(Picked(q, S), h), rest)
<1> DEFINE out == ps \o Poses(Picked(q, S), h)
<1>1. /\ out \in Seq(PoseSet) /\ Ordered(out)
      /\ \A k \in DOMAIN out : \/ k \in DOMAIN ps /\ out[k] = ps[k]
                               \/ \E i \in S : out[k] = Pose(q[i], h)
  BY Published DEF WorkedOff
<1> HIDE DEF out
<1>2. Rising(rest) /\ Aging(rest)
  BY DEF WorkedOff, Rising, Aging
<1>3. ASSUME NEW k \in DOMAIN out, NEW j \in DOMAIN rest PROVE out[k].gga < rest[j].id
  <2>1. CASE k \in DOMAIN ps /\ out[k] = ps[k]
    BY <2>1 DEF WorkedOff, Before
  <2>2. CASE \E i \in S : out[k] = Pose(q[i], h)
    BY <2>2 DEF WorkedOff, Rising, Pose
  <2>3. QED
    BY <1>1, <2>1, <2>2
<1>4. ASSUME Paired(ps), NEW k \in DOMAIN out PROVE PairedPose(out[k])
  BY <1>1, <1>4 DEF Paired
<1>5. ASSUME NEW n \in Int, UpTo(ps, q, n) PROVE UpTo(out, rest, n)
  <2>1. ASSUME NEW k \in DOMAIN out PROVE out[k].gga <= n
    <3>1. CASE k \in DOMAIN ps /\ out[k] = ps[k]
      BY <1>5, <3>1 DEF UpTo
    <3>2. CASE \E i \in S : out[k] = Pose(q[i], h)
      BY <1>5, <3>2 DEF UpTo, Pose
    <3>3. QED
      BY <1>1, <3>1, <3>2
  <2>2. QED
    BY <1>5, <2>1 DEF UpTo
<1>6. WorkedOff(out, rest)
  BY <1>1, <1>2, <1>3 DEF WorkedOff, Before
<1>7. Paired(ps) => Paired(out)
  BY <1>4 DEF Paired
<1>8. QED
  BY <1>1, <1>5, <1>6, <1>7 DEF Advanced, out

LEMMA MatchAdvances ==
  ASSUME ExecutorShape, NEW ggas \in Seq(Sentence), NEW hpr \in Sentence,
         WorkedOff(poses, ggas), MatchPending(ggas, hpr)
  PROVE  /\ Advanced(poses, ggas, poses', pending')
         /\ pose_valid' \in BOOLEAN
         /\ ggas = <<>> => pending' = <<>> /\ pose_valid' = pose_valid
<1> DEFINE S == Matched(ggas, hpr)
           last == Max(S \cup {0})
           rest == SubSeq(ggas, 1 + last, Len(ggas))
<1>1. S \in SUBSET (1 .. Len(ggas)) /\ DOMAIN ggas = 1 .. Len(ggas) /\ Len(ggas) \in Nat
  BY DEF Matched
<1>2. last \in 0 .. Len(ggas) /\ \A i \in S : i <= last
  <2> HIDE DEF S
  <2>1. QED
    BY <1>1, LastPlace
<1>3. /\ poses' = poses \o Poses(Picked(ggas, S), hpr)
      /\ pose_valid' = ValidAfter(Poses(Picked(ggas, S), hpr))
      /\ pending' = rest
  BY DEF MatchPending, PublishLocalPoses
<1>4. \A i \in S : PairedPose(Pose(ggas[i], hpr))
  <2> TAKE i \in S
  <2>1. i \in DOMAIN ggas /\ Near(ggas[i].utc, hpr.utc)
    BY DEF Matched
  <2>2. ggas[i] \in Sentence
    BY <2>1
  <2>3. ggas[i].utc \in 0 .. Day /\ hpr.utc \in 0 .. Day
    BY <2>2 DEF Sentence
  <2>4. /\ Blank \notin {ggas[i].utc, hpr.utc}
        /\ \E days \in -1 .. 1 : (ggas[i].utc + days * Day) - hpr.utc \in -Tolerance .. Tolerance
    BY <2>1, <2>3, NearTimes
  <2>5. Pose(ggas[i], hpr).times = <<ggas[i].utc, hpr.utc>>
    BY DEF Pose
  <2>6. QED
    BY <2>4, <2>5 DEF PairedPose
<1> HIDE DEF S, last
<1>5. /\ rest \in Seq(Sentence) /\ DOMAIN rest = 1 .. (Len(ggas) - last)
      /\ \A k \in DOMAIN rest : rest[k] = ggas[last + k]
  <2> DEFINE E == Sentence
  <2> HIDE DEF E
  <2>1. ggas \in Seq(E)
    BY DEF E
  <2>2. /\ rest \in Seq(E) /\ DOMAIN rest = 1 .. (Len(ggas) - last)
        /\ \A k \in DOMAIN rest : rest[k] = ggas[last + k]
    BY <1>2, <2>1
  <2>3. QED
    BY <2>2 DEF E
<1> DEFINE f == [k \in DOMAIN rest |-> last + k]
<1>6. /\ f \in [DOMAIN rest -> DOMAIN ggas]
      /\ \A k \in DOMAIN rest : rest[k] = ggas[f[k]]
      /\ \A j, k \in DOMAIN rest : j < k => f[j] < f[k]
      /\ \A i \in S : \A k \in DOMAIN rest : i < f[k]
  <2> HIDE DEF rest
  <2>1. \A k \in DOMAIN rest : last + k \in DOMAIN ggas
    BY <1>1, <1>2, <1>5
  <2>2. \A j, k \in DOMAIN rest : j < k => last + j < last + k
    BY <1>2, <1>5
  <2>3. \A i \in S : \A k \in DOMAIN rest : i < last + k
    BY <1>1, <1>2, <1>5
  <2>4. QED
    BY <1>5, <2>1, <2>2, <2>3
<1>7. poses \in Seq(PoseSet)
  BY DEF ExecutorShape
<1>8. Advanced(poses, ggas, poses \o Poses(Picked(ggas, S), hpr), rest)
  <2> HIDE DEF rest, f
  <2>1. QED
    BY <1>1, <1>4, <1>5, <1>6, <1>7, Advance
<1>9. Picked(ggas, S) \in Seq(Sentence)
  BY <1>1, PickedItems
<1>10. pose_valid \in BOOLEAN
  BY DEF ExecutorShape
<1>11. pose_valid' \in BOOLEAN
  BY <1>3, <1>9, <1>10, ValidPose
<1>12. ASSUME ggas = <<>> PROVE pending' = <<>> /\ pose_valid' = pose_valid
  <2>1. last = 0 /\ Len(ggas) = 0
    BY <1>2, <1>12
  <2>2. rest = <<>>
    BY <1>5, <2>1
  <2>3. Picked(ggas, S) = <<>>
    <3>1. S = {}
      BY <1>1, <2>1
    <3>2. PICK g \in [DOMAIN Picked(ggas, S) -> S] : TRUE
      BY <1>1, PickedItems
    <3>3. DOMAIN Picked(ggas, S) = {}
      BY <3>1, <3>2
    <3>4. QED
      BY <1>9, <3>3
  <2>4. QED
    BY <1>3, <1>9, <1>10, <2>2, <2>3, ValidPose
<1>13. QED
  BY <1>3, <1>8, <1>11, <1>12

\* Whatever expires is older than what stays.
LEMMA TickAdvances ==
  ASSUME ExecutorShape, WorkedOff(poses, pending), TickEnds
  PROVE  /\ Advanced(poses, pending, poses', pending')
         /\ pose_valid' \in BOOLEAN
         /\ pending = <<>> => pending' = <<>>
         /\ ~pose_valid => ~pose_valid'
<1> DEFINE S == Expired
           T == DOMAIN pending \ S
           rest == Picked(pending, T)
<1>1. /\ pending \in Seq(Sentence) /\ poses \in Seq(PoseSet) /\ pose_valid \in BOOLEAN
      /\ S \in SUBSET DOMAIN pending /\ T \in SUBSET DOMAIN pending
  BY DEF ExecutorShape, Expired
<1>2. \A i \in DOMAIN pending : pending[i].age \in Nat
  <2> TAKE i \in DOMAIN pending
  <2>1. pending[i] \in Sentence
    BY <1>1
  <2>2. QED
    BY <2>1, Ages DEF Sentence
<1>3. \A i \in S : \A j \in T : i < j
  <2> TAKE i \in S
  <2> TAKE j \in T
  <2>1. pending[i].age >= Tolerance /\ ~(pending[j].age >= Tolerance)
    BY DEF Expired
  <2>2. i \in DOMAIN pending /\ j \in DOMAIN pending
    BY DEF Expired
  <2>3. i \in Int /\ j \in Int
    BY <1>1, <2>2
  <2>4. j < i => pending[j].age >= pending[i].age
    BY <2>2 DEF WorkedOff, Aging
  <2>5. i # j
    BY <2>1
  <2>6. QED
    BY <1>2, <2>1, <2>2, <2>3, <2>4, <2>5, Ages
<1>4. rest \in Seq(Sentence)
  BY <1>1, PickedItems
<1>5. PICK f \in [DOMAIN rest -> T] :
        /\ \A k \in DOMAIN rest : rest[k] = pending[f[k]]
        /\ \A j, k \in DOMAIN rest : j < k => f[j] < f[k]
  BY <1>1, PickedItems
<1>6. NoHpr \in Sentence /\ NoHpr.ok = FALSE
  BY NoHprSentence
<1>7. \A i \in S : PairedPose(Pose(pending[i], NoHpr))
  BY <1>6 DEF PairedPose, Pose
<1>8. /\ poses' = poses \o Poses(Picked(pending, S), NoHpr)
      /\ pose_valid' = (~TimedOut /\ ValidAfter(Poses(Picked(pending, S), NoHpr)))
      /\ pending' = rest
  BY DEF TickEnds
<1> HIDE DEF S, T
<1>9. Advanced(poses, pending, poses \o Poses(Picked(pending, S), NoHpr), rest)
  <2> HIDE DEF rest
  <2>1. f \in [DOMAIN rest -> DOMAIN pending]
    BY <1>1, <1>5
  <2>2. \A i \in S : \A k \in DOMAIN rest : i < f[k]
    BY <1>3, <1>5
  <2>3. QED
    BY <1>1, <1>4, <1>5, <1>6, <1>7, <2>1, <2>2, Advance
<1>10. Picked(pending, S) \in Seq(Sentence)
  BY <1>1, PickedItems
<1>11. /\ ValidAfter(Poses(Picked(pending, S), NoHpr)) \in BOOLEAN
       /\ ~pose_valid => ~ValidAfter(Poses(Picked(pending, S), NoHpr))
  BY <1>1, <1>6, <1>10, ValidPose
<1>12. ASSUME pending = <<>> PROVE rest = <<>>
  <2>1. DOMAIN pending = {}
    BY <1>12
  <2>2. DOMAIN rest = {}
    BY <1>1, <1>5, <2>1
  <2> HIDE DEF rest
  <2>3. QED
    BY <1>4, <2>2
<1>13. QED
  BY <1>8, <1>9, <1>11, <1>12

-----------------------------------------------------------------------------
(* The steps of the executor *)

\* The event drained, and the ones left.
LEMMA FirstEvent ==
  ASSUME NEW es \in Seq(Event), es # <<>>
  PROVE  /\ Head(es) = es[1] /\ Head(es) \in Event /\ 1 \in DOMAIN es
         /\ Tail(es) \in Seq(Event) /\ Len(Tail(es)) = Len(es) - 1
         /\ DOMAIN Tail(es) = 1 .. (Len(es) - 1)
         /\ \A i \in DOMAIN Tail(es) : i + 1 \in DOMAIN es /\ i + 1 > 1 /\ Tail(es)[i] = es[i + 1]
<1> DEFINE E == Event
<1> HIDE DEF E
<1>1. es \in Seq(E)
  BY DEF E
<1>2. /\ Head(es) = es[1] /\ Head(es) \in E /\ 1 \in DOMAIN es
      /\ Tail(es) \in Seq(E) /\ Len(Tail(es)) = Len(es) - 1
      /\ DOMAIN Tail(es) = 1 .. (Len(es) - 1)
      /\ \A i \in DOMAIN Tail(es) : i + 1 \in DOMAIN es /\ i + 1 > 1 /\ Tail(es)[i] = es[i + 1]
  BY <1>1
<1>3. QED
  BY <1>2 DEF E

\* What is left queued stays in order, when the step brought out nothing but the event.
LEMMA QueuedTail ==
  ASSUME NEW es \in Seq(Event), es # <<>>, NEW ps, NEW q, NEW out, NEW rest, NEW n \in Int,
         Queued(es, ps, q, n),
         \A m \in Int : UpTo(ps, q, m) /\ (Head(es).kind = "gga" => Head(es).data.id <= m) =>
                          UpTo(out, rest, m)
  PROVE  Queued(Tail(es), out, rest, n)
<1>1. /\ Head(es) = es[1] /\ 1 \in DOMAIN es /\ Len(es) \in Nat
      /\ DOMAIN Tail(es) = 1 .. (Len(es) - 1)
      /\ \A i \in DOMAIN Tail(es) : i + 1 \in DOMAIN es /\ i + 1 > 1 /\ Tail(es)[i] = es[i + 1]
  BY FirstEvent
<1>2. ASSUME NEW i \in DOMAIN es PROVE es[i].data.id \in Nat
  <2>1. es[i] \in Event
    OBVIOUS
  <2>2. QED
    BY <2>1 DEF Event, Sentence
<1>3. ASSUME NEW i \in DOMAIN Tail(es), Tail(es)[i].kind = "gga"
      PROVE  Tail(es)[i].data.id <= n /\ UpTo(out, rest, Tail(es)[i].data.id - 1)
  <2> DEFINE d == es[i + 1].data.id
  <2>1. i + 1 \in DOMAIN es /\ i + 1 > 1 /\ Tail(es)[i] = es[i + 1] /\ es[i + 1].kind = "gga"
    BY <1>1, <1>3
  <2>2. d <= n /\ UpTo(ps, q, d - 1) /\ d \in Nat
    BY <1>2, <2>1 DEF Queued
  <2>3. Head(es).kind = "gga" => Head(es).data.id < d
    BY <1>1, <2>1 DEF Queued
  <2>4. Head(es).data.id \in Nat
    BY <1>1, <1>2
  <2> HIDE DEF d
  <2>5. UpTo(out, rest, d - 1)
    BY <2>2, <2>3, <2>4
  <2>6. QED
    BY <2>1, <2>2, <2>5 DEF d
<1>4. ASSUME NEW i \in DOMAIN Tail(es), NEW j \in DOMAIN Tail(es), i < j,
             Tail(es)[i].kind = "gga", Tail(es)[j].kind = "gga"
      PROVE  Tail(es)[i].data.id < Tail(es)[j].data.id
  <2>1. i + 1 \in DOMAIN es /\ j + 1 \in DOMAIN es /\ i + 1 < j + 1
    BY <1>1, <1>4
  <2>2. QED
    BY <1>1, <1>4, <2>1 DEF Queued
<1>5. QED
  BY <1>3, <1>4 DEF Queued

\* A new position joins the pending ones.
LEMMA JoinPending ==
  ASSUME NEW ps, NEW q \in Seq(Sentence), NEW g \in Sentence,
         WorkedOff(ps, q), UpTo(ps, q, g.id - 1), g.age = 0, \A i \in DOMAIN ps : ps[i].gga \in Nat
  PROVE  /\ Append(q, g) \in Seq(Sentence)
         /\ WorkedOff(ps, Append(q, g))
         /\ \A n \in Int : UpTo(ps, q, n) /\ g.id <= n => UpTo(ps, Append(q, g), n)
<1> DEFINE a == Append(q, g)
<1>1. /\ a \in Seq(Sentence) /\ Len(a) = Len(q) + 1 /\ Len(q) \in Nat
      /\ DOMAIN a = 1 .. (Len(q) + 1) /\ DOMAIN q = 1 .. Len(q)
      /\ \A i \in DOMAIN a : a[i] = IF i = Len(q) + 1 THEN g ELSE q[i]
  <2> DEFINE E == Sentence
  <2> HIDE DEF E
  <2>1. q \in Seq(E) /\ g \in E
    BY DEF E
  <2>2. /\ a \in Seq(E) /\ Len(a) = Len(q) + 1 /\ Len(q) \in Nat
        /\ DOMAIN a = 1 .. (Len(q) + 1) /\ DOMAIN q = 1 .. Len(q)
        /\ \A i \in DOMAIN a : a[i] = IF i = Len(q) + 1 THEN g ELSE q[i]
    BY <2>1
  <2>3. QED
    BY <2>2 DEF E
<1> HIDE DEF a
<1>2. ASSUME NEW i \in DOMAIN q PROVE q[i].id \in Nat /\ q[i].age \in Nat /\ q[i].id < g.id
  <2>1. q[i] \in Sentence
    OBVIOUS
  <2>2. q[i].id \in Nat /\ q[i].age \in Nat /\ g.id \in Nat
    BY <2>1, Ages DEF Sentence
  <2>3. q[i].id <= g.id - 1
    BY DEF UpTo
  <2>4. QED
    BY <2>2, <2>3
<1>3. g.id \in Nat
  BY DEF Sentence
<1>4. ASSUME NEW i \in DOMAIN a, NEW j \in DOMAIN a, i < j
      PROVE  a[i].id < a[j].id /\ a[i].age >= a[j].age
  <2>1. i \in DOMAIN q /\ a[i] = q[i]
    BY <1>1, <1>4
  <2>2. CASE j = Len(q) + 1
    BY <1>1, <1>2, <2>1, <2>2
  <2>3. CASE j # Len(q) + 1
    <3>1. j \in DOMAIN q /\ a[j] = q[j]
      BY <1>1, <2>3
    <3>2. QED
      BY <1>4, <2>1, <3>1 DEF WorkedOff, Rising, Aging
  <2>4. QED
    BY <2>2, <2>3
<1>5. ASSUME NEW i \in DOMAIN ps, NEW j \in DOMAIN a PROVE ps[i].gga < a[j].id
  <2>1. CASE j = Len(q) + 1
    <3>1. ps[i].gga <= g.id - 1 /\ a[j] = g
      BY <1>1, <2>1 DEF UpTo
    <3>2. QED
      BY <1>3, <3>1
  <2>2. CASE j # Len(q) + 1
    <3>1. j \in DOMAIN q /\ a[j] = q[j]
      BY <1>1, <2>2
    <3>2. QED
      BY <3>1 DEF WorkedOff, Before
  <2>3. QED
    BY <2>1, <2>2
<1>6. ASSUME NEW n \in Int, UpTo(ps, q, n), g.id <= n PROVE UpTo(ps, a, n)
  BY <1>1, <1>6 DEF UpTo
<1>7. WorkedOff(ps, a)
  BY <1>4, <1>5 DEF WorkedOff, Rising, Aging, Before
<1>8. QED
  BY <1>1, <1>6, <1>7 DEF a

\* What draining an event does to the positions and the poses, whichever event it is.
LEMMA DrainAdvances ==
  ASSUME Shape, InOrder, Paired(poses), Drain
  PROVE  /\ poses' \in Seq(PoseSet) /\ pending' \in Seq(Sentence) /\ pose_valid' \in BOOLEAN
         /\ WorkedOff(poses', pending') /\ Paired(poses')
         /\ \A m \in Int :
              UpTo(poses, pending, m) /\ (Head(events).kind = "gga" => Head(events).data.id <= m) =>
                UpTo(poses', pending', m)
<1> DEFINE e == Head(events)
<1>1. /\ events \in Seq(Event) /\ events # <<>> /\ pending \in Seq(Sentence)
      /\ poses \in Seq(PoseSet) /\ pose_valid \in BOOLEAN /\ latest_hpr \in Sentence
  BY DEF Drain, Shape, QueueShape, ExecutorShape, SerialShape
<1>2. e = events[1] /\ e \in Event /\ 1 \in DOMAIN events
  BY <1>1, FirstEvent
<1> HIDE DEF e
<1>3. e.data \in Sentence
  BY <1>2 DEF Event
<1>4. WorkedOff(poses, pending)
  BY DEF InOrder
<1>5. CASE e.kind = "gga" /\ PublishGga(e.data)
  <2> DEFINE g == e.data
             ggas == Append(pending, g)
  <2>1. g.age = 0 /\ UpTo(poses, pending, g.id - 1)
    BY <1>2, <1>5 DEF Shape, QueueShape, InOrder, Queued
  <2>2. \A i \in DOMAIN poses : poses[i].gga \in Nat
    <3> TAKE i \in DOMAIN poses
    <3>1. poses[i] \in PoseSet
      BY <1>1
    <3>2. QED
      BY <3>1 DEF PoseSet
  <2> HIDE DEF g
  <2>3. /\ ggas \in Seq(Sentence) /\ WorkedOff(poses, ggas)
        /\ \A n \in Int : UpTo(poses, pending, n) /\ g.id <= n => UpTo(poses, ggas, n)
    BY <1>1, <1>3, <1>4, <2>1, <2>2, JoinPending DEF g
  <2> HIDE DEF ggas
  <2>4. \/ MatchPending(ggas, latest_hpr)
        \/ pending' = ggas /\ UNCHANGED <<poses, pose_valid>>
    BY <1>5 DEF PublishGga, g, ggas
  <2>5. Advanced(poses, ggas, poses', pending') /\ pose_valid' \in BOOLEAN
    <3>1. CASE MatchPending(ggas, latest_hpr)
      BY <1>1, <2>3, <3>1, MatchAdvances DEF Shape
    <3>2. CASE pending' = ggas /\ UNCHANGED <<poses, pose_valid>>
      BY <1>1, <2>3, <3>2 DEF Advanced
    <3>3. QED
      BY <2>4, <3>1, <3>2
  <2>6. QED
    BY <1>5, <2>3, <2>5 DEF Advanced, g, e
<1>6. CASE e.kind = "hpr" /\ MatchPending(pending, e.data)
  <2>1. Advanced(poses, pending, poses', pending') /\ pose_valid' \in BOOLEAN
    BY <1>1, <1>3, <1>4, <1>6, MatchAdvances DEF Shape
  <2>2. QED
    BY <2>1 DEF Advanced
<1>7. CASE LocalPoseInvalid
  <2>1. poses' = poses /\ pending' = <<>> /\ pose_valid' = FALSE
    BY <1>7 DEF LocalPoseInvalid
  <2>2. WorkedOff(poses, <<>>) /\ \A m \in Int : UpTo(poses, pending, m) => UpTo(poses, <<>>, m)
    BY <1>4 DEF WorkedOff, Before, Rising, Aging, UpTo
  <2>3. pending' \in Seq(Sentence) /\ poses' \in Seq(PoseSet) /\ pose_valid' \in BOOLEAN
    <3>1. <<>> \in Seq(Sentence)
      OBVIOUS
    <3>2. QED
      BY <1>1, <2>1, <3>1
  <2>4. WorkedOff(poses', pending')
    BY <2>1, <2>2
  <2>5. Paired(poses')
    BY <2>1
  <2>6. ASSUME NEW m \in Int, UpTo(poses, pending, m) PROVE UpTo(poses', pending', m)
    BY <2>1, <2>2, <2>6
  <2>7. QED
    BY <2>3, <2>4, <2>5, <2>6
<1>8. \/ e.kind = "gga" /\ PublishGga(e.data)
      \/ e.kind = "hpr" /\ MatchPending(pending, e.data)
      \/ LocalPoseInvalid
  BY DEF Drain, e
<1>9. QED
  BY <1>5, <1>6, <1>7, <1>8

LEMMA DrainStep ==
  ASSUME Shape, InOrder, Paired(poses), Drain
  PROVE  Shape' /\ InOrder' /\ Paired(poses)'
<1>1. /\ poses' \in Seq(PoseSet) /\ pending' \in Seq(Sentence) /\ pose_valid' \in BOOLEAN
      /\ WorkedOff(poses', pending') /\ Paired(poses')
      /\ \A m \in Int :
           UpTo(poses, pending, m) /\ (Head(events).kind = "gga" => Head(events).data.id <= m) =>
             UpTo(poses', pending', m)
  BY DrainAdvances
<1>2. /\ events \in Seq(Event) /\ events # <<>> /\ events' = Tail(events)
      /\ sentences' = sentences /\ sentences \in Int
  BY DEF Drain, serialVars, Shape, QueueShape, SerialShape
<1>3. Queued(events', poses', pending', sentences')
  <2>1. Queued(events, poses, pending, sentences)
    BY DEF InOrder
  <2>2. Queued(Tail(events), poses', pending', sentences)
    BY <1>1, <1>2, <2>1, QueuedTail
  <2>3. QED
    BY <1>2, <2>2
<1>4. UpTo(poses', pending', sentences')
  <2>1. 1 \in DOMAIN events /\ Head(events) = events[1]
    BY <1>2, FirstEvent
  <2>2. Head(events).kind = "gga" => Head(events).data.id <= sentences
    BY <2>1 DEF InOrder, Queued
  <2>3. UpTo(poses, pending, sentences)
    BY DEF InOrder
  <2>4. QED
    BY <1>1, <1>2, <2>2, <2>3
<1>5. InOrder'
  BY <1>1, <1>3, <1>4 DEF InOrder
<1>6. SerialShape'
  BY DEF Shape, SerialShape, Drain, serialVars
<1>7. QueueShape'
  <2>1. /\ Tail(events) \in Seq(Event)
        /\ \A i \in DOMAIN Tail(events) : i + 1 \in DOMAIN events /\ Tail(events)[i] = events[i + 1]
    BY <1>2, FirstEvent
  <2>2. QED
    BY <1>2, <2>1 DEF Shape, QueueShape
<1>8. ExecutorShape'
  <2>1. drained' \in 0 .. MaxDrain
    BY PoseAssumption DEF Drain, MayDrain, Shape, ExecutorShape
  <2>2. stale' \in BOOLEAN /\ attitude' \in BOOLEAN /\ outdated' \in BOOLEAN
    <3> DEFINE e == Head(events)
    <3>1. e \in Event
      BY <1>2, FirstEvent
    <3> HIDE DEF e
    <3>2. e.data.ok \in BOOLEAN
      BY <3>1 DEF Event, Sentence
    <3>3. /\ stale \in BOOLEAN /\ attitude \in BOOLEAN /\ outdated \in BOOLEAN
      BY DEF Shape, ExecutorShape
    <3>4. PublishGga(e.data) \/ PublishHpr(e.data) \/ LocalPoseInvalid
      BY DEF Drain, e
    <3>5. CASE PublishGga(e.data)
      BY <3>3, <3>5 DEF PublishGga
    <3>6. CASE PublishHpr(e.data)
      BY <3>2, <3>3, <3>6 DEF PublishHpr
    <3>7. CASE LocalPoseInvalid
      BY <3>3, <3>7 DEF LocalPoseInvalid
    <3>8. QED
      BY <3>4, <3>5, <3>6, <3>7
  <2>3. executor' \in {"idle", "drain"}
    BY DEF Drain, Shape, ExecutorShape
  <2>4. QED
    BY <1>1, <2>1, <2>2, <2>3 DEF ExecutorShape
<1>9. QED
  BY <1>1, <1>5, <1>6, <1>7, <1>8 DEF Shape

LEMMA TickStep ==
  ASSUME Shape, InOrder, Paired(poses), TickEnds
  PROVE  Shape' /\ InOrder' /\ Paired(poses)'
<1>1. WorkedOff(poses, pending) /\ UpTo(poses, pending, sentences)
      /\ Queued(events, poses, pending, sentences) /\ sentences \in Int
  BY DEF InOrder, Shape, SerialShape
<1>2. Advanced(poses, pending, poses', pending') /\ pose_valid' \in BOOLEAN
  BY <1>1, TickAdvances DEF Shape
<1>3. events' = events /\ sentences' = sentences
  BY DEF TickEnds, serialVars
<1>4. ASSUME NEW i \in DOMAIN events, events[i].kind = "gga"
      PROVE  UpTo(poses', pending', events[i].data.id - 1)
  <2>1. events[i] \in Event
    BY DEF Shape, QueueShape
  <2>2. events[i].data.id \in Nat
    BY <2>1 DEF Event, Sentence
  <2> DEFINE m == events[i].data.id - 1
  <2>3. UpTo(poses, pending, m) /\ m \in Int
    BY <1>1, <1>4, <2>2 DEF Queued
  <2> HIDE DEF m
  <2>4. UpTo(poses', pending', m)
    BY <1>2, <2>3 DEF Advanced
  <2>5. QED
    BY <2>4 DEF m
<1>5. Queued(events', poses', pending', sentences')
  BY <1>1, <1>3, <1>4 DEF Queued
<1>6. UpTo(poses', pending', sentences') /\ WorkedOff(poses', pending') /\ Paired(poses')
      /\ poses' \in Seq(PoseSet) /\ pending' \in Seq(Sentence)
  BY <1>1, <1>2, <1>3 DEF Advanced
<1>7. SerialShape' /\ QueueShape'
  BY <1>3 DEF Shape, SerialShape, QueueShape, TickEnds, serialVars
<1>8. executor' \in {"idle", "drain"} /\ drained' \in 0 .. MaxDrain
  BY PoseAssumption DEF TickEnds
<1>9. stale' \in BOOLEAN /\ attitude' \in BOOLEAN /\ outdated' \in BOOLEAN
  BY DEF TickEnds, TimedOut, Shape, ExecutorShape
<1>10. ExecutorShape'
  BY <1>2, <1>6, <1>8, <1>9 DEF ExecutorShape
<1>11. QED
  BY <1>5, <1>6, <1>7, <1>10 DEF Shape, InOrder

-----------------------------------------------------------------------------
(* Time passes *)

LEMMA AgedQueue ==
  ASSUME Shape, Aged
  PROVE  /\ events' \in Seq(Event) /\ DOMAIN events' = DOMAIN events /\ Len(events') = Len(events)
         /\ \A i \in DOMAIN events : /\ events'[i].kind = events[i].kind
                                     /\ events[i].kind # "hpr" => events'[i] = events[i]
<1> DEFINE aged(i) == IF events[i].kind = "hpr" THEN [events[i] EXCEPT !.data = Older(@)]
                                                ELSE events[i]
<1>1. events \in Seq(Event)
  BY DEF Shape, QueueShape
<1>2. events' = [i \in DOMAIN events |-> aged(i)]
  BY DEF Aged
<1>3. ASSUME NEW i \in DOMAIN events
      PROVE  aged(i) \in Event /\ aged(i).kind = events[i].kind
  <2>1. events[i] \in Event
    BY <1>1
  <2>2. Older(events[i].data) \in Sentence
    BY <2>1, OlderSentence DEF Event
  <2>3. QED
    BY <2>1, <2>2 DEF Event
<1>4. \A i \in DOMAIN events : events[i].kind # "hpr" => aged(i) = events[i]
  OBVIOUS
<1> HIDE DEF aged
<1>5. DOMAIN events = 1 .. Len(events) /\ Len(events) \in Nat
  BY <1>1
<1> DEFINE E == Event
<1> HIDE DEF E
<1>6. [i \in 1 .. Len(events) |-> aged(i)] \in Seq(E)
  <2>1. \A i \in 1 .. Len(events) : aged(i) \in E
    BY <1>3, <1>5 DEF E
  <2>2. QED
    BY <1>5, <2>1
<1>7. events' \in Seq(E)
  BY <1>2, <1>5, <1>6
<1>8. QED
  BY <1>2, <1>3, <1>4, <1>5, <1>7 DEF E

LEMMA AgedPending ==
  ASSUME Shape, Aging(pending), Aged
  PROVE  /\ pending' \in Seq(Sentence) /\ DOMAIN pending' = DOMAIN pending
         /\ \A i \in DOMAIN pending : pending'[i].id = pending[i].id
         /\ Aging(pending')
<1> DEFINE aged(i) == Older(pending[i])
<1>1. pending \in Seq(Sentence)
  BY DEF Shape, ExecutorShape
<1>2. pending' = [i \in DOMAIN pending |-> aged(i)]
  BY DEF Aged
<1>3. ASSUME NEW i \in DOMAIN pending
      PROVE  /\ pending[i].age \in 0 .. MaxAge
             /\ aged(i) \in Sentence /\ aged(i).id = pending[i].id
             /\ aged(i).age = IF pending[i].age < MaxAge THEN pending[i].age + 1 ELSE pending[i].age
  <2>1. pending[i] \in Sentence
    BY <1>1
  <2>2. pending[i].age \in 0 .. MaxAge
    BY <2>1 DEF Sentence
  <2>3. QED
    BY <2>1, <2>2, OlderSentence
<1> HIDE DEF aged
<1>4. ASSUME NEW i \in DOMAIN pending, NEW j \in DOMAIN pending, i < j
      PROVE  aged(i).age >= aged(j).age
  BY <1>3, <1>4, Ages DEF Aging
<1>5. DOMAIN pending = 1 .. Len(pending) /\ Len(pending) \in Nat
  BY <1>1
<1> DEFINE E == Sentence
<1> HIDE DEF E
<1>6. [i \in 1 .. Len(pending) |-> aged(i)] \in Seq(E)
  <2>1. \A i \in 1 .. Len(pending) : aged(i) \in E
    BY <1>3, <1>5 DEF E
  <2>2. QED
    BY <1>5, <2>1
<1>7. pending' \in Seq(E)
  BY <1>2, <1>5, <1>6
<1>8. Aging(pending')
  BY <1>2, <1>4 DEF Aging
<1>9. QED
  BY <1>2, <1>3, <1>7, <1>8 DEF E

LEMMA AgedStep ==
  ASSUME Shape, InOrder, Paired(poses), Aged,
         UNCHANGED <<serial, serial_ready, sentences, losses, stale, attitude, pose_valid, poses,
                     outdated>>,
         executor' = "drain", drained' \in {0, drained}
  PROVE  Shape' /\ InOrder' /\ Paired(poses)'
<1>1. /\ events' \in Seq(Event) /\ DOMAIN events' = DOMAIN events
      /\ \A i \in DOMAIN events : /\ events'[i].kind = events[i].kind
                                  /\ events[i].kind # "hpr" => events'[i] = events[i]
  BY AgedQueue
<1>2. /\ pending' \in Seq(Sentence) /\ DOMAIN pending' = DOMAIN pending
      /\ \A i \in DOMAIN pending : pending'[i].id = pending[i].id
      /\ Aging(pending')
  BY AgedPending DEF InOrder, WorkedOff
<1>3. latest_hpr' \in Sentence
  <2>1. latest_hpr \in Sentence
    BY DEF Shape, SerialShape
  <2>2. Older(latest_hpr) \in Sentence
    BY <2>1, OlderSentence
  <2>3. QED
    BY <2>1, <2>2 DEF Aged
<1>4. SerialShape'
  BY <1>3 DEF Shape, SerialShape
<1>5. QueueShape'
  BY <1>1 DEF Shape, QueueShape
<1>6. ExecutorShape'
  <2>1. drained' \in 0 .. MaxDrain
    BY PoseAssumption DEF Shape, ExecutorShape
  <2>2. QED
    BY <1>2, <2>1 DEF Shape, ExecutorShape
<1>7. \A m \in Int : UpTo(poses, pending, m) => UpTo(poses, pending', m)
  BY <1>2 DEF UpTo
<1>8. WorkedOff(poses, pending')
  BY <1>2 DEF InOrder, WorkedOff, Rising, Before
<1>9. Queued(events', poses, pending', sentences)
  <2>1. ASSUME NEW i \in DOMAIN events, events[i].kind = "gga"
        PROVE  events[i].data.id <= sentences /\ UpTo(poses, pending', events[i].data.id - 1)
    <3>1. events[i] \in Event
      BY DEF Shape, QueueShape
    <3>2. events[i].data.id \in Nat
      BY <3>1 DEF Event, Sentence
    <3> DEFINE m == events[i].data.id - 1
    <3>3. events[i].data.id <= sentences /\ UpTo(poses, pending, m) /\ m \in Int
      BY <2>1, <3>2 DEF InOrder, Queued
    <3> HIDE DEF m
    <3>4. UpTo(poses, pending', m)
      BY <1>7, <3>3
    <3>5. QED
      BY <3>3, <3>4 DEF m
  <2>2. ASSUME NEW i \in DOMAIN events, NEW j \in DOMAIN events, i < j,
               events[i].kind = "gga", events[j].kind = "gga"
        PROVE  events[i].data.id < events[j].data.id
    BY <2>2 DEF InOrder, Queued
  <2>3. \A i \in DOMAIN events : events[i].kind = "gga" => events'[i] = events[i]
    BY <1>1
  <2>4. QED
    BY <1>1, <2>1, <2>2, <2>3 DEF Queued
<1>10. UpTo(poses, pending', sentences)
  BY <1>7 DEF InOrder, Shape, SerialShape
<1>11. QED
  BY <1>4, <1>5, <1>6, <1>8, <1>9, <1>10 DEF Shape, InOrder

-----------------------------------------------------------------------------
(* The steps of the serial worker *)

\* An event is queued behind the others.
LEMMA Announced ==
  ASSUME NEW es \in Seq(Event), NEW e \in Event
  PROVE  /\ Append(es, e) \in Seq(Event) /\ Len(Append(es, e)) = Len(es) + 1 /\ Len(es) \in Nat
         /\ DOMAIN Append(es, e) = 1 .. (Len(es) + 1) /\ DOMAIN es = 1 .. Len(es)
         /\ \A i \in DOMAIN es : Append(es, e)[i] = es[i]
         /\ Append(es, e)[Len(es) + 1] = e
         /\ Append(es, e) # <<>>
<1> DEFINE E == Event
<1> HIDE DEF E
<1>1. es \in Seq(E) /\ e \in E
  BY DEF E
<1>2. /\ Append(es, e) \in Seq(E) /\ Len(Append(es, e)) = Len(es) + 1 /\ Len(es) \in Nat
      /\ DOMAIN Append(es, e) = 1 .. (Len(es) + 1) /\ DOMAIN es = 1 .. Len(es)
      /\ \A i \in DOMAIN es : Append(es, e)[i] = es[i]
      /\ Append(es, e)[Len(es) + 1] = e
      /\ Append(es, e) # <<>>
  BY <1>1
<1>3. QED
  BY <1>2 DEF E

\* It leaves the positions in order, when it is none or the newest.
LEMMA QueuedAppend ==
  ASSUME NEW es \in Seq(Event), NEW e \in Event, NEW ps, NEW q, NEW n \in Nat, NEW m \in Nat,
         Queued(es, ps, q, n), UpTo(ps, q, n), n <= m,
         e.kind = "gga" => e.data.id = n + 1 /\ n + 1 <= m
  PROVE  Queued(Append(es, e), ps, q, m)
<1> DEFINE a == Append(es, e)
<1>1. /\ DOMAIN a = 1 .. (Len(es) + 1) /\ DOMAIN es = 1 .. Len(es) /\ Len(es) \in Nat
      /\ \A i \in DOMAIN es : a[i] = es[i]
      /\ a[Len(es) + 1] = e
  BY Announced
<1> HIDE DEF a
<1>2. ASSUME NEW i \in DOMAIN es, es[i].kind = "gga"
      PROVE  es[i].data.id <= n /\ es[i].data.id \in Nat /\ UpTo(ps, q, es[i].data.id - 1)
  <2>1. es[i] \in Event
    OBVIOUS
  <2>2. QED
    BY <1>2, <2>1 DEF Queued, Event, Sentence
<1>3. ASSUME NEW i \in DOMAIN a, a[i].kind = "gga"
      PROVE  a[i].data.id <= m /\ UpTo(ps, q, a[i].data.id - 1)
  <2>1. CASE i \in DOMAIN es
    <3>1. a[i] = es[i]
      BY <1>1, <2>1
    <3>2. es[i].data.id <= n /\ es[i].data.id \in Nat /\ UpTo(ps, q, es[i].data.id - 1)
      BY <1>2, <1>3, <2>1, <3>1
    <3>3. es[i].data.id <= m
      BY <3>2
    <3>4. QED
      BY <3>1, <3>2, <3>3
  <2>2. CASE i = Len(es) + 1
    <3>1. a[i].data.id = n + 1 /\ n + 1 <= m
      BY <1>1, <1>3, <2>2
    <3>2. (n + 1) - 1 = n
      OBVIOUS
    <3>3. QED
      BY <3>1, <3>2
  <2>3. QED
    BY <1>1, <2>1, <2>2
<1>4. ASSUME NEW i \in DOMAIN a, NEW j \in DOMAIN a, i < j, a[i].kind = "gga", a[j].kind = "gga"
      PROVE  a[i].data.id < a[j].data.id
  <2>1. i \in DOMAIN es /\ a[i] = es[i]
    BY <1>1, <1>4
  <2>2. CASE j \in DOMAIN es
    <3>1. a[j] = es[j]
      BY <1>1, <2>2
    <3>2. QED
      BY <1>4, <2>1, <2>2, <3>1 DEF Queued
  <2>3. CASE j = Len(es) + 1
    <3>1. a[j].data.id = n + 1
      BY <1>1, <1>4, <2>3
    <3>2. es[i].data.id <= n /\ es[i].data.id \in Nat
      BY <1>2, <1>4, <2>1
    <3>3. QED
      BY <2>1, <3>1, <3>2
  <2>4. QED
    BY <1>1, <2>2, <2>3
<1>5. QED
  BY <1>3, <1>4 DEF Queued, a

\* A step of the serial worker that may queue an event.
LEMMA SerialKeeps ==
  ASSUME Shape, InOrder, Paired(poses), SerialShape', UNCHANGED executorVars,
         sentences <= sentences',
         \/ events' = events
         \/ \E e \in Event : /\ events' = Append(events, e)
                             /\ e.kind = "gga" => /\ e.data.id = sentences + 1 /\ e.data.age = 0
                                                  /\ sentences + 1 <= sentences'
  PROVE  Shape' /\ InOrder' /\ Paired(poses)'
<1>1. /\ poses' = poses /\ pending' = pending /\ sentences \in Nat /\ sentences' \in Nat
      /\ events \in Seq(Event)
  BY PoseAssumption DEF executorVars, Shape, SerialShape, QueueShape
<1>2. WorkedOff(poses, pending) /\ UpTo(poses, pending, sentences)
      /\ Queued(events, poses, pending, sentences)
  BY DEF InOrder
<1>3. UpTo(poses, pending, sentences')
  <2> DEFINE m == sentences'
             n == sentences
  <2>1. n \in Nat /\ m \in Nat /\ n <= m /\ UpTo(poses, pending, n)
    BY <1>1, <1>2
  <2>2. \A i \in DOMAIN poses : poses[i].gga \in Nat
    <3> TAKE i \in DOMAIN poses
    <3>1. poses[i] \in PoseSet
      BY DEF Shape, ExecutorShape
    <3>2. QED
      BY <3>1 DEF PoseSet
  <2>3. \A i \in DOMAIN pending : pending[i].id \in Nat
    <3> TAKE i \in DOMAIN pending
    <3>1. pending[i] \in Sentence
      BY DEF Shape, ExecutorShape
    <3>2. QED
      BY <3>1 DEF Sentence
  <2> HIDE DEF m, n
  <2>4. UpTo(poses, pending, m)
    BY <2>1, <2>2, <2>3 DEF UpTo
  <2>5. QED
    BY <2>4 DEF m
<1>4. ExecutorShape'
  BY DEF executorVars, Shape, ExecutorShape
<1>5. QueueShape' /\ Queued(events', poses, pending, sentences')
  <2>1. CASE events' = events
    <3>1. QueueShape'
      BY <2>1 DEF Shape, QueueShape
    <3>2. ASSUME NEW i \in DOMAIN events, events[i].kind = "gga"
          PROVE  events[i].data.id <= sentences'
      <4> DEFINE m == sentences'
                 n == sentences
      <4>1. events[i] \in Event
        BY <1>1
      <4>2. events[i].data.id \in Nat /\ events[i].data.id <= n
        BY <1>2, <3>2, <4>1 DEF Event, Sentence, Queued
      <4>3. n \in Nat /\ m \in Nat /\ n <= m
        BY <1>1
      <4> HIDE DEF m, n
      <4>4. events[i].data.id <= m
        BY <4>2, <4>3
      <4>5. QED
        BY <4>4 DEF m
    <3>3. QED
      BY <1>2, <2>1, <3>1, <3>2 DEF Queued
  <2>2. ASSUME NEW e \in Event, events' = Append(events, e),
               e.kind = "gga" => /\ e.data.id = sentences + 1 /\ e.data.age = 0
                                 /\ sentences + 1 <= sentences'
        PROVE  QueueShape' /\ Queued(events', poses, pending, sentences')
    <3>1. /\ Append(events, e) \in Seq(Event) /\ Len(events) \in Nat
          /\ DOMAIN Append(events, e) = 1 .. (Len(events) + 1) /\ DOMAIN events = 1 .. Len(events)
          /\ \A i \in DOMAIN events : Append(events, e)[i] = events[i]
          /\ Append(events, e)[Len(events) + 1] = e
      BY <1>1, Announced
    <3>2. \A i \in DOMAIN Append(events, e) : i \in DOMAIN events \/ i = Len(events) + 1
      BY <3>1
    <3>3. QueueShape'
      BY <2>2, <3>1, <3>2 DEF Shape, QueueShape
    <3>4. Queued(Append(events, e), poses, pending, sentences')
      BY <1>1, <1>2, <2>2, QueuedAppend
    <3>5. QED
      BY <2>2, <3>3, <3>4
  <2>3. QED
    BY <2>1, <2>2
<1>6. QED
  BY <1>1, <1>2, <1>3, <1>4, <1>5 DEF Shape, InOrder

LEMMA SerialStep ==
  ASSUME Shape, InOrder, Paired(poses),
         \/ \E utc \in Times, ok \in BOOLEAN : ReceiveGga(utc, ok) \/ ReceiveHpr(utc, ok)
         \/ PortLost \/ PortBack \/ Announce
  PROVE  Shape' /\ InOrder' /\ Paired(poses)'
<1>1. /\ sentences \in 0 .. MaxSentences /\ losses \in 0 .. MaxLosses
      /\ MaxSentences \in Nat /\ MaxLosses \in Nat /\ latest_hpr \in Sentence
      /\ sentences <= sentences
  BY PoseAssumption DEF Shape, SerialShape
<1>2. SerialShape
  BY DEF Shape
<1>3. ASSUME NEW utc \in Times, NEW ok \in BOOLEAN, ReceiveGga(utc, ok)
      PROVE  Shape' /\ InOrder' /\ Paired(poses)'
  <2> DEFINE e == [kind |-> "gga",
                   data |-> [id |-> sentences', utc |-> utc, ok |-> ok, age |-> 0]]
  <2>1. sentences' = sentences + 1 /\ sentences < MaxSentences /\ events' = Append(events, e)
        /\ UNCHANGED <<executorVars, serial, serial_ready, latest_hpr, losses>>
    BY <1>3 DEF ReceiveGga
  <2>2. sentences + 1 \in 0 .. MaxSentences /\ sentences <= sentences + 1
        /\ sentences + 1 <= sentences + 1
    BY <1>1, <2>1
  <2>3. SerialShape'
    BY <1>2, <2>1, <2>2 DEF SerialShape
  <2>4. sentences <= sentences' /\ sentences + 1 <= sentences' /\ sentences' \in Nat
    BY <2>1, <2>2
  <2>5. e \in Event
    BY <2>4, PoseAssumption, Ages DEF Event, Sentence
  <2>6. e.kind = "gga" => /\ e.data.id = sentences + 1 /\ e.data.age = 0
                          /\ sentences + 1 <= sentences'
    BY <2>1, <2>4
  <2> HIDE DEF e
  <2>7. QED
    BY <2>1, <2>3, <2>4, <2>5, <2>6, SerialKeeps
<1>4. ASSUME NEW utc \in Times, NEW ok \in BOOLEAN, ReceiveHpr(utc, ok)
      PROVE  Shape' /\ InOrder' /\ Paired(poses)'
  <2>1. /\ sentences' = sentences + 1 /\ sentences < MaxSentences /\ serial' = "hpr" /\ serial_ready
        /\ latest_hpr' = [id |-> sentences', utc |-> utc, ok |-> ok, age |-> 0]
        /\ UNCHANGED <<executorVars, events, serial_ready, losses>>
    BY <1>4 DEF ReceiveHpr
  <2>2. sentences + 1 \in 0 .. MaxSentences /\ sentences <= sentences + 1
    BY <1>1, <2>1
  <2>3. sentences' \in 0 .. MaxSentences /\ sentences <= sentences'
    BY <2>1, <2>2
  <2>4. latest_hpr' \in Sentence
    BY <1>1, <2>1, <2>3, PoseAssumption, Ages DEF Sentence
  <2>5. SerialShape'
    BY <1>2, <2>1, <2>3, <2>4 DEF SerialShape
  <2>6. QED
    BY <2>1, <2>3, <2>5, SerialKeeps
<1>5. CASE AnnounceHpr
  <2> DEFINE e == [kind |-> "hpr", data |-> latest_hpr]
  <2>1. e \in Event /\ e.kind # "gga"
    BY <1>1 DEF Event
  <2>2. SerialShape' /\ sentences' = sentences /\ UNCHANGED executorVars
        /\ events' = Append(events, e)
    BY <1>2, <1>5 DEF AnnounceHpr, SerialShape
  <2> HIDE DEF e
  <2>3. sentences <= sentences'
    BY <1>1, <2>2
  <2>4. QED
    BY <2>1, <2>2, <2>3, SerialKeeps
<1>6. CASE AnnounceLoss
  <2>1. Invalidate \in Event /\ Invalidate.kind # "gga"
    BY NoHprSentence DEF Invalidate, Event
  <2>2. SerialShape' /\ sentences' = sentences /\ UNCHANGED executorVars
        /\ events' = Append(events, Invalidate)
    BY <1>2, <1>6 DEF AnnounceLoss, SerialShape
  <2>3. sentences <= sentences'
    BY <1>1, <2>2
  <2>4. QED
    BY <2>1, <2>2, <2>3, SerialKeeps
<1>7. CASE PortLost
  <2>1. losses + 1 \in 0 .. MaxLosses
    BY <1>1, <1>7 DEF PortLost
  <2>2. SerialShape' /\ sentences' = sentences /\ UNCHANGED executorVars /\ events' = events
    BY <1>2, <1>7, <2>1 DEF PortLost, SerialShape
  <2>3. sentences <= sentences'
    BY <1>1, <2>2
  <2>4. QED
    BY <2>2, <2>3, SerialKeeps
<1>8. CASE PortBack
  <2>1. SerialShape' /\ sentences' = sentences /\ UNCHANGED executorVars /\ events' = events
    BY <1>2, <1>8 DEF PortBack, SerialShape
  <2>2. sentences <= sentences'
    BY <1>1, <2>1
  <2>3. QED
    BY <2>1, <2>2, SerialKeeps
<1>9. QED
  BY <1>3, <1>4, <1>5, <1>6, <1>7, <1>8 DEF Announce

-----------------------------------------------------------------------------
(* Positions in order, and paired *)

WInv == Shape /\ InOrder /\ Paired(poses)

LEMMA InitWInv == Init => WInv
<1> SUFFICES ASSUME Init PROVE WInv
  OBVIOUS
<1>1. SerialShape
  BY NoHprSentence, PoseAssumption DEF Init, SerialShape
<1>2. QueueShape
  BY DEF Init, QueueShape
<1>3. ExecutorShape
  <2>1. <<>> \in Seq(Sentence) /\ <<>> \in Seq(PoseSet)
    OBVIOUS
  <2>2. 0 \in 0 .. MaxDrain
    BY PoseAssumption
  <2>3. QED
    BY <2>1, <2>2 DEF Init, ExecutorShape
<1>4. InOrder
  BY DEF Init, InOrder, WorkedOff, Ordered, Before, Rising, Aging, UpTo, Queued
<1>5. Paired(poses)
  BY DEF Init, Paired
<1>6. QED
  BY <1>1, <1>2, <1>3, <1>4, <1>5 DEF WInv, Shape

LEMMA NextWInv == WInv /\ [Next]_vars => WInv'
<1> SUFFICES ASSUME WInv, [Next]_vars PROVE WInv'
  OBVIOUS
<1>1. Shape /\ InOrder /\ Paired(poses)
  BY DEF WInv
<1>2. CASE \/ \E utc \in Times, ok \in BOOLEAN : ReceiveGga(utc, ok) \/ ReceiveHpr(utc, ok)
           \/ PortLost \/ PortBack \/ Announce
  BY <1>1, <1>2, SerialStep DEF WInv
<1>3. CASE Stall
  <2>1. executor' = "drain"
    BY <1>1, <1>3 DEF Stall, Shape, ExecutorShape
  <2>2. QED
    BY <1>1, <1>3, <2>1, AgedStep DEF Stall, WInv
<1>4. CASE TimerFires
  BY <1>1, <1>4, AgedStep DEF TimerFires, WInv
<1>5. CASE Drain
  BY <1>1, <1>5, DrainStep DEF WInv
<1>6. CASE TickEnds
  BY <1>1, <1>6, TickStep DEF WInv
<1>7. CASE UNCHANGED vars
  <2>1. /\ SerialShape' /\ UNCHANGED executorVars /\ events' = events /\ sentences' = sentences
        /\ sentences \in Nat
    BY <1>1, <1>7, PoseAssumption DEF vars, serialVars, executorVars, Shape, SerialShape
  <2>2. sentences <= sentences'
    BY <2>1
  <2>3. QED
    BY <1>1, <2>1, <2>2, SerialKeeps DEF WInv
<1>8. QED
  BY <1>2, <1>3, <1>4, <1>5, <1>6, <1>7 DEF Next, Executor

\* Types; a tick drains at most MaxDrain events and ages stop at MaxAge.
THEOREM TypeCorrect == Spec => []TypeOK
<1>1. WInv => TypeOK
  <2> SUFFICES ASSUME WInv PROVE TypeOK
    OBVIOUS
  <2>1. Shape
    BY DEF WInv
  <2>2. \A i \in DOMAIN pending : pending[i].age \in 0 .. MaxAge
    <3> TAKE i \in DOMAIN pending
    <3>1. pending[i] \in Sentence
      BY <2>1 DEF Shape, ExecutorShape
    <3>2. QED
      BY <3>1 DEF Sentence
  <2>3. latest_hpr.age \in 0 .. MaxAge
    BY <2>1 DEF Shape, SerialShape, Sentence
  <2>4. QED
    BY <2>1, <2>2, <2>3 DEF Shape, SerialShape, ExecutorShape, TypeOK
<1>2. QED
  BY <1>1, InitWInv, NextWInv, PTL DEF Spec

\* No pose is published for a position older than one already published: a heading that
\* matches drops the older positions, and expiry takes the oldest first.
THEOREM PublishedInOrder == Spec => []PosesInOrder
<1>1. WInv => PosesInOrder
  BY DEF WInv, InOrder, WorkedOff, Ordered, PosesInOrder
<1>2. QED
  BY <1>1, InitWInv, NextWInv, PTL DEF Spec

\* A valid pose was made from a position and a heading of one time, also across midnight.
THEOREM PairsMatch == Spec => []PairedWhenValid
<1>1. WInv => PairedWhenValid
  BY DEF WInv, Paired, PairedPose, PairedWhenValid
<1>2. QED
  BY <1>1, InitWInv, NextWInv, PTL DEF Spec

-----------------------------------------------------------------------------
(* What an outage revokes *)

LEMMA InitRevoked == Init => Revoked
<1> SUFFICES ASSUME Init PROVE Revoked
  OBVIOUS
<1>1. ~(latest_hpr.age >= Timeout)
  BY NoHprSentence, Ages DEF Init
<1>2. SilenceRevokes
  BY <1>1 DEF Init, SilenceRevokes
<1>3. LossRevokes
  BY DEF Init, LossRevokes
<1>4. QED
  BY <1>2, <1>3 DEF Revoked

\* The serial worker: a heading it has stored is unannounced until it is queued.
LEMMA SerialRevokes ==
  ASSUME WInv, Revoked,
         \/ \E utc \in Times, ok \in BOOLEAN : ReceiveGga(utc, ok) \/ ReceiveHpr(utc, ok)
         \/ PortLost \/ PortBack \/ Announce
  PROVE  Revoked'
<1>0. /\ events \in Seq(Event) /\ latest_hpr \in Sentence
      /\ executor' = executor /\ stale' = stale /\ attitude' = attitude
      /\ pose_valid' = pose_valid /\ pending' = pending
      /\ serial = "hpr" => serial_ready
  BY DEF WInv, Shape, QueueShape, SerialShape, ReceiveGga, ReceiveHpr, PortLost, PortBack,
         Announce, AnnounceHpr, AnnounceLoss, executorVars
<1>1. LossRevokes /\ SilenceRevokes
  BY DEF Revoked
\* Queued events stay queued.
<1>2. ASSUME NEW e \in Event, events' = Append(events, e)
      PROVE  /\ \A i \in DOMAIN events : i \in DOMAIN events' /\ events'[i] = events[i]
             /\ Len(events') \in DOMAIN events' /\ events'[Len(events')] = e /\ events' # <<>>
  BY <1>0, <1>2, Announced
<1>3. ASSUME latest_hpr' = latest_hpr, Unannounced => Unannounced' PROVE SilenceRevokes'
  BY <1>0, <1>1, <1>3 DEF SilenceRevokes
<1>4. ASSUME NEW utc \in Times, NEW ok \in BOOLEAN, ReceiveGga(utc, ok) PROVE Revoked'
  <2> DEFINE e == [kind |-> "gga",
                   data |-> [id |-> sentences', utc |-> utc, ok |-> ok, age |-> 0]]
  <2>1. /\ serial = "run" /\ serial' = serial /\ serial_ready /\ serial_ready' = serial_ready
        /\ latest_hpr' = latest_hpr /\ events' = Append(events, e)
    BY <1>4 DEF ReceiveGga
  <2>2. sentences' \in Nat
    BY <1>4, PoseAssumption DEF ReceiveGga, WInv, Shape, SerialShape
  <2>3. e \in Event
    BY <2>2, PoseAssumption, Ages DEF Event, Sentence
  <2> HIDE DEF e
  <2>4. Unannounced => Unannounced'
    BY <1>2, <2>1, <2>3 DEF Unannounced
  <2>5. LossRevokes'
    BY <2>1 DEF LossRevokes
  <2>6. QED
    BY <1>3, <2>1, <2>4, <2>5 DEF Revoked
<1>5. ASSUME NEW utc \in Times, NEW ok \in BOOLEAN, ReceiveHpr(utc, ok) PROVE Revoked'
  <2>1. serial' = "hpr" /\ serial_ready /\ serial_ready' = serial_ready /\ latest_hpr'.age = 0
    BY <1>5 DEF ReceiveHpr
  <2>2. LossRevokes' /\ Unannounced'
    BY <2>1 DEF LossRevokes, Unannounced
  <2>3. ~(latest_hpr'.age >= Timeout)
    BY <2>1, Ages
  <2>4. SilenceRevokes'
    BY <1>0, <1>1, <2>2, <2>3 DEF SilenceRevokes
  <2>5. QED
    BY <2>2, <2>4 DEF Revoked
<1>6. CASE AnnounceHpr
  <2> DEFINE e == [kind |-> "hpr", data |-> latest_hpr]
  <2>1. /\ serial = "hpr" /\ serial_ready' = serial_ready /\ latest_hpr' = latest_hpr
        /\ events' = Append(events, e)
    BY <1>6 DEF AnnounceHpr
  <2>2. e \in Event /\ e.kind = "hpr"
    BY <1>0 DEF Event
  <2> HIDE DEF e
  <2>3. Unannounced'
    BY <1>2, <2>1, <2>2 DEF Unannounced
  <2>4. LossRevokes'
    BY <1>0, <2>1 DEF LossRevokes
  <2>5. QED
    BY <1>3, <2>1, <2>3, <2>4 DEF Revoked
<1>7. CASE AnnounceLoss
  <2>1. /\ serial = "lost" /\ serial' = "run" /\ latest_hpr' = latest_hpr
        /\ events' = Append(events, Invalidate)
    BY <1>7 DEF AnnounceLoss
  <2>2. Invalidate \in Event
    BY NoHprSentence DEF Invalidate, Event
  <2>3. /\ \A i \in DOMAIN events : i \in DOMAIN events' /\ events'[i] = events[i]
        /\ events'[Len(events')] = Invalidate /\ events' # <<>>
    BY <1>2, <2>1, <2>2
  <2>4. Unannounced => Unannounced'
    BY <2>1, <2>3 DEF Unannounced
  <2>5. LossRevokes'
    BY <2>3 DEF LossRevokes
  <2>6. QED
    BY <1>3, <2>1, <2>4, <2>5 DEF Revoked
<1>8. CASE PortLost
  <2>1. serial = "run" /\ serial' = "lost" /\ latest_hpr' = latest_hpr /\ events' = events
    BY <1>8 DEF PortLost
  <2>2. (Unannounced => Unannounced') /\ LossRevokes'
    BY <2>1 DEF Unannounced, LossRevokes
  <2>3. QED
    BY <1>3, <2>1, <2>2 DEF Revoked
<1>9. CASE PortBack
  <2>1. /\ serial_ready' = TRUE /\ serial' = serial /\ latest_hpr' = latest_hpr
        /\ events' = events
    BY <1>9 DEF PortBack
  <2>2. (Unannounced => Unannounced') /\ LossRevokes'
    BY <2>1 DEF Unannounced, LossRevokes
  <2>3. QED
    BY <1>3, <2>1, <2>2 DEF Revoked
<1>10. QED
  BY <1>4, <1>5, <1>6, <1>7, <1>8, <1>9 DEF Announce

\* Time passes: a heading that was out of date stays so.
LEMMA AgedRevokes ==
  ASSUME WInv, Revoked, Aged, UNCHANGED <<serial, serial_ready, stale, attitude, pose_valid>>,
         executor' = "drain"
  PROVE  Revoked'
<1>1. /\ DOMAIN events' = DOMAIN events /\ Len(events') = Len(events) /\ events' \in Seq(Event)
      /\ \A i \in DOMAIN events : /\ events'[i].kind = events[i].kind
                                  /\ events[i].kind # "hpr" => events'[i] = events[i]
  BY AgedQueue DEF WInv
<1>2. events \in Seq(Event) /\ pending \in Seq(Sentence) /\ latest_hpr \in Sentence
  BY DEF WInv, Shape, QueueShape, ExecutorShape, SerialShape
<1>3. (events' = <<>>) <=> (events = <<>>)
  BY <1>1, <1>2
<1>4. pending = <<>> => pending' = <<>>
  <2> SUFFICES ASSUME pending = <<>> PROVE pending' = <<>>
    OBVIOUS
  <2>1. pending' \in Seq(Sentence) /\ DOMAIN pending' = DOMAIN pending
    BY AgedPending DEF WInv, InOrder, WorkedOff
  <2>2. DOMAIN pending' = {}
    BY <2>1
  <2>3. QED
    BY <2>1, <2>2
<1>5. LossRevokes'
  <2> SUFFICES ASSUME ~serial_ready, serial # "lost"
               PROVE  /\ events' = <<>> => ~pose_valid /\ pending' = <<>>
                      /\ events' # <<>> => events'[Len(events')] = Invalidate
    BY DEF LossRevokes
  <2>1. CASE events = <<>>
    BY <1>3, <1>4, <2>1 DEF Revoked, LossRevokes
  <2>2. CASE events # <<>>
    <3>1. events[Len(events)] = Invalidate
      BY <2>2 DEF Revoked, LossRevokes
    <3>2. Len(events) \in DOMAIN events
      BY <1>2, <2>2
    <3>3. Invalidate.kind # "hpr"
      BY DEF Invalidate
    <3>4. events'[Len(events')] = Invalidate
      BY <1>1, <3>1, <3>2, <3>3
    <3>5. QED
      BY <1>3, <2>2, <3>4
  <2>3. QED
    BY <2>1, <2>2
<1>6. Unannounced => Unannounced'
  BY <1>1 DEF Unannounced
<1>7. latest_hpr.age >= Timeout => latest_hpr'.age > Timeout /\ latest_hpr'.age >= Timeout
  <2> SUFFICES ASSUME latest_hpr.age >= Timeout
               PROVE  latest_hpr'.age > Timeout /\ latest_hpr'.age >= Timeout
    OBVIOUS
  <2>1. latest_hpr # NoHpr
    BY NoHprSentence, Ages
  <2>2. latest_hpr' = Older(latest_hpr)
    BY <2>1 DEF Aged
  <2>3. latest_hpr.age \in 0 .. MaxAge
    BY <1>2 DEF Sentence
  <2> DEFINE a == Older(latest_hpr).age
  <2>4. a = IF latest_hpr.age < MaxAge THEN latest_hpr.age + 1 ELSE latest_hpr.age
    BY <1>2, OlderSentence
  <2> HIDE DEF a
  <2>5. a > Timeout /\ a >= Timeout
    BY <2>3, <2>4, Ages
  <2>6. QED
    BY <2>2, <2>5 DEF a
<1>8. SilenceRevokes'
  BY <1>6, <1>7 DEF Revoked, SilenceRevokes
<1>9. QED
  BY <1>5, <1>8 DEF Revoked

\* The event of a lost port revokes; a heading that was out of date makes no pose valid.
LEMMA DrainRevokes ==
  ASSUME WInv, Revoked, Drain
  PROVE  Revoked'
<1> DEFINE e == Head(events)
<1>1. /\ events \in Seq(Event) /\ events # <<>> /\ pending \in Seq(Sentence)
      /\ latest_hpr \in Sentence /\ events' = Tail(events) /\ executor = "drain"
      /\ serial' = serial /\ serial_ready' = serial_ready /\ latest_hpr' = latest_hpr
      /\ executor' = executor
  BY DEF WInv, Shape, QueueShape, ExecutorShape, SerialShape, Drain, serialVars
<1>2. /\ e = events[1] /\ e \in Event /\ 1 \in DOMAIN events /\ Tail(events) \in Seq(Event)
      /\ Len(Tail(events)) = Len(events) - 1 /\ Len(events) \in Nat
      /\ DOMAIN Tail(events) = 1 .. (Len(events) - 1) /\ DOMAIN events = 1 .. Len(events)
      /\ \A i \in DOMAIN Tail(events) : Tail(events)[i] = events[i + 1]
  BY <1>1, FirstEvent
<1> HIDE DEF e
<1>3. \/ e.kind = "gga" /\ PublishGga(e.data)
      \/ e.kind = "hpr" /\ PublishHpr(e.data) /\ MatchPending(pending, e.data)
      \/ e = Invalidate /\ LocalPoseInvalid
  BY DEF Drain, e
<1>4. LossRevokes'
  <2> SUFFICES ASSUME ~serial_ready, serial # "lost"
               PROVE  /\ Tail(events) = <<>> => ~pose_valid' /\ pending' = <<>>
                      /\ Tail(events) # <<>> => Tail(events)[Len(Tail(events))] = Invalidate
    BY <1>1 DEF LossRevokes
  <2>1. events[Len(events)] = Invalidate
    BY <1>1 DEF Revoked, LossRevokes
  <2>2. CASE Tail(events) = <<>>
    <3>1. Len(events) = 1
      <4> DEFINE left == Tail(events)
                 n == Len(events)
      <4>1. left = <<>> /\ Len(left) = n - 1 /\ n \in Nat
        BY <1>2, <2>2
      <4> HIDE DEF left, n
      <4>2. n = 1
        BY <4>1
      <4>3. QED
        BY <4>2 DEF n
    <3>2. e = Invalidate
      BY <1>2, <2>1, <3>1
    <3>3. e.kind = "local_pose_invalid"
      BY <3>2 DEF Invalidate
    <3>4. LocalPoseInvalid
      BY <1>3, <3>3
    <3>5. QED
      BY <2>2, <3>4 DEF LocalPoseInvalid
  <2>3. CASE Tail(events) # <<>>
    <3>1. Len(events) - 1 \in DOMAIN Tail(events)
      <4>1. Len(Tail(events)) # 0
        BY <1>2, <2>3
      <4>2. QED
        BY <1>2, <4>1
    <3>2. Tail(events)[Len(events) - 1] = events[(Len(events) - 1) + 1]
      BY <1>2, <3>1
    <3>3. (Len(events) - 1) + 1 = Len(events)
      BY <1>2
    <3>4. QED
      BY <1>2, <2>1, <2>3, <3>2, <3>3
  <2>4. QED
    BY <2>2, <2>3
<1>5. SilenceRevokes'
  <2>1. CASE e.kind = "hpr"
    <3>1. PublishHpr(e.data)
      BY <1>3, <2>1 DEF Invalidate
    <3>2. stale' = FALSE
      BY <3>1 DEF PublishHpr
    <3>3. QED
      BY <1>1, <3>2 DEF SilenceRevokes
  <2>2. CASE e.kind # "hpr"
    <3>1. stale' = stale /\ attitude' = attitude
      BY <1>3, <2>2 DEF PublishGga, LocalPoseInvalid
    <3>2. Unannounced => Unannounced'
      <4> SUFFICES ASSUME NEW i \in DOMAIN events, events[i].kind = "hpr"
                   PROVE  \E j \in DOMAIN Tail(events) : Tail(events)[j].kind = "hpr"
        BY <1>1 DEF Unannounced
      <4>1. i # 1
        BY <1>2, <2>2
      <4>2. i - 1 \in DOMAIN Tail(events) /\ (i - 1) + 1 = i
        BY <1>2, <4>1
      <4>3. Tail(events)[i - 1] = events[i]
        BY <1>2, <4>2
      <4>4. QED
        BY <4>2, <4>3
    <3>3. ASSUME stale, ~Unannounced
          PROVE  ~pose_valid'
      <4>1. ~pose_valid /\ latest_hpr.age > Timeout
        BY <1>1, <3>3 DEF Revoked, SilenceRevokes
      <4>2. CASE LocalPoseInvalid
        BY <4>2 DEF LocalPoseInvalid
      <4>3. CASE PublishGga(e.data)
        <5>1. ~(latest_hpr.age <= Timeout)
          <6>1. latest_hpr.age \in 0 .. MaxAge
            BY <1>1 DEF Sentence
          <6>2. QED
            BY <4>1, <6>1, Ages
        <5>2. pose_valid' = pose_valid
          BY <4>3, <5>1 DEF PublishGga
        <5>3. QED
          BY <4>1, <5>2
      <4>4. QED
        BY <1>3, <2>2, <4>2, <4>3
    <3>4. QED
      BY <1>1, <3>1, <3>2, <3>3 DEF Revoked, SilenceRevokes
  <2>3. QED
    BY <2>1, <2>2
<1>6. QED
  BY <1>4, <1>5 DEF Revoked

\* The end of a tick revokes when the heading is out of date, unless that was found before.
LEMMA TickRevokes ==
  ASSUME WInv, Revoked, TickEnds
  PROVE  Revoked'
<1>1. /\ pose_valid' \in BOOLEAN
      /\ pending = <<>> => pending' = <<>>
      /\ ~pose_valid => ~pose_valid'
  BY TickAdvances DEF WInv, Shape, InOrder
<1>2. /\ executor = "drain" /\ executor' = "idle" /\ events' = events /\ serial' = serial
      /\ serial_ready' = serial_ready /\ latest_hpr' = latest_hpr
      /\ stale' = (stale \/ TimedOut) /\ attitude' = (attitude /\ ~TimedOut)
      /\ TimedOut => ~pose_valid'
  BY DEF TickEnds, serialVars
<1>3. LossRevokes'
  BY <1>1, <1>2 DEF Revoked, LossRevokes
<1>4. (latest_hpr.age >= Timeout) => (stale \/ TimedOut)
  BY NoHprSentence, Ages DEF TimedOut
<1>5. TimedOut => latest_hpr.age >= Timeout
  BY DEF TimedOut
<1>6. Unannounced' <=> Unannounced
  BY <1>2 DEF Unannounced
<1>7. stale' => ~attitude'
  BY <1>2 DEF Revoked, SilenceRevokes
<1>8. ASSUME stale', ~Unannounced' PROVE ~pose_valid' /\ latest_hpr'.age >= Timeout
  <2>1. CASE TimedOut
    BY <1>2, <1>5, <2>1
  <2>2. CASE stale
    <3>1. ~pose_valid /\ latest_hpr.age >= Timeout
      BY <1>6, <1>8, <2>2 DEF Revoked, SilenceRevokes
    <3>2. QED
      BY <1>1, <1>2, <3>1
  <2>3. QED
    BY <1>2, <1>8, <2>1, <2>2
<1>9. SilenceRevokes'
  BY <1>2, <1>4, <1>7, <1>8 DEF SilenceRevokes
<1>10. QED
  BY <1>3, <1>9 DEF Revoked

\* The loss of the port, or a silent receiver, leaves no valid pose or attitude behind.
THEOREM OutageRevokes == Spec => []OutageInvalidates
<1>1. WInv /\ Revoked /\ [Next]_vars => Revoked'
  <2> SUFFICES ASSUME WInv, Revoked, [Next]_vars PROVE Revoked'
    OBVIOUS
  <2>1. CASE \/ \E utc \in Times, ok \in BOOLEAN : ReceiveGga(utc, ok) \/ ReceiveHpr(utc, ok)
             \/ PortLost \/ PortBack \/ Announce
    BY <2>1, SerialRevokes
  <2>2. CASE Stall
    <3>1. executor' = "drain"
      BY <2>2 DEF Stall, WInv, Shape, ExecutorShape
    <3>2. QED
      BY <2>2, <3>1, AgedRevokes DEF Stall
  <2>3. CASE TimerFires
    BY <2>3, AgedRevokes DEF TimerFires
  <2>4. CASE Drain
    BY <2>4, DrainRevokes
  <2>5. CASE TickEnds
    BY <2>5, TickRevokes
  <2>6. CASE UNCHANGED vars
    BY <2>6 DEF vars, serialVars, executorVars, Revoked, LossRevokes, SilenceRevokes, Unannounced
  <2>7. QED
    BY <2>1, <2>2, <2>3, <2>4, <2>5, <2>6 DEF Next, Executor
<1>2. WInv /\ Revoked => OutageInvalidates
  <2> SUFFICES ASSUME Revoked, serial = "run", events = <<>>
               PROVE  /\ ~serial_ready => ~pose_valid /\ pending = <<>>
                      /\ executor = "idle" /\ latest_hpr.age >= Timeout => ~pose_valid /\ ~attitude
    BY DEF OutageInvalidates
  <2>1. ~Unannounced
    BY DEF Unannounced
  <2>2. QED
    BY <2>1 DEF Revoked, LossRevokes, SilenceRevokes
<1>3. QED
  BY <1>1, <1>2, InitWInv, NextWInv, InitRevoked, PTL DEF Spec
=============================================================================
