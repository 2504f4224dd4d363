---------------------------- MODULE GnssLocalPose ----------------------------
(***************************************************************************)
(* How the GNSS node pairs positions (GGA) with headings (HPR) into local  *)
(* poses and declares them invalid.  The serial worker stores the latest   *)
(* heading and queues events; the ROS executor drains them on a 20 ms      *)
(* timer, at most MaxDrain per tick, then expires positions that found no  *)
(* heading, then looks whether the heading is out of date.                 *)
(*                                                                         *)
(* Time is kept as ages, in timer periods, cut off above the limits they   *)
(* are compared with.  Time passes between two ticks of the timer, and may *)
(* pass within one.  The event queue does not overflow here; GnssBridge    *)
(* covers its overflow.                                                    *)
(***************************************************************************)
EXTENDS Ordering, SequencesExt, FiniteSetsExt

CONSTANTS Timeout,       (* attitude_timeout_sec                            *)
          Tolerance,     (* local_pose_sync_tolerance_sec                   *)
          Day,           (* _SECONDS_PER_DAY                                *)
          MaxDrain,      (* events drained in one tick, 200                 *)
          Times,         (* bound: the UTC fields that sentences carry      *)
          MaxSentences,  (* bound: sentences received                       *)
          MaxLosses      (* bound: losses of the serial port                *)

ASSUME PoseAssumption ==
  /\ {Timeout, Tolerance, Day, MaxDrain} \subseteq Nat \ {0}
  /\ {MaxSentences, MaxLosses} \subseteq Nat
  /\ Times \subseteq 0 .. Day

\* A UTC field that is no time of the day.
Blank == Day

MaxAge == 1 + (IF Timeout > Tolerance THEN Timeout ELSE Tolerance)
Older(x) == [x EXCEPT !.age = IF @ < MaxAge THEN @ + 1 ELSE @]

VARIABLES
  serial,     (* the serial worker: "run", or what it is about to emit       *)
  serial_ready,
  latest_hpr, (* _latest_hpr, or NoHpr                                       *)
  events,     (* _ros_events                                                 *)
  executor,   (* "idle", or the part of the tick the executor is in          *)
  drained,    (* events drained in this tick                                 *)
  pending,    (* _pending_local_gga                                          *)
  stale,      (* _attitude_stale_published                                   *)
  attitude,   (* data_valid of the attitude last published                   *)
  pose_valid, (* _local_pose_valid                                           *)
  sentences,  (* sentences received                                          *)
  losses,     (* losses of the serial port                                   *)
  poses,      (* history: the poses published for positions                  *)
  outdated    (* history: an attitude older than Timeout went out as valid   *)

serialVars   == <<serial, serial_ready, latest_hpr, sentences, losses>>
executorVars == <<executor, drained, pending, stale, attitude, pose_valid, poses, outdated>>
vars == <<serialVars, executorVars, events>>

\* Headings and positions carry the number of their sentence.
NoHpr == [id |-> 0, utc |-> Blank, ok |-> FALSE, age |-> 0]
Invalidate == [kind |-> "local_pose_invalid", data |-> NoHpr]

Init ==
  /\ serial = "run" /\ serial_ready = TRUE /\ latest_hpr = NoHpr
  /\ events = <<>> /\ executor = "idle" /\ drained = 0
  /\ pending = <<>> /\ stale = FALSE /\ attitude = FALSE /\ pose_valid = FALSE
  /\ sentences = 0 /\ losses = 0 /\ poses = <<>> /\ outdated = FALSE

-----------------------------------------------------------------------------
(* The serial worker *)

\* A position: ok says that it has a fix and can be projected.
ReceiveGga(utc, ok) ==
  /\ serial = "run" /\ serial_ready /\ sentences < MaxSentences
  /\ sentences' = sentences + 1
  /\ events' = Append(events, [kind |-> "gga",
                 data |-> [id |-> sentences', utc |-> utc, ok |-> ok, age |-> 0]])
  /\ UNCHANGED <<executorVars, serial, serial_ready, latest_hpr, losses>>

\* A heading is stored first and announced later; ok is data_is_valid.
ReceiveHpr(utc, ok) ==
  /\ serial = "run" /\ serial_ready /\ sentences < MaxSentences
  /\ sentences' = sentences + 1
  /\ latest_hpr' = [id |-> sentences', utc |-> utc, ok |-> ok, age |-> 0]
  /\ serial' = "hpr"
  /\ UNCHANGED <<executorVars, events, serial_ready, losses>>

AnnounceHpr ==
  /\ serial = "hpr"
  /\ serial' = "run"
  /\ events' = Append(events, [kind |-> "hpr", data |-> latest_hpr])
  /\ UNCHANGED <<executorVars, serial_ready, latest_hpr, sentences, losses>>

\* The port is lost: the event follows, _latest_hpr stays.
PortLost ==
  /\ serial = "run" /\ serial_ready /\ losses < MaxLosses
  /\ serial' = "lost" /\ serial_ready' = FALSE /\ losses' = losses + 1
  /\ UNCHANGED <<executorVars, events, latest_hpr, sentences>>

AnnounceLoss ==
  /\ serial = "lost"
  /\ serial' = "run"
  /\ events' = Append(events, Invalidate)
  /\ UNCHANGED <<executorVars, serial_ready, latest_hpr, sentences, losses>>

PortBack ==
  /\ serial = "run" /\ ~serial_ready
  /\ serial_ready' = TRUE
  /\ UNCHANGED <<executorVars, events, serial, latest_hpr, sentences, losses>>

-----------------------------------------------------------------------------
(* Time *)

\* nmea_utc_difference_seconds(a, b) <= tolerance; a field that is no time is never near.
Near(a, b) ==
  LET d == IF a < b THEN b - a ELSE a - b
  IN  a # Blank /\ b # Blank /\ Min({d, Day - d}) <= Tolerance

Aged ==
  /\ latest_hpr' = IF latest_hpr = NoHpr THEN NoHpr ELSE Older(latest_hpr)
  /\ events' = [i \in DOMAIN events |->
                  IF events[i].kind = "hpr" THEN [events[i] EXCEPT !.data = Older(@)]
                                            ELSE events[i]]
  /\ pending' = [i \in DOMAIN pending |-> Older(pending[i])]

\* The executor is held up in the middle of a tick.
Stall ==
  /\ executor # "idle"
  /\ Aged
  /\ UNCHANGED <<serial, serial_ready, sentences, losses, executor, drained, stale, attitude,
                 pose_valid, poses, outdated>>

\* The timer calls _drain_ros_events.
TimerFires ==
  /\ executor = "idle"
  /\ executor' = "drain" /\ drained' = 0
  /\ Aged
  /\ UNCHANGED <<serial, serial_ready, sentences, losses, stale, attitude, pose_valid, poses,
                 outdated>>

-----------------------------------------------------------------------------
(* The executor *)

\* _publish_local_pose: hpr is NoHpr when no heading was found in time.
Pose(gga, hpr) == [gga |-> gga.id, valid |-> gga.ok /\ hpr.ok, times |-> <<gga.utc, hpr.utc>>]

Poses(ggas, hpr) == [i \in DOMAIN ggas |-> Pose(ggas[i], hpr)]

\* _local_pose_valid follows the last pose that went out.
ValidAfter(out) == IF out = <<>> THEN pose_valid ELSE Last(out).valid

PublishLocalPoses(ggas, hpr) ==
  /\ poses' = poses \o Poses(ggas, hpr)
  /\ pose_valid' = ValidAfter(Poses(ggas, hpr))

\* The positions near the heading's time.
Matched(ggas, hpr) == {i \in DOMAIN ggas : Near(ggas[i].utc, hpr.utc)}

\* Mutant of MatchPending: only the positions that matched are removed.
MatchPendingOnly(ggas, hpr) ==
  /\ PublishLocalPoses(Picked(ggas, Matched(ggas, hpr)), hpr)
  /\ pending' = Picked(ggas, DOMAIN ggas \ Matched(ggas, hpr))

\* Mutant of MatchPending: everything up to the last match goes out with the heading.
MatchPendingAll(ggas, hpr) ==
  LET last == Max(Matched(ggas, hpr) \cup {0})
  IN  /\ PublishLocalPoses(SubSeq(ggas, 1, last), hpr)
      /\ pending' = SubSeq(ggas, 1 + last, Len(ggas))

\* _match_pending_local_poses: every position near the heading's time goes out with it,
\* and the ones before the last of them are dropped.
MatchPending(ggas, hpr) ==
  LET last == Max(Matched(ggas, hpr) \cup {0})
  IN  /\ PublishLocalPoses(Picked(ggas, Matched(ggas, hpr)), hpr)
      /\ pending' = SubSeq(ggas, 1 + last, Len(ggas))

\* _publish_gga: the new position may find the latest heading, if that is fresh.
PublishGga(gga) ==
  LET ggas  == Append(pending, gga)
      fresh == latest_hpr # NoHpr /\ serial_ready /\ latest_hpr.age <= Timeout
  IN  /\ IF fresh THEN MatchPending(ggas, latest_hpr)
                  ELSE pending' = ggas /\ UNCHANGED <<poses, pose_valid>>
      /\ UNCHANGED <<stale, attitude, outdated>>

\* Mutant of PublishHpr: the flag is not reset.
PublishHprKeepStale(hpr) ==
  /\ attitude' = hpr.ok
  /\ outdated' = (outdated \/ (hpr.ok /\ hpr.age > Timeout))
  /\ UNCHANGED stale

\* _publish_hpr with fresh = True, whatever the age of the event.
PublishHpr(hpr) ==
  /\ attitude' = hpr.ok
  /\ outdated' = (outdated \/ (hpr.ok /\ hpr.age > Timeout))
  /\ stale' = FALSE

\* The event of a lost port: pending positions are forgotten, a valid pose is revoked.
LocalPoseInvalid ==
  /\ pending' = <<>>
  /\ pose_valid' = FALSE
  /\ UNCHANGED <<stale, attitude, poses, outdated>>

\* Mutant of MayDrain: one event more.
MayDrainMore == drained <= MaxDrain

MayDrain == drained < MaxDrain

Drain ==
  /\ executor = "drain" /\ events # <<>> /\ MayDrain
  /\ drained' = drained + 1
  /\ events' = Tail(events)
  /\ LET e == Head(events)
     IN  \/ e.kind = "gga" /\ PublishGga(e.data)
         \/ e.kind = "hpr" /\ PublishHpr(e.data) /\ MatchPending(pending, e.data)
         \/ e = Invalidate /\ LocalPoseInvalid
  /\ UNCHANGED <<serialVars, executor>>

\* The end of a tick: _expire_pending_local_poses, then _check_attitude_timeout.  Only the
\* second looks at what the serial worker may change meanwhile.
Expired == {i \in DOMAIN pending : pending[i].age >= Tolerance}
TimedOut == latest_hpr # NoHpr /\ ~stale /\ latest_hpr.age >= Timeout

TickEnds ==
  /\ executor = "drain" /\ (events = <<>> \/ ~MayDrain)
  /\ executor' = "idle" /\ drained' = 0
  /\ pending' = Picked(pending, DOMAIN pending \ Expired)
  /\ LET expired == Poses(Picked(pending, Expired), NoHpr)
     IN  /\ poses' = poses \o expired
         /\ pose_valid' = (~TimedOut /\ ValidAfter(expired))
  /\ stale' = (stale \/ TimedOut)
  /\ attitude' = (attitude /\ ~TimedOut)
  /\ UNCHANGED <<serialVars, events, outdated>>

-----------------------------------------------------------------------------
Announce == AnnounceHpr \/ AnnounceLoss
Executor == TimerFires \/ Drain \/ TickEnds

Next ==
  \/ \E utc \in Times, ok \in BOOLEAN : ReceiveGga(utc, ok) \/ ReceiveHpr(utc, ok)
  \/ PortLost \/ PortBack \/ Announce \/ Stall \/ Executor

Spec == Init /\ [][Next]_vars

-----------------------------------------------------------------------------
(* Properties *)

\* The type invariant; a tick drains at most MaxDrain events.
TypeOK ==
  /\ serial \in {"run", "hpr", "lost"} /\ executor \in {"idle", "drain"}
  /\ {serial_ready, stale, attitude, pose_valid, outdated} \subseteq BOOLEAN
  /\ drained \in 0 .. MaxDrain /\ sentences \in 0 .. MaxSentences /\ losses \in 0 .. MaxLosses
  /\ \A i \in DOMAIN pending : pending[i].age \in 0 .. MaxAge
  /\ latest_hpr.age \in 0 .. MaxAge

\* No pose is published for a position older than one already published: what comes
\* late is superseded, not sent after newer data.
PosesInOrder ==
  \A i, j \in DOMAIN poses : i < j => poses[i].gga < poses[j].gga

\* A pose counts as valid only when its position and heading are of one time, also when
\* midnight lies between them.
PairedWhenValid ==
  \A i \in DOMAIN poses :
    LET t == poses[i].times
    IN  poses[i].valid =>
          /\ Blank \notin {t[1], t[2]}
          /\ \E days \in -1 .. 1 : (t[1] + days * Day) - t[2] \in -Tolerance .. Tolerance

\* Once the loss of the port has been worked off, no pose is left valid and no position
\* is left to be published late. A receiver that falls silent leaves neither a valid pose
\* nor a valid attitude behind: both are revoked at the end of the tick that finds the
\* heading out of date, also when a pose was made from a heading whose event came only
\* after the last revocation.
OutageInvalidates ==
  serial = "run" /\ events = <<>> =>
    /\ ~serial_ready => ~pose_valid /\ pending = <<>>
    /\ executor = "idle" /\ latest_hpr.age >= Timeout => ~pose_valid /\ ~attitude

\* data_valid of an attitude includes its freshness.
FreshAttitude == ~outdated
=============================================================================
