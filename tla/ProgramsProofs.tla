--------------------------- MODULE ProgramsProofs ---------------------------
(***************************************************************************)
(* Proofs about the four programs of Programs, each for all values of its  *)
(* own constants.                                                          *)
(* Upgrader, for an image and blocks of any length:                        *)
(*   Ranged    what is registered, stored and counted stays in range,      *)
(*             also when commands call back twice;                         *)
(*   OneFlow   as long as none did, a running upgrade has exactly one      *)
(*             registered command, the one its state waits for, and the    *)
(*             lidar has every block below read_offset_;                   *)
(*   OffsetNear the commands can be numbered from 0 to faults, and the     *)
(*             ones with a block take read_offset_ no further than a block *)
(*             for each number beyond the image.                           *)
(* LogSession, for any number of files and bags, faults and restarts:      *)
(*   Sound     the files have different names, each holds its own bags in  *)
(*             order, and together they hold every bag taken, but those    *)
(*             that are gone;                                              *)
(*   OpenIntact the file the writer has open is there, and its last bag    *)
(*             does not come after the last one the writer treated;        *)
(*   Renaming  a rename is of a hidden file, the writer's of one it has    *)
(*             closed, and none can take the name of an open file.         *)
(* RsNode, for any number of lidars, columns, channels and places; NodeInv *)
(* holds of every source:                                                  *)
(*   PacketFlow packets are handled in order, and the first of each frame  *)
(*             says so, but for the first packet of all;                   *)
(*   Owned     no object is in two hands: the decoder's, on its way to be  *)
(*             published, on its way back;                                 *)
(*   Waits, Outgone, InTurn  every cloud on its way and every message is   *)
(*             one frame that is over, and they are in order;              *)
(*   Filling   the decoder's cloud has all of the frame that is not over.  *)
(* LidarSetup, for any lidars, files and wishes of the user:               *)
(*   Asking    only what the user wished is asked for, and the thread      *)
(*             between the first and the last setting of a lidar has       *)
(*             config_mutex_;                                              *)
(*   Complete  of a callback at its settings, each is to come, or it has   *)
(*             its bit or is settled;                                      *)
(*   Promised  a setting's request is under way: every other setting of    *)
(*             its lidar has its bit or is settled, or is being sent;      *)
(*   AllSettled a lidar that is sampling has taken or refused them all.    *)
(***************************************************************************)
EXTENDS Programs, NumberLemmas

-----------------------------------------------------------------------------
(* Upgrader *)

Handlers == {"StartUpgrade", "XferFirmware", "CompleteXferFirmware", "GetUpgradeProgress", "RequestReboot"}
States   == {"Idle", "Request", "XferFirmware", "CompleteXferFirmware", "GetUpgradeProgress",
             "Complete", "Err"}

Registrable == [cmd : Handlers, offset : Nat, sent : BOOLEAN, between : SUBSET {"timeout", "answer"}]

-----------------------------------------------------------------------------
(* Upgrader: the table and the bag of commands *)

\* upgrade_event_table: at most one row for a state and an event.
LEMMA TableFunctional ==
  ASSUME NEW r1 \in upgrade_event_table, NEW r2 \in upgrade_event_table,
         r1.state = r2.state, r1.event = r2.event
  PROVE  r1 = r2
BY DEF upgrade_event_table, Row

\* The rows of the table: which state waits for which command.
StateOf(cmd) == CASE cmd = "StartUpgrade" -> "Request" [] cmd = "RequestReboot" -> "Complete"
                  [] OTHER -> cmd

LEMMA TableRows ==
  ASSUME NEW r \in upgrade_event_table
  PROVE  /\ r.state \in States /\ r.next \in States /\ r.event # "Err"
         /\ r.handler # "none" => r.handler \in Handlers /\ r.next = StateOf(r.handler)
         /\ r.handler = "none" => r.state = "Complete" /\ r.event = "Reinit" /\ r.next = "Idle"
BY DEF upgrade_event_table, Row, States, Handlers, StateOf

Only(q) == SetToBag({q})

LEMMA BagOfOne ==
  ASSUME NEW q
  PROVE  /\ BagRemove(Only(q), q) = EmptyBag
         /\ BagAdd(EmptyBag, q) = Only(q)
         /\ BagToSet(Only(q)) = {q}
         /\ \A n : EmptyBag (+) Copies(q, 0) = EmptyBag
         /\ BagToSet(EmptyBag) = {}
BY DEF Only, EmptyBag, SetToBag, BagRemove, BagAdd, BagToSet, Copies, (+)

\* The block after one: no block begins in between.
LEMMA NextBlock ==
  ASSUME NEW offset \in Nat, offset % ReadLength = 0
  PROVE  /\ offset + ReadLength \in Nat /\ (offset + ReadLength) % ReadLength = 0
         /\ \A o \in Blocks : o < offset + ReadLength => o <= offset
<1>1. offset \in Int /\ ReadLength \in Nat \ {0} /\ FirmwareLength \in Nat
  BY UpgraderAssumption
<1>2. (offset + ReadLength) % ReadLength = 0
  BY <1>1, RoundOn
<1>3. ASSUME NEW o \in Blocks, o < offset + ReadLength PROVE o <= offset
  <2>1. o \in Int /\ o % ReadLength = 0
    BY <1>1 DEF Blocks
  <2>2. QED
    BY <1>1, <1>3, <2>1, Multiples
<1>4. QED
  BY <1>1, <1>2, <1>3

-----------------------------------------------------------------------------
(* Upgrader: ranges *)

\* A registered command.
Valid(q) == q \in Registrable /\ (q.cmd = "XferFirmware" => q.offset \in Blocks)

Ranged ==
  /\ fsm_state_ \in States
  /\ upgrade_thread_ \in {"created", "run", "destroyed"}
  /\ read_offset_ \in Nat /\ read_offset_ % ReadLength = 0
  /\ try_count_ \in 0 .. ProgressTryLimit
  /\ written \subseteq Blocks /\ doubled \in BOOLEAN /\ faults \in 0 .. MaxFaults
  /\ \A q \in BagToSet(requests) : Valid(q)

LEMMA BagSets ==
  ASSUME NEW B, NEW q, NEW n
  PROVE  /\ BagToSet(BagRemove(B, q)) \subseteq BagToSet(B)
         /\ BagToSet(BagAdd(B, q)) \subseteq BagToSet(B) \cup {q}
         /\ BagToSet(B (+) Copies(q, n)) \subseteq BagToSet(B) \cup {q}
<1>1. BagToSet(BagRemove(B, q)) \subseteq BagToSet(B)
  BY DEF BagRemove, BagToSet
<1>2. BagToSet(BagAdd(B, q)) \subseteq BagToSet(B) \cup {q}
  BY DEF BagAdd, BagToSet
<1>3. BagToSet(B (+) Copies(q, n)) \subseteq BagToSet(B) \cup {q}
  BY DEF Copies, BagToSet, (+)
<1>4. QED
  BY <1>1, <1>2, <1>3

\* A handler that sends a command, however often that fails.
LEMMA IssueRanged ==
  ASSUME Ranged, NEW cmd \in Handlers, NEW offset \in Nat,
         cmd = "XferFirmware" => offset \in Blocks,
         NEW next \in States, NEW tries \in 0 .. ProgressTryLimit,
         NEW left, \A q \in BagToSet(left) : Valid(q),
         NEW cost \in Nat, faults + cost <= MaxFaults,
         NEW between \in SUBSET {"timeout", "answer"},
         Issue(cmd, offset, next, tries, left, cost, between)
  PROVE  /\ fsm_state_' \in States /\ try_count_' \in 0 .. ProgressTryLimit
         /\ faults' \in 0 .. MaxFaults
         /\ \A q \in BagToSet(requests') : Valid(q)
<1> DEFINE Q(out) == [cmd |-> cmd, offset |-> offset, sent |-> out,
                      between |-> IF out THEN between ELSE {"timeout"}]
<1>1. PICK fails \in 0 .. MaxFaults - faults - cost :
        LET given_up == tries + fails >= Limit(cmd)
            failed == left (+) Copies(Q(FALSE), fails)
        IN  /\ tries + fails <= Limit(cmd)
            /\ fsm_state_' = IF given_up THEN EndState(next, LastEvent(cmd)) ELSE next
            /\ try_count_' = IF given_up THEN 0 ELSE tries + fails
            /\ requests' = IF given_up THEN failed ELSE BagAdd(failed, Q(TRUE))
            /\ faults' = faults + cost + fails
  BY DEF Issue
<1>2. Limit(cmd) \in Nat /\ Limit(cmd) <= ProgressTryLimit
  BY UpgraderAssumption DEF Limit
<1>3. fails \in Nat /\ faults' \in 0 .. MaxFaults
  BY <1>1, UpgraderAssumption DEF Ranged
<1>4. try_count_' \in 0 .. ProgressTryLimit
  BY <1>1, <1>2, <1>3, UpgraderAssumption
<1>5. fsm_state_' \in States
  BY <1>1 DEF EndState, LastEvent, States
<1>7. ASSUME NEW q \in BagToSet(requests')
      PROVE  Valid(q)
  <2>1. q \in BagToSet(left) \cup {Q(FALSE), Q(TRUE)}
    <3> DEFINE failed == left (+) Copies(Q(FALSE), fails)
    <3>1. BagToSet(failed) \subseteq BagToSet(left) \cup {Q(FALSE)}
      BY BagSets
    <3>2. BagToSet(BagAdd(failed, Q(TRUE))) \subseteq BagToSet(failed) \cup {Q(TRUE)}
      BY ZenonT(30), BagSets
    <3>3. requests' = failed \/ requests' = BagAdd(failed, Q(TRUE))
      BY <1>1
    <3> HIDE DEF failed, Q
    <3>4. QED
      BY <1>7, <3>1, <3>2, <3>3
  <2>2. CASE q \in BagToSet(left)
    BY <2>2
  <2>3. CASE q \in {Q(FALSE), Q(TRUE)}
    <3>1. \A out \in BOOLEAN : Q(out) \in Registrable /\ Q(out).cmd = cmd /\ Q(out).offset = offset
      BY DEF Registrable
    <3> HIDE DEF Q
    <3>2. QED
      BY <2>3, <3>1 DEF Valid
  <2>4. QED
    BY <2>1, <2>2, <2>3
<1>8. QED
  BY <1>3, <1>4, <1>5, <1>7

LEMMA HandlerRanged ==
  ASSUME Ranged, NEW event, NEW tries \in 0 .. ProgressTryLimit,
         NEW offset \in Nat, offset % ReadLength = 0,
         NEW left, \A q \in BagToSet(left) : Valid(q),
         NEW cost \in Nat, faults + cost <= MaxFaults,
         NEW between \in SUBSET {"timeout", "answer"},
         FsmEventHandler(event, tries, offset, left, cost, between), doubled' \in BOOLEAN,
         written' \subseteq Blocks, upgrade_thread_' \in {"created", "run", "destroyed"}
  PROVE  Ranged'
<1> DEFINE state == IF event = "Err" THEN "Err" ELSE fsm_state_
<1> DEFINE rows == {r \in upgrade_event_table : r.state = state /\ r.event = event}
<1> DEFINE row == CHOOSE x \in rows : TRUE
<1>0. state \in States /\ 0 % ReadLength = 0
  <2>1. ReadLength \in Nat \ {0}
    BY UpgraderAssumption
  <2>2. (ReadLength * 0 + 0) % ReadLength = 0
    BY <2>1, ModUnique
  <2>3. QED
    BY <2>1, <2>2 DEF Ranged, States
<1>1. rows # {} => row \in upgrade_event_table
  OBVIOUS
<1>2. \/ /\ fsm_state_' = IF rows = {} THEN state ELSE row.next
         /\ try_count_' = tries /\ requests' = left /\ faults' = faults + cost
      \/ /\ rows # {} /\ row.handler # "none"
         /\ row.handler = "XferFirmware" => offset < FirmwareLength /\ read_offset_' = offset
         /\ Issue(row.handler, read_offset_', row.next, tries, left, cost, between)
  <2>1. offset >= FirmwareLength \/ offset < FirmwareLength
    BY UpgraderAssumption
  <2>2. QED
    BY <2>1 DEF FsmEventHandler
<1>3. read_offset_' = offset \/ read_offset_' = 0
  BY DEF FsmEventHandler
<1>4. read_offset_' \in Nat /\ read_offset_' % ReadLength = 0
  BY <1>0, <1>3
<1> HIDE DEF state, rows, row
<1>5. CASE /\ fsm_state_' = IF rows = {} THEN state ELSE row.next
           /\ try_count_' = tries /\ requests' = left /\ faults' = faults + cost
  <2>1. fsm_state_' \in States
    BY <1>0, <1>1, <1>5, TableRows
  <2>2. QED
    BY <1>4, <1>5, <2>1, UpgraderAssumption DEF Ranged
<1>6. CASE /\ rows # {} /\ row.handler # "none"
           /\ row.handler = "XferFirmware" => offset < FirmwareLength /\ read_offset_' = offset
           /\ Issue(row.handler, read_offset_', row.next, tries, left, cost, between)
  <2>1. row.handler \in Handlers /\ row.next \in States
    BY <1>1, <1>6, TableRows
  <2>2. row.handler = "XferFirmware" => read_offset_' \in Blocks
    BY <1>4, <1>6, UpgraderAssumption DEF Blocks
  <2>3. QED
    BY <1>4, <1>6, <2>1, <2>2, IssueRanged DEF Ranged
<1>7. QED
  BY <1>2, <1>5, <1>6

LEMMA RangedInit == UpgradeInit => Ranged
<1> SUFFICES ASSUME UpgradeInit PROVE Ranged
  OBVIOUS
<1>1. ReadLength \in Nat \ {0}
  BY UpgraderAssumption
<1>2. (ReadLength * 0 + 0) % ReadLength = 0
  BY <1>1, ModUnique
<1>3. BagToSet(EmptyBag) = {}
  BY DEF BagToSet, EmptyBag, SetToBag
<1>4. QED
  <2>1. 0 \in 0 .. ProgressTryLimit /\ 0 \in 0 .. MaxFaults
    BY UpgraderAssumption
  <2>2. read_offset_ \in Nat /\ read_offset_ % ReadLength = 0
    BY <1>1, <1>2 DEF UpgradeInit
  <2>3. QED
    BY <1>3, <2>1, <2>2 DEF UpgradeInit, Ranged, States

\* What a callback of q leaves registered: q as it was, but for its fields.
LEMMA LeftValid ==
  ASSUME NEW q \in BagToSet(requests), \A p \in BagToSet(requests) : Valid(p),
         NEW early, NEW answerable \in BOOLEAN
  PROVE  \A p \in BagToSet(Left(q, early, answerable)) : Valid(p)
<1> DEFINE again == [q EXCEPT !.sent = answerable, !.between = {}]
           others == BagRemove(requests, q)
<1>1. Valid(again)
  BY DEF Valid, Registrable
<1> HIDE DEF again
<1>2. BagToSet(others) \subseteq BagToSet(requests)
  BY BagSets
<1>3. BagToSet(BagAdd(others, again)) \subseteq BagToSet(others) \cup {again}
  BY BagSets
<1>4. Left(q, early, answerable) \in {others, BagAdd(others, again)}
  BY DEF Left, again
<1> HIDE DEF others
<1>5. QED
  BY <1>1, <1>2, <1>3, <1>4

LEMMA RangedNext == Ranged /\ [UpgradeNext]_upgradeVars => Ranged'
<1> SUFFICES ASSUME Ranged, [UpgradeNext]_upgradeVars PROVE Ranged'
  OBVIOUS
<1>0. /\ ReadLength \in Nat \ {0} /\ MaxFaults \in Nat /\ faults \in Nat
      /\ TryLimit \in Nat /\ ProgressTryLimit \in Nat /\ TryLimit <= ProgressTryLimit
      /\ read_offset_ \in Nat /\ read_offset_ % ReadLength = 0 /\ faults <= MaxFaults
      /\ try_count_ \in 0 .. ProgressTryLimit /\ written \subseteq Blocks
      /\ upgrade_thread_ \in {"created", "run", "destroyed"}
      /\ 0 \in 0 .. ProgressTryLimit /\ 0 \in Nat /\ faults + 0 <= MaxFaults
      /\ \A q \in BagToSet(requests) : Valid(q)
      /\ {FromCmdThread, FromOtherThread} \subseteq SUBSET {"timeout", "answer"}
      /\ \A b : Cost(b) \in {0, 1}
  BY UpgraderAssumption DEF Ranged, FromCmdThread, FromOtherThread, Cost
<1>1. CASE StartUpgradeLivoxLidar
  <2>1. /\ FsmEventHandler("RequestUpgrade", try_count_, read_offset_, requests, 0, FromOtherThread)
        /\ upgrade_thread_' = "run" /\ written' = written
    BY <1>1 DEF StartUpgradeLivoxLidar
  <2>2. doubled' \in BOOLEAN
    BY <1>1, Zenon DEF StartUpgradeLivoxLidar, Twice
  <2>3. QED
    BY <1>0, <2>1, <2>2, HandlerRanged
<1>2. CASE Destroy
  BY <1>2 DEF Destroy, Ranged
<1>3. ASSUME NEW q \in BagToSet(requests), NEW early \in BOOLEAN, Succeeded(q, early) PROVE Ranged'
  <2>1. Advance(q) \in Nat /\ Advance(q) % ReadLength = 0
    BY <1>0, NextBlock DEF Advance
  <2>2. written' \subseteq Blocks
    BY <1>0, <1>3 DEF Succeeded, Store, Valid
  <2>3. PICK e \in NextEvents(q) :
          FsmEventHandler(e, 0, Advance(q), Left(q, early, FALSE), Cost(early), FromCmdThread)
    BY <1>3 DEF Succeeded
  <2>4. upgrade_thread_' = upgrade_thread_ /\ faults + Cost(early) <= MaxFaults
    BY <1>3 DEF Succeeded, CallsBack
  <2>5. doubled' \in BOOLEAN
    BY <1>3, Zenon DEF Succeeded, Twice
  <2>6. \A p \in BagToSet(Left(q, early, FALSE)) : Valid(p)
    BY <1>0, LeftValid, Zenon
  <2>7. Cost(early) \in Nat
    BY <1>0
  <2>8. QED
    BY <1>0, <2>1, <2>2, <2>3, <2>4, <2>5, <2>6, <2>7, HandlerRanged
<1>4. ASSUME NEW q \in BagToSet(requests), NEW early \in BOOLEAN, Busy(q, early) PROVE Ranged'
  <2> DEFINE cost == 1 + Cost(early)
  <2>1. /\ FsmEventHandler("RequestUpgrade", 0, read_offset_, Left(q, early, FALSE), cost, FromCmdThread)
        /\ faults + cost <= MaxFaults /\ written' = written /\ upgrade_thread_' = upgrade_thread_
    BY <1>4 DEF Busy, CallsBack
  <2>2. doubled' \in BOOLEAN
    BY <1>4, Zenon DEF Busy, Twice
  <2>3. \A p \in BagToSet(Left(q, early, FALSE)) : Valid(p)
    BY <1>0, LeftValid, Zenon
  <2>4. cost \in Nat
    BY <1>0
  <2> HIDE DEF cost
  <2>5. QED
    BY <1>0, <2>1, <2>2, <2>3, <2>4, HandlerRanged
<1>5. ASSUME NEW q \in BagToSet(requests), NEW early \in BOOLEAN, Failed(q, early) PROVE Ranged'
  <2> DEFINE cost == Cost(Acceptable(q)) + Cost(early)
  <2>1. /\ FsmEventHandler("Err", 0, read_offset_, Left(q, early, FALSE), cost, FromCmdThread)
        /\ written' = written /\ upgrade_thread_' = upgrade_thread_ /\ faults + cost <= MaxFaults
    BY <1>5 DEF Failed, CallsBack
  <2>2. doubled' \in BOOLEAN
    BY <1>5, Zenon DEF Failed, Twice
  <2>3. \A p \in BagToSet(Left(q, early, FALSE)) : Valid(p)
    BY <1>0, LeftValid, Zenon
  <2>4. cost \in Nat
    BY <1>0
  <2> HIDE DEF cost
  <2>5. QED
    BY <1>0, <2>1, <2>2, <2>3, <2>4, HandlerRanged
<1>6. ASSUME NEW q \in BagToSet(requests), NEW early \in BOOLEAN, NEW done \in BOOLEAN,
             TimedOutAfter(q, done, early)
      PROVE  Ranged'
  <2> DEFINE cost == Cost(q.sent) + Cost(early)
             tries == try_count_ + 1
             again == tries < Limit(q.cmd)
             next == IF again THEN tries ELSE 0
             event == IF again THEN EventOf(q.cmd) ELSE LastEvent(q.cmd)
  <2>1. PICK thread \in {FromCmdThread, FromOtherThread} :
          FsmEventHandler(event, next, read_offset_, Left(q, early, q.sent), cost, thread)
    BY <1>6 DEF TimedOutAfter, OffsetUnanswered
  <2>2. written' \subseteq Blocks /\ upgrade_thread_' = upgrade_thread_ /\ faults + cost <= MaxFaults
    BY <1>0, <1>6 DEF TimedOutAfter, CallsBack, Store, Valid
  <2>3. next \in 0 .. ProgressTryLimit
    <3>1. Limit(q.cmd) \in Nat /\ Limit(q.cmd) <= ProgressTryLimit
      BY <1>0 DEF Limit
    <3>2. QED
      BY <1>0, <3>1
  <2>4. doubled' \in BOOLEAN
    BY <1>6, Zenon DEF TimedOutAfter, Twice
  <2>5. cost \in Nat /\ \A p \in BagToSet(Left(q, early, q.sent)) : Valid(p)
    <3>1. q.sent \in BOOLEAN
      BY <1>0 DEF Valid, Registrable
    <3>2. QED
      BY <1>0, <3>1, LeftValid
  <2> HIDE DEF cost, tries, again, next, event
  <2>6. QED
    BY <1>0, <2>1, <2>2, <2>3, <2>4, <2>5, HandlerRanged
<1>7. CASE UNCHANGED upgradeVars
  BY <1>7 DEF upgradeVars, Ranged
<1>8. QED
  BY <1>1, <1>2, <1>3, <1>4, <1>5, <1>6, <1>7 DEF UpgradeNext

\* Whatever is lost, repeated or called back twice: no command asks for a block that the
\* image does not have, and the lidar stores none.
THEOREM InRange == UpgradeSpec => []Ranged
BY RangedInit, RangedNext, PTL DEF UpgradeSpec

-----------------------------------------------------------------------------
(* Upgrader: one flow of control *)

\* The lidar has what the state says it has.
Stored(q) ==
  /\ q.cmd = "StartUpgrade" => read_offset_ = 0
  /\ q.cmd = "XferFirmware" =>
       /\ q.offset = read_offset_ /\ read_offset_ \in Blocks
       /\ \A o \in Blocks : o < read_offset_ => o \in written
  /\ q.cmd \in {"CompleteXferFirmware", "GetUpgradeProgress", "RequestReboot"} => written = Blocks

Resting == requests = EmptyBag /\ fsm_state_ \in {"Idle", "Err"}

Waiting(q) ==
  /\ requests = Only(q) /\ q.sent /\ q.cmd \in Handlers
  /\ fsm_state_ = StateOf(q.cmd)
  /\ Stored(q)

OneFlow ==
  /\ upgrade_thread_ = "created" => fsm_state_ = "Idle" /\ requests = EmptyBag
  /\ ~doubled => Resting \/ \E q : Waiting(q)

\* What a handler does to an upgrade without any other registered command: its command is
\* the only one, or the tries are used up.
LEMMA Handled ==
  ASSUME NEW event, NEW tries, NEW offset, NEW cost, NEW between,
         FsmEventHandler(event, tries, offset, EmptyBag, cost, between), ~(faults' > faults + cost),
         cost \in Nat, faults \in Nat,
         NEW r \in upgrade_event_table, event # "Err", r.state = fsm_state_, r.event = event
  PROVE  /\ read_offset_' = IF r.handler = "StartUpgrade" THEN 0 ELSE offset
         /\ IF r.handler = "none" \/ (r.handler = "XferFirmware" /\ offset >= FirmwareLength)
              THEN requests' = EmptyBag /\ fsm_state_' = r.next
              ELSE \/ requests' = EmptyBag /\ fsm_state_' \in {"Idle", "Err"}
                   \/ /\ fsm_state_' = r.next
                      /\ requests' = Only([cmd |-> r.handler, offset |-> read_offset_', sent |-> TRUE,
                                           between |-> between])
<1> DEFINE rows == {x \in upgrade_event_table : x.state = fsm_state_ /\ x.event = event}
<1>1. rows # {} /\ (CHOOSE x \in rows : TRUE) = r
  <2>1. r \in rows
    OBVIOUS
  <2>2. \A x \in rows : x = r
    BY TableFunctional
  <2>3. QED
    BY <2>1, <2>2
<1> HIDE DEF rows
<1> DEFINE skip == r.handler = "none" \/ (r.handler = "XferFirmware" /\ offset >= FirmwareLength)
<1>2. /\ read_offset_' = IF r.handler = "StartUpgrade" THEN 0 ELSE offset
      /\ skip => requests' = EmptyBag /\ fsm_state_' = r.next
      /\ ~skip => Issue(r.handler, read_offset_', r.next, tries, EmptyBag, cost, between)
  BY <1>1 DEF FsmEventHandler, rows
<1>3. ASSUME ~skip
      PROVE  \/ requests' = EmptyBag /\ fsm_state_' \in {"Idle", "Err"}
             \/ /\ fsm_state_' = r.next
                /\ requests' = Only([cmd |-> r.handler, offset |-> read_offset_', sent |-> TRUE,
                                     between |-> between])
  <2> DEFINE Q(out) == [cmd |-> r.handler, offset |-> read_offset_', sent |-> out,
                        between |-> IF out THEN between ELSE {"timeout"}]
  <2>1. PICK fails \in 0 .. MaxFaults - faults - cost :
          LET given_up == tries + fails >= Limit(r.handler)
              failed == EmptyBag (+) Copies(Q(FALSE), fails)
          IN  /\ fsm_state_' = IF given_up THEN EndState(r.next, LastEvent(r.handler)) ELSE r.next
              /\ requests' = IF given_up THEN failed ELSE BagAdd(failed, Q(TRUE))
              /\ faults' = faults + cost + fails
    BY <1>2, <1>3 DEF Issue
  <2>2. fails = 0
    BY <2>1, UpgraderAssumption
  <2>3. EmptyBag (+) Copies(Q(FALSE), fails) = EmptyBag
    BY <2>2, BagOfOne
  <2>4. EndState(r.next, LastEvent(r.handler)) \in {"Idle", "Err"}
    BY DEF EndState, LastEvent
  <2>5. QED
    BY <2>1, <2>3, <2>4, BagOfOne
<1>4. QED
  BY <1>2, <1>3

LEMMA OneFlowInit == UpgradeInit => OneFlow
BY DEF UpgradeInit, OneFlow, Resting

\* An event whose row sends a command that the lidar's blocks allow.
LEMMA GoesOn ==
  ASSUME Ranged, NEW event, NEW tries, NEW offset, NEW cost \in Nat, NEW between,
         FsmEventHandler(event, tries, offset, EmptyBag, cost, between),
         ~(faults' > faults + cost), written' \subseteq Blocks,
         upgrade_thread_' = "run",
         NEW r \in upgrade_event_table, event # "Err", r.state = fsm_state_, r.event = event,
         r.handler # "none",
         r.handler = "XferFirmware" =>
           /\ offset \in Blocks
           /\ \A o \in Blocks : o < offset => o \in written',
         r.handler \in {"CompleteXferFirmware", "GetUpgradeProgress", "RequestReboot"} =>
           written' = Blocks
  PROVE  OneFlow'
<1> PICK q : q = [cmd |-> r.handler, offset |-> read_offset_', sent |-> TRUE, between |-> between]
  OBVIOUS
<1>1. faults \in Nat
  BY UpgraderAssumption DEF Ranged
<1>2. ~(r.handler = "XferFirmware" /\ offset >= FirmwareLength)
  BY UpgraderAssumption DEF Blocks
<1>3. /\ read_offset_' = IF r.handler = "StartUpgrade" THEN 0 ELSE offset
      /\ \/ requests' = EmptyBag /\ fsm_state_' \in {"Idle", "Err"}
         \/ fsm_state_' = r.next /\ requests' = Only(q)
  BY <1>1, <1>2, Handled
<1>4. r.handler \in Handlers /\ r.next = StateOf(r.handler)
  BY TableRows
<1>5. Resting' \/ Waiting(q)'
  BY <1>3, <1>4 DEF Resting, Waiting, Stored
<1>6. QED
  BY <1>5 DEF OneFlow

\* After an error nothing is left to call back.
LEMMA ErrStops ==
  ASSUME NEW tries, NEW offset, NEW cost, NEW between,
         FsmEventHandler("Err", tries, offset, EmptyBag, cost, between)
  PROVE  Resting'
<1> DEFINE rows == {r \in upgrade_event_table : r.state = "Err" /\ r.event = "Err"}
<1>1. rows = {}
  BY TableRows
<1>2. QED
  BY <1>1 DEF FsmEventHandler, Resting

\* Once doubled, always doubled; until then a callback takes its command out of the bag.
LEMMA NotDoubled ==
  ASSUME NEW early, NEW cost, Twice(early, cost), ~doubled'
  PROVE  ~doubled /\ ~early /\ ~(faults' > faults + cost)
BY Zenon DEF Twice

LEMMA TakenOut ==
  ASSUME NEW q, NEW early, ~early, NEW answerable
  PROVE  Left(q, early, answerable) = BagRemove(requests, q)
BY DEF Left

LEMMA OneFlowNext == Ranged /\ Ranged' /\ OneFlow /\ [UpgradeNext]_upgradeVars => OneFlow'
<1> SUFFICES ASSUME Ranged, Ranged', OneFlow, [UpgradeNext]_upgradeVars PROVE OneFlow'
  OBVIOUS
<1>0. /\ written' \subseteq Blocks /\ 0 \in Nat /\ \A b : Cost(b) \in {0, 1}
      /\ read_offset_ \in Nat /\ read_offset_ % ReadLength = 0
      /\ ReadLength \in Nat \ {0} /\ FirmwareLength \in Nat \ {0}
  BY UpgraderAssumption DEF Ranged, Cost
<1>1. CASE StartUpgradeLivoxLidar
  <2>1. /\ FsmEventHandler("RequestUpgrade", try_count_, read_offset_, EmptyBag, 0, FromOtherThread)
        /\ upgrade_thread_' = "run" /\ fsm_state_ = "Idle" /\ Twice(FALSE, 0)
    BY <1>1 DEF StartUpgradeLivoxLidar, OneFlow
  <2>2. PICK r \in upgrade_event_table :
          r.state = "Idle" /\ r.event = "RequestUpgrade" /\ r.handler = "StartUpgrade"
    BY DEF upgrade_event_table, Row
  <2>3. CASE doubled'
    BY <2>1, <2>3 DEF OneFlow
  <2>4. CASE ~doubled'
    <3>1. ~(faults' > faults + 0)
      BY <2>1, <2>4, NotDoubled
    <3>2. QED
      BY <1>0, <2>1, <2>2, <3>1, GoesOn
  <2>5. QED
    BY <2>3, <2>4
<1>2. CASE Destroy
  BY <1>2 DEF Destroy, OneFlow, Resting, Waiting, Stored
<1>3. CASE UNCHANGED upgradeVars
  BY <1>3 DEF upgradeVars, OneFlow, Resting, Waiting, Stored
<1>4. ASSUME NEW q \in BagToSet(requests), ~doubled
      PROVE  BagRemove(requests, q) = EmptyBag /\ Waiting(q)
  <2>1. ~Resting
    BY <1>4, BagOfOne DEF Resting
  <2>2. PICK p : Waiting(p)
    BY <1>4, <2>1 DEF OneFlow
  <2>3. p = q
    BY <1>4, <2>2, BagOfOne DEF Waiting
  <2>4. QED
    BY <2>2, <2>3, BagOfOne DEF Waiting
<1>5. ASSUME NEW q \in BagToSet(requests), NEW early \in BOOLEAN, Succeeded(q, early), ~doubled'
      PROVE  OneFlow'
  <2>1. PICK e \in NextEvents(q) :
          FsmEventHandler(e, 0, Advance(q), Left(q, early, FALSE), Cost(early), FromCmdThread)
    BY <1>5 DEF Succeeded
  <2>10. ~doubled /\ ~early /\ ~(faults' > faults + Cost(early))
    <3>1. Twice(early, Cost(early))
      BY <1>5 DEF Succeeded
    <3>2. QED
      BY <1>5, <3>1, NotDoubled
  <2>11. Cost(early) = 0 /\ ~(faults' > faults + 0)
    BY <2>10 DEF Cost
  <2>2. Waiting(q) /\ FsmEventHandler(e, 0, Advance(q), EmptyBag, 0, FromCmdThread)
    <3>1. Left(q, early, FALSE) = EmptyBag /\ Waiting(q)
      BY <1>4, <1>5, <2>10, TakenOut
    <3>2. QED
      BY <2>1, <2>11, <3>1
  <2>3. upgrade_thread_' = "run" /\ Acceptable(q) /\ Store(q)
    BY <1>5 DEF Succeeded, CallsBack
  <2>4. fsm_state_ = StateOf(q.cmd) /\ q.cmd \in Handlers /\ Stored(q)
    BY <2>2 DEF Waiting
  <2>5. CASE q.cmd = "StartUpgrade"
    <3>1. e = "XferFirmware" /\ Advance(q) = 0 /\ fsm_state_ = "Request"
      BY <2>4, <2>5 DEF NextEvents, Advance, Stored, StateOf
    <3>2. PICK r \in upgrade_event_table :
            r.state = "Request" /\ r.event = "XferFirmware" /\ r.handler = "XferFirmware"
      BY DEF upgrade_event_table, Row
    <3>3. 0 \in Blocks /\ \A o \in Blocks : ~(o < 0)
      <4>1. (ReadLength * 0 + 0) % ReadLength = 0
        BY <1>0, ModUnique
      <4>2. QED
        BY <1>0, <4>1 DEF Blocks
    <3>4. QED
      BY <1>0, <2>2, <2>3, <2>11, <3>1, <3>2, <3>3, GoesOn
  <2>6. CASE q.cmd = "XferFirmware"
    <3>1. /\ fsm_state_ = "XferFirmware" /\ Advance(q) = read_offset_ + ReadLength
          /\ e = IF Advance(q) < FirmwareLength THEN "XferFirmware" ELSE "CompleteXferFirmware"
          /\ written' = written \cup {read_offset_}
      BY <2>3, <2>4, <2>6 DEF NextEvents, Advance, Stored, StateOf, Store
    <3>2. ASSUME NEW o \in Blocks, o < Advance(q) PROVE o \in written'
      <4>1. o <= read_offset_
        BY <1>0, <3>1, <3>2, NextBlock
      <4>2. o = read_offset_ \/ o < read_offset_
        BY <1>0, <4>1 DEF Blocks
      <4>3. QED
        BY <2>4, <2>6, <3>1, <4>2 DEF Stored
    <3>3. Advance(q) \in Nat /\ Advance(q) % ReadLength = 0
      BY <1>0, <3>1, NextBlock
    <3>4. CASE Advance(q) < FirmwareLength
      <4>1. PICK r \in upgrade_event_table :
              r.state = "XferFirmware" /\ r.event = "XferFirmware" /\ r.handler = "XferFirmware"
        BY DEF upgrade_event_table, Row
      <4>2. Advance(q) \in Blocks
        BY <1>0, <3>3, <3>4 DEF Blocks
      <4>3. QED
        BY <1>0, <2>2, <2>3, <2>11, <3>1, <3>2, <3>4, <4>1, <4>2, GoesOn
    <3>5. CASE ~(Advance(q) < FirmwareLength)
      <4>1. PICK r \in upgrade_event_table :
              /\ r.state = "XferFirmware" /\ r.event = "CompleteXferFirmware"
              /\ r.handler = "CompleteXferFirmware"
        BY DEF upgrade_event_table, Row
      <4>2. \A o \in Blocks : o < Advance(q)
        BY <1>0, <3>3, <3>5 DEF Blocks
      <4>3. written' = Blocks
        BY <1>0, <3>2, <4>2
      <4>4. QED
        BY <1>0, <2>2, <2>3, <2>11, <3>1, <3>5, <4>1, <4>3, GoesOn
    <3>6. QED
      BY <3>4, <3>5
  <2>7. CASE q.cmd \in {"CompleteXferFirmware", "GetUpgradeProgress"}
    <3>1. /\ fsm_state_ = q.cmd /\ written' = written /\ written = Blocks
          /\ e = "GetUpgradeProgress" \/ (q.cmd = "GetUpgradeProgress" /\ e = "Complete")
      BY <2>3, <2>4, <2>7 DEF NextEvents, Stored, StateOf, Store
    <3>2. PICK r \in upgrade_event_table :
            /\ r.state = q.cmd /\ r.event = e
            /\ r.handler = IF e = "Complete" THEN "RequestReboot" ELSE "GetUpgradeProgress"
      BY <2>7, <3>1 DEF upgrade_event_table, Row
    <3>3. QED
      BY <1>0, <2>2, <2>3, <2>11, <3>1, <3>2, GoesOn
  <2>8. CASE q.cmd = "RequestReboot"
    <3>1. fsm_state_ = "Complete" /\ e = "Reinit"
      BY <2>4, <2>8 DEF NextEvents, StateOf
    <3>2. PICK r \in upgrade_event_table :
            r.state = "Complete" /\ r.event = "Reinit" /\ r.handler = "none" /\ r.next = "Idle"
      BY DEF upgrade_event_table, Row
    <3>3. faults \in Nat
      BY UpgraderAssumption DEF Ranged
    <3>4. requests' = EmptyBag /\ fsm_state_' = "Idle"
      BY <1>0, <2>2, <2>11, <3>1, <3>2, <3>3, Handled
    <3>5. QED
      BY <2>3, <3>4 DEF OneFlow, Resting
  <2>9. QED
    BY <2>4, <2>5, <2>6, <2>7, <2>8 DEF Handlers
<1>6. ASSUME NEW q \in BagToSet(requests), NEW early \in BOOLEAN, Busy(q, early), ~doubled'
      PROVE  OneFlow'
  <2>1. PICK cost \in Nat :
          /\ FsmEventHandler("RequestUpgrade", 0, read_offset_, Left(q, early, FALSE), cost, FromCmdThread)
          /\ q.cmd = "StartUpgrade" /\ upgrade_thread_' = "run" /\ Twice(early, cost)
    <3>1. 1 + Cost(early) \in Nat
      BY <1>0
    <3>2. QED
      BY <1>6, <3>1 DEF Busy, CallsBack
  <2>2. ~doubled /\ ~early /\ ~(faults' > faults + cost)
    BY <1>6, <2>1, NotDoubled
  <2>3. fsm_state_ = "Request" /\ Left(q, early, FALSE) = EmptyBag
    BY <1>4, <1>6, <2>1, <2>2, TakenOut DEF Waiting, StateOf
  <2>4. PICK r \in upgrade_event_table :
          r.state = "Request" /\ r.event = "RequestUpgrade" /\ r.handler = "StartUpgrade"
    BY DEF upgrade_event_table, Row
  <2>5. QED
    BY <1>0, <2>1, <2>2, <2>3, <2>4, GoesOn
<1>7. ASSUME NEW q \in BagToSet(requests), NEW early \in BOOLEAN, Failed(q, early), ~doubled'
      PROVE  OneFlow'
  <2>1. PICK cost : /\ FsmEventHandler("Err", 0, read_offset_, Left(q, early, FALSE), cost, FromCmdThread)
                    /\ upgrade_thread_' = "run" /\ Twice(early, cost)
    BY <1>7 DEF Failed, CallsBack
  <2>2. ~doubled /\ ~early
    BY <1>7, <2>1, NotDoubled
  <2>3. Left(q, early, FALSE) = EmptyBag
    BY <1>4, <1>7, <2>2, TakenOut
  <2>4. Resting'
    BY <2>1, <2>3, ErrStops
  <2>5. QED
    BY <2>1, <2>4 DEF OneFlow
<1>8. ASSUME NEW q \in BagToSet(requests), NEW early \in BOOLEAN, NEW done \in BOOLEAN,
             TimedOutAfter(q, done, early), ~doubled'
      PROVE  OneFlow'
  <2> DEFINE again == try_count_ + 1 < Limit(q.cmd)
  <2>0. PICK cost \in Nat :
          /\ \E tries, thread :
               FsmEventHandler(IF again THEN EventOf(q.cmd) ELSE LastEvent(q.cmd), tries, read_offset_,
                               Left(q, early, q.sent), cost, thread)
          /\ Twice(early, cost)
    <3>1. Cost(q.sent) + Cost(early) \in Nat
      BY <1>0
    <3>2. QED
      BY <1>8, <3>1 DEF TimedOutAfter, OffsetUnanswered
  <2>1. PICK tries, thread :
          FsmEventHandler(IF again THEN EventOf(q.cmd) ELSE LastEvent(q.cmd), tries, read_offset_,
                          Left(q, early, q.sent), cost, thread)
    BY <2>0
  <2>9. ~doubled /\ ~early /\ ~(faults' > faults + cost)
    BY <1>8, <2>0, NotDoubled
  <2>2. /\ upgrade_thread_' = "run"
        /\ Store(q) \/ UNCHANGED written
    BY <1>8 DEF TimedOutAfter, CallsBack
  <2>3. Waiting(q) /\ Left(q, early, q.sent) = EmptyBag
    BY <1>4, <1>8, <2>9, TakenOut
  <2>4. q.cmd \in Handlers /\ fsm_state_ = StateOf(q.cmd) /\ Stored(q)
    BY <2>3 DEF Waiting
  <2>5. CASE again
    <3>1. PICK r \in upgrade_event_table :
            r.state = StateOf(q.cmd) /\ r.event = EventOf(q.cmd) /\ r.handler = q.cmd
      BY <2>4 DEF upgrade_event_table, Row, StateOf, EventOf, Handlers
    <3>2. EventOf(q.cmd) # "Err"
      BY <2>4 DEF EventOf, Handlers
    <3>3. /\ q.cmd = "XferFirmware" => /\ read_offset_ \in Blocks
                                      /\ \A o \in Blocks : o < read_offset_ => o \in written'
          /\ q.cmd \in {"CompleteXferFirmware", "GetUpgradeProgress", "RequestReboot"} =>
               written' = Blocks
      BY <2>2, <2>4 DEF Stored, Store
    <3>4. FsmEventHandler(EventOf(q.cmd), tries, read_offset_, EmptyBag, cost, thread)
      BY <2>1, <2>3, <2>5
    <3>5. q.cmd # "none"
      BY <2>4 DEF Handlers
    <3>6. QED
      BY <1>0, <2>2, <2>4, <2>9, <3>1, <3>2, <3>3, <3>4, <3>5, GoesOn
  <2>6. CASE ~again /\ q.cmd = "RequestReboot"
    <3>1. FsmEventHandler("Reinit", tries, read_offset_, EmptyBag, cost, thread) /\ fsm_state_ = "Complete"
      BY <2>1, <2>3, <2>4, <2>6 DEF LastEvent, StateOf
    <3>2. PICK r \in upgrade_event_table :
            r.state = "Complete" /\ r.event = "Reinit" /\ r.handler = "none" /\ r.next = "Idle"
      BY DEF upgrade_event_table, Row
    <3>3. faults \in Nat
      BY UpgraderAssumption DEF Ranged
    <3>4. requests' = EmptyBag /\ fsm_state_' = "Idle"
      BY <2>9, <3>1, <3>2, <3>3, Handled
    <3>5. QED
      BY <2>2, <3>4 DEF OneFlow, Resting
  <2>7. CASE ~again /\ q.cmd # "RequestReboot"
    <3>1. FsmEventHandler("Err", tries, read_offset_, EmptyBag, cost, thread)
      BY <2>1, <2>3, <2>7 DEF LastEvent
    <3>2. QED
      BY <2>2, <3>1, ErrStops DEF OneFlow
  <2>10. QED
    BY <2>5, <2>6, <2>7
<1>9. CASE \E q \in BagToSet(requests), early \in BOOLEAN :
             \/ Succeeded(q, early) \/ Busy(q, early) \/ Failed(q, early)
             \/ \E done \in BOOLEAN : TimedOutAfter(q, done, early)
  <2>1. upgrade_thread_' = "run"
    BY <1>9 DEF Succeeded, Busy, Failed, TimedOutAfter, CallsBack
  <2>2. CASE doubled'
    BY <2>1, <2>2 DEF OneFlow
  <2>3. CASE ~doubled'
    BY <1>5, <1>6, <1>7, <1>8, <1>9, <2>3
  <2>4. QED
    BY <2>2, <2>3
<1>10. QED
  BY <1>1, <1>2, <1>3, <1>9 DEF UpgradeNext

\* The response handlers declare an image complete, and have the lidar restart, only when
\* every block of it arrived, in whatever way requests and answers were lost and repeated,
\* as long as no command called back twice.
THEOREM CompleteImage == UpgradeSpec => []ImageComplete
<1>1. Ranged /\ OneFlow => ImageComplete
  <2> SUFFICES ASSUME OneFlow, ~doubled,
                      fsm_state_ \in {"CompleteXferFirmware", "GetUpgradeProgress", "Complete"}
               PROVE  written = Blocks
    BY DEF ImageComplete
  <2>1. PICK q : Waiting(q)
    BY DEF OneFlow, Resting
  <2>2. q.cmd \in {"CompleteXferFirmware", "GetUpgradeProgress", "RequestReboot"}
    BY <2>1 DEF Waiting, StateOf, Handlers
  <2>3. QED
    BY <2>1, <2>2 DEF Waiting, Stored
<1>2. QED
  BY <1>1, RangedInit, RangedNext, OneFlowInit, OneFlowNext, PTL DEF UpgradeSpec

-----------------------------------------------------------------------------
(* Upgrader: how far the offset can run *)

\* The bag of commands that the numbers in S stand for.
BagOf(f, S) == [q \in {f[i] : i \in S} |-> Count({i \in S : f[i] = q})]

LEMMA Alike ==
  ASSUME NEW S, Finite(S), NEW f, NEW q
  PROVE  /\ Finite({i \in S : f[i] = q}) /\ Count({i \in S : f[i] = q}) \in Nat
         /\ Count({i \in S : f[i] = q}) = 0 <=> q \notin {f[i] : i \in S}
<1> DEFINE A == {i \in S : f[i] = q}
<1>1. A \subseteq S /\ (A = {} <=> q \notin {f[i] : i \in S})
  OBVIOUS
<1> HIDE DEF A
<1>2. Finite(A) /\ Count(A) \in Nat /\ (Count(A) = 0 <=> A = {})
  BY <1>1, CountPart, CountNat
<1>3. QED
  BY <1>1, <1>2 DEF A

LEMMA OneMore ==
  ASSUME NEW S, Finite(S), NEW f, NEW j, j \notin S, NEW g, \A i \in S : g[i] = f[i]
  PROVE  BagAdd(BagOf(f, S), g[j]) = BagOf(g, S \cup {j})
<1> DEFINE B == BagOf(f, S)
           q == g[j]
           C == BagOf(g, S \cup {j})
           A(h, T, x) == {i \in T : h[i] = x}
<1>1. DOMAIN B = {f[i] : i \in S} /\ \A x \in DOMAIN B : B[x] = Count(A(f, S, x))
  BY DEF BagOf
<1>2. DOMAIN C = {f[i] : i \in S} \cup {q} /\ \A x \in DOMAIN C : C[x] = Count(A(g, S \cup {j}, x))
  <2>1. {g[i] : i \in S \cup {j}} = {f[i] : i \in S} \cup {q}
    OBVIOUS
  <2>2. QED
    BY <2>1 DEF BagOf
<1>3. \A x : x # q => A(g, S \cup {j}, x) = A(f, S, x)
  OBVIOUS
<1>4. A(g, S \cup {j}, q) = A(f, S, q) \cup {j} /\ j \notin A(f, S, q)
  OBVIOUS
<1>5. \A x : Finite(A(f, S, x)) /\ Count(A(f, S, x)) \in Nat /\ (Count(A(f, S, x)) = 0 <=> x \notin {f[i] : i \in S})
  BY Alike
<1>6. C = [e \in DOMAIN C |-> C[e]]
  BY DEF BagOf
<1>7. BagAdd(B, q) = IF q \in DOMAIN B THEN [e \in DOMAIN B |-> IF e = q THEN B[e] + 1 ELSE B[e]]
                     ELSE [e \in DOMAIN B \cup {q} |-> IF e = q THEN 1 ELSE B[e]]
  BY DEF BagAdd
<1> HIDE DEF B, C, A, q
<1>8. Count(A(g, S \cup {j}, q)) = Count(A(f, S, q)) + 1
  BY <1>4, <1>5, CountMore
<1>9. ASSUME NEW e \in DOMAIN B \cup {q}
      PROVE  C[e] = IF e = q THEN (IF q \in DOMAIN B THEN B[q] + 1 ELSE 1) ELSE B[e]
  <2>1. CASE e = q /\ q \in DOMAIN B
    BY <1>1, <1>2, <1>8, <2>1
  <2>2. CASE e = q /\ q \notin DOMAIN B
    BY <1>1, <1>2, <1>5, <1>8, <2>2
  <2>3. CASE e # q
    BY <1>1, <1>2, <1>3, <2>3
  <2>4. QED
    BY <2>1, <2>2, <2>3
<1>10. DOMAIN C = DOMAIN B \cup {q}
  BY <1>1, <1>2
<1>11. BagAdd(B, q) = C
  <2>1. CASE q \in DOMAIN B
    BY <1>6, <1>7, <1>9, <1>10, <2>1
  <2>2. CASE q \notin DOMAIN B
    BY <1>6, <1>7, <1>9, <1>10, <2>2
  <2>3. QED
    BY <2>1, <2>2
<1>12. QED
  BY <1>11 DEF B, C, q

LEMMA OneLess ==
  ASSUME NEW S, Finite(S), NEW f, NEW j \in S
  PROVE  BagRemove(BagOf(f, S), f[j]) = BagOf(f, S \ {j})
<1> DEFINE B == BagOf(f, S)
           q == f[j]
           T == S \ {j}
           C == BagOf(f, T)
           A(R, x) == {i \in R : f[i] = x}
<1>1. q \in DOMAIN B /\ DOMAIN B = {f[i] : i \in S} /\ \A x \in DOMAIN B : B[x] = Count(A(S, x))
  BY DEF BagOf
<1>2. DOMAIN C = {f[i] : i \in T} /\ \A x \in DOMAIN C : C[x] = Count(A(T, x))
  BY DEF BagOf
<1>3. \A x : x # q => A(T, x) = A(S, x)
  OBVIOUS
<1>4. A(T, q) = A(S, q) \ {j} /\ j \in A(S, q)
  OBVIOUS
<1>5. \A x : Finite(A(S, x)) /\ Count(A(S, x)) \in Nat /\ (Count(A(S, x)) = 0 <=> x \notin {f[i] : i \in S})
  BY Alike
<1>6. C = [e \in DOMAIN C |-> C[e]]
  BY DEF BagOf
<1>7. BagRemove(B, q) = IF B[q] = 1 THEN [e \in DOMAIN B \ {q} |-> B[e]]
                        ELSE [e \in DOMAIN B |-> IF e = q THEN B[e] - 1 ELSE B[e]]
  BY <1>1 DEF BagRemove
<1>8. Finite(T)
  BY CountPart
<1>9. Count(A(T, q)) = 0 <=> q \notin {f[i] : i \in T}
  BY <1>8, Alike
<1>10. {f[i] : i \in S} = {f[i] : i \in T} \cup {q}
  OBVIOUS
<1> HIDE DEF B, C, A, q
<1>11. Count(A(T, q)) = Count(A(S, q)) - 1
  BY <1>4, <1>5, CountLess
<1>12. CASE B[q] = 1
  <2>1. q \notin {f[i] : i \in T}
    BY <1>1, <1>9, <1>11, <1>12
  <2>2. DOMAIN C = DOMAIN B \ {q}
    BY <1>1, <1>2, <1>10, <2>1
  <2>3. \A e \in DOMAIN C : C[e] = B[e]
    BY <1>1, <1>2, <1>3, <2>2
  <2>4. BagRemove(B, q) = C
    BY <1>6, <1>7, <1>12, <2>2, <2>3
  <2>5. QED
    BY <2>4 DEF B, C, q, T
<1>13. CASE B[q] # 1
  <2>1. q \in {f[i] : i \in T}
    BY <1>1, <1>5, <1>9, <1>11, <1>13
  <2>2. DOMAIN C = DOMAIN B
    BY <1>1, <1>2, <1>10, <2>1
  <2>3. \A e \in DOMAIN C : C[e] = IF e = q THEN B[e] - 1 ELSE B[e]
    BY <1>1, <1>2, <1>3, <1>11, <2>2
  <2>4. BagRemove(B, q) = C
    BY <1>6, <1>7, <1>13, <2>2, <2>3
  <2>5. QED
    BY <2>4 DEF B, C, q, T
<1>14. QED
  BY <1>12, <1>13

With(B, q, n) == B (+) Copies(q, n)

LEMMA ManyMore ==
  ASSUME NEW S, Finite(S), NEW f, NEW J, Finite(J), S \cap J = {}, NEW g, NEW q,
         \A i \in S : g[i] = f[i], \A i \in J : g[i] = q
  PROVE  With(BagOf(f, S), q, Count(J)) = BagOf(g, S \cup J)
<1> DEFINE B == BagOf(f, S)
           T == S \cup J
           C == BagOf(g, T)
           n == Count(J)
           K == Copies(q, n)
           A(h, R, x) == {i \in R : h[i] = x}
<1>1. DOMAIN B = {f[i] : i \in S} /\ \A x \in DOMAIN B : B[x] = Count(A(f, S, x))
  BY DEF BagOf
<1>2. {g[i] : i \in T} = {f[i] : i \in S} \cup (IF J = {} THEN {} ELSE {q})
  OBVIOUS
<1>3. DOMAIN C = {g[i] : i \in T} /\ \A x \in DOMAIN C : C[x] = Count(A(g, T, x))
  BY DEF BagOf
<1>4. \A x : x # q => A(g, T, x) = A(f, S, x)
  OBVIOUS
<1>5. A(g, T, q) = A(f, S, q) \cup J /\ A(f, S, q) \cap J = {}
  OBVIOUS
<1>6. \A x : Finite(A(f, S, x)) /\ Count(A(f, S, x)) \in Nat /\ (Count(A(f, S, x)) = 0 <=> x \notin {f[i] : i \in S})
  BY Alike
<1>7. C = [e \in DOMAIN C |-> C[e]]
  BY DEF BagOf
<1>8. n \in Nat /\ (n = 0 <=> J = {})
  BY CountNat
<1>9. DOMAIN K = (IF n = 0 THEN {} ELSE {q}) /\ \A x \in DOMAIN K : K[x] = n
  BY DEF Copies
<1>10. B (+) K = [e \in DOMAIN B \cup DOMAIN K |-> (IF e \in DOMAIN B THEN B[e] ELSE 0) + (IF e \in DOMAIN K THEN K[e] ELSE 0)]
  BY DEF (+)
<1> HIDE DEF B, T, C, K, A
<1>11. Count(A(g, T, q)) = Count(A(f, S, q)) + n
  <2>1. Finite(A(f, S, q))
    BY <1>6
  <2>2. QED
    BY <1>5, <2>1, CountTwo DEF n
<1> HIDE DEF n
<1>12. DOMAIN C = DOMAIN B \cup DOMAIN K
  BY <1>1, <1>2, <1>3, <1>8, <1>9
<1>13. ASSUME NEW e \in DOMAIN C
       PROVE  C[e] = (IF e \in DOMAIN B THEN B[e] ELSE 0) + (IF e \in DOMAIN K THEN K[e] ELSE 0)
  <2>1. CASE e # q
    <3>1. e \in DOMAIN B /\ e \notin DOMAIN K /\ C[e] = B[e] /\ B[e] \in Nat
      BY <1>1, <1>3, <1>4, <1>6, <1>9, <1>12, <2>1
    <3>2. QED
      BY <3>1
  <2>2. CASE e = q /\ q \in DOMAIN B
    <3>1. B[q] = Count(A(f, S, q)) /\ B[q] \in Nat /\ C[q] = B[q] + n
      BY <1>1, <1>3, <1>6, <1>11, <2>2
    <3>2. n # 0 <=> q \in DOMAIN K
      BY <1>9
    <3>3. QED
      BY <1>8, <1>9, <2>2, <3>1, <3>2
  <2>3. CASE e = q /\ q \notin DOMAIN B
    BY <1>1, <1>3, <1>6, <1>8, <1>9, <1>11, <1>12, <2>3
  <2>4. QED
    BY <2>1, <2>2, <2>3
<1>14. B (+) K = C
  BY <1>7, <1>10, <1>12, <1>13
<1>15. QED
  BY <1>14 DEF With, B, C, K, T, n

\* The commands registered are numbered from 0 to faults: a datagram that could not be sent,
\* and a callback ahead of the second registration, adds one. Those with a block are as many as can take the offset beyond the image.
Carriers(f, S) == {i \in S : f[i].cmd = "XferFirmware"}
Near(offset, f, S, n) ==
  offset < FirmwareLength \/ offset + ReadLength * Count(Carriers(f, S)) <= FirmwareLength + ReadLength * (n + 1)
OffsetNear ==
  \E S, f : S \subseteq 0 .. faults /\ requests = BagOf(f, S) /\ Near(read_offset_, f, S, faults)

LEMMA NearNumbers ==
  ASSUME NEW n \in Nat, NEW S, S \subseteq 0 .. n
  PROVE  /\ Finite(S) /\ Count(S) <= n + 1
         /\ \A f : Finite(Carriers(f, S)) /\ Count(Carriers(f, S)) \in Nat /\ Count(Carriers(f, S)) <= Count(S)
<1>1. Finite(0 .. n) /\ Count(0 .. n) = n + 1
  BY CountRange
<1>2. Finite(S) /\ Count(S) <= n + 1 /\ Count(S) \in Nat
  BY <1>1, CountPart, CountNat
<1>3. \A f : Carriers(f, S) \subseteq S
  BY DEF Carriers
<1>4. \A f : Finite(Carriers(f, S)) /\ Count(Carriers(f, S)) <= Count(S)
  BY <1>2, <1>3, CountPart
<1>5. \A f : Count(Carriers(f, S)) \in Nat
  BY <1>4, CountNat
<1>6. QED
  BY <1>2, <1>4, <1>5

\* An offset that is near stays it when there are fewer carriers and more faults.
LEMMA NearKept ==
  ASSUME NEW offset \in Nat, NEW n \in Nat, NEW m \in Nat, n <= m,
         NEW S, S \subseteq 0 .. n, NEW T, T \subseteq 0 .. m, NEW f, NEW g,
         Count(Carriers(g, T)) <= Count(Carriers(f, S)), Near(offset, f, S, n)
  PROVE  Near(offset, g, T, m)
<1> DEFINE a == Count(Carriers(f, S))
           b == Count(Carriers(g, T))
<1>1. a \in Nat /\ b \in Nat /\ b <= a
  BY NearNumbers
<1>2. offset < FirmwareLength \/ offset + ReadLength * a <= FirmwareLength + ReadLength * (n + 1)
  BY DEF Near
<1>3. ReadLength \in Nat /\ FirmwareLength \in Nat
  BY UpgraderAssumption
<1> HIDE DEF a, b
<1>4. ReadLength * b <= ReadLength * a /\ ReadLength * (n + 1) <= ReadLength * (m + 1)
  BY <1>1, <1>3
<1>5. ReadLength * a \in Nat /\ ReadLength * b \in Nat /\ ReadLength * (n + 1) \in Nat /\ ReadLength * (m + 1) \in Nat
  BY <1>1, <1>3
<1>6. offset < FirmwareLength \/ offset + ReadLength * b <= FirmwareLength + ReadLength * (m + 1)
  BY <1>2, <1>3, <1>4, <1>5
<1>7. QED
  BY <1>6 DEF Near, b

\* A handler for the numbers in S, with the number j free for what it sends itself.
LEMMA HandlerNear ==
  ASSUME Ranged, NEW event, NEW tries, NEW offset \in Nat, NEW cost \in Nat, faults + cost <= MaxFaults,
         NEW n, n = faults + cost, NEW between,
         NEW f, NEW S, NEW j, S \subseteq 0 .. n, j \in 0 .. n, j \notin S,
         FsmEventHandler(event, tries, offset, BagOf(f, S), cost, between), Near(offset, f, S, n)
  PROVE  OffsetNear'
<1> DEFINE state == IF event = "Err" THEN "Err" ELSE fsm_state_
           rows == {r \in upgrade_event_table : r.state = state /\ r.event = event}
           row == CHOOSE x \in rows : TRUE
<1>1. n \in Nat /\ MaxFaults \in Nat /\ FirmwareLength \in Nat \ {0}
  BY UpgraderAssumption DEF Ranged
<1>2. \/ requests' = BagOf(f, S) /\ faults' = n /\ read_offset_' \in {offset, 0}
      \/ /\ read_offset_' = IF row.handler = "StartUpgrade" THEN 0 ELSE offset
         /\ row.handler = "XferFirmware" => offset < FirmwareLength
         /\ Issue(row.handler, read_offset_', row.next, tries, BagOf(f, S), cost, between)
  <2>1. offset >= FirmwareLength \/ offset < FirmwareLength
    BY <1>1
  <2>2. QED
    BY <2>1 DEF FsmEventHandler
<1>3. 0 < FirmwareLength
  BY <1>1
<1>4. CASE requests' = BagOf(f, S) /\ faults' = n /\ read_offset_' \in {offset, 0}
  <2>1. Near(read_offset_', f, S, faults')
    BY <1>3, <1>4 DEF Near
  <2>2. \E R, g : R \subseteq 0 .. faults' /\ requests' = BagOf(g, R) /\ Near(read_offset_', g, R, faults')
    BY <1>4, <2>1
  <2>3. QED
    BY <2>2 DEF OffsetNear, BagOf, Near, Carriers
<1>5. CASE /\ read_offset_' = IF row.handler = "StartUpgrade" THEN 0 ELSE offset
           /\ row.handler = "XferFirmware" => offset < FirmwareLength
           /\ Issue(row.handler, read_offset_', row.next, tries, BagOf(f, S), cost, between)
  <2> DEFINE cmd == row.handler
             Q(out) == [cmd |-> cmd, offset |-> read_offset_', sent |-> out,
                        between |-> IF out THEN between ELSE {"timeout"}]
  <2>1. PICK fails \in 0 .. MaxFaults - n :
          /\ \/ requests' = BagOf(f, S) (+) Copies(Q(FALSE), fails)
             \/ requests' = BagAdd(BagOf(f, S) (+) Copies(Q(FALSE), fails), Q(TRUE))
          /\ faults' = n + fails
    <3>1. PICK fails \in 0 .. MaxFaults - faults - cost :
            /\ \/ requests' = BagOf(f, S) (+) Copies(Q(FALSE), fails)
               \/ requests' = BagAdd(BagOf(f, S) (+) Copies(Q(FALSE), fails), Q(TRUE))
            /\ faults' = faults + cost + fails
      BY <1>5 DEF Issue
    <3>2. faults \in Nat /\ MaxFaults - faults - cost = MaxFaults - n
      BY <1>1 DEF Ranged
    <3>3. QED
      BY <3>1, <3>2
  <2>2. PICK a : a = Q(FALSE)
    OBVIOUS
  <2>3. PICK b : b = Q(TRUE)
    OBVIOUS
  <2>4. a.cmd = cmd /\ b.cmd = cmd
    BY <2>2, <2>3
  <2>5. cmd = "XferFirmware" => read_offset_' < FirmwareLength
    BY <1>5
  <2>6. read_offset_' = offset \/ read_offset_' = 0
    BY <1>5
  <2> HIDE DEF Q, cmd, row
  <2> DEFINE m == n + fails
             J == n + 1 .. n + fails
             g == [i \in 0 .. m |-> IF i \in S THEN f[i] ELSE IF i = j THEN b ELSE a]
             T == S \cup J
             U == T \cup {j}
  <2>7. /\ fails \in Nat /\ m \in Nat /\ n <= m /\ S \subseteq 0 .. m /\ J \subseteq 0 .. m /\ j \in 0 .. m
        /\ S \cap J = {} /\ j \notin J
    BY <1>1, <2>1
  <2>8. Finite(S) /\ Finite(J) /\ Count(J) = fails
    <3>1. PICK x \in Int : x = n + 1
      BY <1>1
    <3>2. PICK y \in Int : y = n + fails
      BY <1>1, <2>7
    <3>3. J = x .. y /\ (IF x > y THEN 0 ELSE y - x + 1) = fails
      BY <1>1, <2>7, <3>1, <3>2
    <3> HIDE DEF J
    <3>4. Finite(x .. y) /\ Count(x .. y) = IF x > y THEN 0 ELSE y - x + 1
      BY CountRange
    <3>5. Finite(J) /\ Count(J) = fails
      BY <3>3, <3>4
    <3>6. Finite(S)
      BY <1>1, NearNumbers
    <3>7. QED
      BY <3>5, <3>6
  <2>9. (\A i \in S : g[i] = f[i]) /\ (\A i \in J : g[i] = a) /\ g[j] = b
    BY <2>7
  <2> HIDE DEF m, J, g
  <2>10. BagOf(f, S) (+) Copies(a, fails) = BagOf(g, T)
    <3>1. Finite(S) /\ Finite(J) /\ S \cap J = {}
      BY <2>7, <2>8
    <3> HIDE DEF T
    <3>2. With(BagOf(f, S), a, Count(J)) = BagOf(g, S \cup J)
      BY ZenonT(30), <2>9, <3>1, ManyMore
    <3>3. QED
      BY <2>8, <3>2 DEF T, With
  <2>11. Finite(T)
    BY <2>7, <2>8, CountTwo
  <2>12. j \notin T
    BY <2>7
  <2> HIDE DEF T
  <2>13. BagAdd(BagOf(g, T), g[j]) = BagOf(g, U)
    BY <2>11, <2>12, OneMore
  <2>14. T \subseteq 0 .. m /\ U \subseteq 0 .. m
    BY <2>7 DEF T
  <2>15. ASSUME NEW R, R \in {T, U} PROVE Near(read_offset_', g, R, m)
    <3>1. CASE cmd = "XferFirmware" \/ read_offset_' = 0
      BY <1>3, <2>5, <3>1 DEF Near
    <3>2. CASE cmd # "XferFirmware" /\ read_offset_' = offset
      <4>1. Carriers(g, R) = Carriers(f, S)
        <5>1. \A i \in R : i \in S \/ g[i] = a \/ g[i] = b
          BY <2>9, <2>15 DEF T
        <5>2. \A i \in S : i \in R
          BY <2>15 DEF T
        <5>3. \A i \in R : i \notin S => g[i].cmd # "XferFirmware"
          BY <2>4, <3>2, <5>1
        <5>4. QED
          BY <2>9, <5>2, <5>3 DEF Carriers
      <4>2. R \subseteq 0 .. m
        BY <2>14, <2>15
      <4>3. Count(Carriers(g, R)) <= Count(Carriers(f, S))
        <5>1. Count(Carriers(f, S)) \in Nat
          BY <1>1, NearNumbers
        <5>2. QED
          BY <4>1, <5>1
      <4>4. Near(offset, g, R, m)
        BY <1>1, <2>7, <4>2, <4>3, NearKept
      <4>5. QED
        BY <3>2, <4>4
    <3>3. QED
      BY <2>6, <3>1, <3>2
  <2>16. requests' = BagOf(g, T) \/ requests' = BagOf(g, U)
    BY <2>1, <2>2, <2>3, <2>9, <2>10, <2>13
  <2>17. faults' = m
    BY <2>1 DEF m
  <2>18. \E R, h : R \subseteq 0 .. faults' /\ requests' = BagOf(h, R) /\ Near(read_offset_', h, R, faults')
    BY <2>14, <2>15, <2>16, <2>17
  <2>19. QED
    BY <2>18 DEF OffsetNear, BagOf, Near, Carriers
<1>6. QED
  BY <1>2, <1>4, <1>5

LEMMA NearInit == UpgradeInit => OffsetNear
<1> SUFFICES ASSUME UpgradeInit PROVE OffsetNear
  OBVIOUS
<1>1. PICK f : f = <<>>
  OBVIOUS
<1>2. BagOf(f, {}) = EmptyBag
  BY DEF BagOf, EmptyBag, SetToBag
<1>3. Near(0, f, {}, 0)
  BY UpgraderAssumption DEF Near
<1>4. {} \subseteq 0 .. faults /\ requests = BagOf(f, {}) /\ Near(read_offset_, f, {}, faults)
  BY <1>2, <1>3 DEF UpgradeInit
<1>5. QED
  BY <1>4 DEF OffsetNear

\* One block on, with one carrier less.
LEMMA BlockOn ==
  ASSUME NEW o \in Nat, NEW n \in Nat, NEW S, NEW T, NEW f, Near(o, f, S, n),
         Count(Carriers(f, S)) \in Nat, Count(Carriers(f, T)) \in Nat,
         Count(Carriers(f, T)) = Count(Carriers(f, S)) - 1, Count(Carriers(f, T)) <= n
  PROVE  Near(o + ReadLength, f, T, n)
<1> DEFINE a == Count(Carriers(f, S))
           b == Count(Carriers(f, T))
<1>1. a \in Nat /\ b \in Nat /\ b = a - 1 /\ b <= n
  OBVIOUS
<1>2. o < FirmwareLength \/ o + ReadLength * a <= FirmwareLength + ReadLength * (n + 1)
  BY DEF Near
<1>3. ReadLength \in Nat /\ FirmwareLength \in Nat
  BY UpgraderAssumption
<1> HIDE DEF a, b
<1>4. ReadLength * a = ReadLength * b + ReadLength
  BY <1>1, <1>3
<1>5. ReadLength * b <= ReadLength * n /\ ReadLength * (n + 1) = ReadLength * n + ReadLength
  BY <1>1, <1>3
<1>6. ReadLength * a \in Nat /\ ReadLength * b \in Nat /\ ReadLength * n \in Nat
  BY <1>1, <1>3
<1>7. o + ReadLength + ReadLength * b <= FirmwareLength + ReadLength * (n + 1)
  BY <1>2, <1>3, <1>4, <1>5, <1>6
<1>8. QED
  BY <1>7 DEF Near, b

\* The handler of a command's callback, with the command's number free again, or another one
\* that its second registration pays for. Only an acknowledged block moves the offset.
LEMMA CallbackNear ==
  ASSUME Ranged, OffsetNear, NEW q \in BagToSet(requests), NEW event, NEW tries, NEW offset \in Nat,
         offset = read_offset_ \/ (q.cmd = "XferFirmware" /\ offset = read_offset_ + ReadLength),
         NEW cost \in Nat, faults + cost <= MaxFaults, NEW between, NEW early, NEW answerable,
         early => cost >= 1,
         FsmEventHandler(event, tries, offset, Left(q, early, answerable), cost, between)
  PROVE  OffsetNear'
<1>1. PICK S, f : S \subseteq 0 .. faults /\ requests = BagOf(f, S) /\ Near(read_offset_, f, S, faults)
  BY DEF OffsetNear
<1>2. PICK i \in S : q = f[i]
  BY <1>1 DEF BagOf, BagToSet
<1>3. /\ faults \in Nat /\ read_offset_ \in Nat /\ ReadLength \in Nat \ {0} /\ FirmwareLength \in Nat
  BY UpgraderAssumption DEF Ranged
<1> DEFINE T == S \ {i}
<1>4. Finite(S) /\ Count(S) <= faults + 1
  BY <1>1, <1>3, NearNumbers
<1>5. BagRemove(requests, q) = BagOf(f, T)
  BY <1>1, <1>2, <1>4, OneLess
<1>6. T \subseteq 0 .. faults /\ i \in 0 .. faults /\ i \notin T /\ T \subseteq S
  BY <1>1
<1>7. Finite(Carriers(f, S)) /\ Count(Carriers(f, S)) \in Nat
  BY <1>1, <1>3, NearNumbers
<1> PICK n : n = faults + cost
  OBVIOUS
<1>8. n \in Nat /\ faults <= n /\ T \subseteq 0 .. n /\ i \in 0 .. n /\ S \subseteq 0 .. n
  BY <1>1, <1>3, <1>6
\* The command is out of the bag: its number is free.
<1>9. CASE ~early
  <2>1. Left(q, early, answerable) = BagOf(f, T)
    BY <1>5, <1>9 DEF Left
  <2>2. Near(offset, f, T, n)
    <3>1. CASE offset = read_offset_
      <4>1. Carriers(f, T) \subseteq Carriers(f, S)
        BY DEF Carriers
      <4>2. Count(Carriers(f, T)) <= Count(Carriers(f, S))
        BY <1>7, <4>1, CountPart
      <4> HIDE DEF T
      <4>3. QED
        BY <1>1, <1>3, <1>8, <3>1, <4>2, NearKept
    <3>2. CASE q.cmd = "XferFirmware" /\ offset = read_offset_ + ReadLength
      <4>1. Carriers(f, T) = Carriers(f, S) \ {i} /\ i \in Carriers(f, S)
        BY <1>2, <3>2 DEF Carriers
      <4>2. Count(Carriers(f, T)) = Count(Carriers(f, S)) - 1
        BY <1>7, <4>1, CountLess
      <4>3. Count(T) = Count(S) - 1 /\ Count(S) \in Nat
        BY <1>4, CountLess, CountNat
      <4>4. Count(Carriers(f, T)) \in Nat /\ Count(Carriers(f, T)) <= Count(T)
        BY <1>3, <1>6, NearNumbers
      <4> HIDE DEF T
      <4>5. Near(offset, f, T, faults)
        BY <1>1, <1>3, <1>4, <1>7, <3>2, <4>2, <4>3, <4>4, BlockOn
      <4>6. Count(Carriers(f, T)) <= Count(Carriers(f, T))
        BY <4>4
      <4>7. QED
        BY <1>3, <1>6, <1>8, <4>5, <4>6, NearKept
    <3>3. QED
      BY <3>1, <3>2
  <2> HIDE DEF T
  <2>3. FsmEventHandler(event, tries, offset, BagOf(f, T), cost, between)
    BY <2>1
  <2>4. QED
    BY <1>6, <1>8, <2>2, <2>3, HandlerNear
\* The command stays, under its number: the next one takes the number of the fault.
<1>10. CASE early
  <2> PICK p : p = [q EXCEPT !.sent = answerable, !.between = {}]
    OBVIOUS
  <2>1. p.cmd = q.cmd
    BY DEF Ranged, Valid, Registrable
  <2> DEFINE g == [k \in S |-> IF k = i THEN p ELSE f[k]]
  <2>2. Left(q, early, answerable) = BagOf(g, S)
    <3>1. Left(q, early, answerable) = BagAdd(BagOf(f, T), g[i])
      BY <1>5, <1>10 DEF Left
    <3>2. Finite(T)
      BY <1>4, CountPart
    <3>3. \A k \in T : g[k] = f[k]
      OBVIOUS
    <3>4. T \cup {i} = S
      OBVIOUS
    <3> HIDE DEF g, T
    <3>5. QED
      BY <1>6, <3>1, <3>2, <3>3, <3>4, OneMore
  <2>3. Carriers(g, S) = Carriers(f, S)
    BY <1>2, <2>1 DEF Carriers
  <2> HIDE DEF g
  <2>4. faults + 1 \in 0 .. n /\ faults + 1 \notin S
    BY <1>1, <1>3, <1>8, <1>10
  <2>5. Near(offset, g, S, faults + 1)
    <3>1. Count(Carriers(f, S)) <= Count(S) /\ Count(Carriers(f, S)) \in Nat
      BY <1>1, <1>3, NearNumbers
    <3>2. CASE offset = read_offset_
      <4>1. Count(Carriers(g, S)) <= Count(Carriers(f, S)) /\ S \subseteq 0 .. faults + 1
        BY <1>1, <1>3, <2>3, <3>1
      <4>2. QED
        BY <1>1, <1>3, <3>2, <4>1, NearKept
    <3>3. CASE offset = read_offset_ + ReadLength
      <4> DEFINE a == Count(Carriers(f, S))
                 m == faults
      <4>1. a \in Nat /\ m \in Nat /\ a <= m + 1
        BY <1>3, <1>4, <3>1, CountNat
      <4>2. read_offset_ < FirmwareLength \/ read_offset_ + ReadLength * a <= FirmwareLength + ReadLength * (m + 1)
        BY <1>1 DEF Near
      <4> HIDE DEF a, m
      <4>3. ReadLength * (m + 2) = ReadLength * (m + 1) + ReadLength
        BY <1>3, <4>1
      <4>6. ReadLength * a <= ReadLength * (m + 1)
        <5>1. PICK d \in Nat : m + 1 = a + d
          <6>1. m + 1 - a \in Nat /\ m + 1 = a + (m + 1 - a)
            BY <4>1
          <6>2. QED
            BY <6>1
        <5>2. ReadLength * (a + d) = ReadLength * a + ReadLength * d /\ ReadLength * d \in Nat /\ ReadLength * a \in Nat
          BY <1>3, <4>1
        <5>3. QED
          BY <5>1, <5>2
      <4>7. ReadLength * a \in Nat /\ ReadLength * (m + 1) \in Nat
        BY <1>3, <4>1
      <4>4. offset + ReadLength * a <= FirmwareLength + ReadLength * (m + 2)
        BY <1>3, <3>3, <4>2, <4>3, <4>6, <4>7
      <4>5. (m + 1) + 1 = m + 2
        BY <4>1
      <4>8. QED
        BY <2>3, <4>4, <4>5 DEF Near, a, m
    <3>4. QED
      BY <3>2, <3>3
  <2>6. Near(offset, g, S, n)
    <3>1. Count(Carriers(g, S)) <= Count(Carriers(g, S)) /\ S \subseteq 0 .. faults + 1 /\ faults + 1 \in Nat
      BY <1>1, <1>3, <1>7, <2>3
    <3>2. faults + 1 <= n
      BY <2>4
    <3>3. QED
      BY <1>8, <2>5, <3>1, <3>2, NearKept
  <2>7. FsmEventHandler(event, tries, offset, BagOf(g, S), cost, between)
    BY <2>2
  <2>8. QED
    BY <1>8, <2>4, <2>6, <2>7, HandlerNear
<1>11. QED
  BY <1>9, <1>10

LEMMA NearNext == Ranged /\ OneFlow /\ OffsetNear /\ [UpgradeNext]_upgradeVars => OffsetNear'
<1> SUFFICES ASSUME Ranged, OneFlow, OffsetNear, [UpgradeNext]_upgradeVars PROVE OffsetNear'
  OBVIOUS
<1>0. /\ faults \in Nat /\ read_offset_ \in Nat /\ ReadLength \in Nat /\ faults + 0 <= MaxFaults
      /\ 0 \in Nat /\ \A c \in BOOLEAN : Cost(c) \in {0, 1} /\ (c => Cost(c) = 1)
      /\ \A c : Cost(c) \in {0, 1}
  BY UpgraderAssumption DEF Ranged, Cost
<1>1. CASE StartUpgradeLivoxLidar
  <2>1. /\ FsmEventHandler("RequestUpgrade", try_count_, read_offset_, requests, 0, FromOtherThread)
        /\ requests = EmptyBag
    BY <1>1 DEF StartUpgradeLivoxLidar, OneFlow
  <2>2. PICK S, f : S \subseteq 0 .. faults /\ requests = BagOf(f, S) /\ Near(read_offset_, f, S, faults)
    BY DEF OffsetNear
  <2>3. S = {}
    <3>1. DOMAIN BagOf(f, S) = {f[i] : i \in S}
      BY DEF BagOf
    <3>2. DOMAIN EmptyBag = {}
      BY DEF EmptyBag, SetToBag
    <3>3. QED
      BY <2>1, <2>2, <3>1, <3>2
  <2>4. 0 \in 0 .. faults /\ 0 \notin S
    BY <1>0, <2>3
  <2>5. FsmEventHandler("RequestUpgrade", try_count_, read_offset_, BagOf(f, S), 0, FromOtherThread)
    BY <2>1, <2>2
  <2>6. faults = faults + 0
    BY <1>0
  <2>7. QED
    BY <1>0, <2>2, <2>4, <2>5, <2>6, HandlerNear
<1>2. CASE Destroy
  BY <1>2 DEF Destroy, OffsetNear, Near
<1>3. ASSUME NEW q \in BagToSet(requests), NEW early \in BOOLEAN, Succeeded(q, early) PROVE OffsetNear'
  <2>1. PICK e \in NextEvents(q) :
          FsmEventHandler(e, 0, Advance(q), Left(q, early, FALSE), Cost(early), FromCmdThread)
    BY <1>3 DEF Succeeded
  <2>2. Advance(q) \in Nat
    BY <1>0 DEF Advance
  <2>3. Advance(q) = read_offset_ \/ (q.cmd = "XferFirmware" /\ Advance(q) = read_offset_ + ReadLength)
    BY DEF Advance
  <2>4. faults + Cost(early) <= MaxFaults /\ Cost(early) \in Nat /\ (early => Cost(early) >= 1)
    BY <1>0, <1>3 DEF Succeeded, CallsBack
  <2>5. QED
    BY <1>0, <2>1, <2>2, <2>3, <2>4, CallbackNear
<1>4. ASSUME NEW q \in BagToSet(requests), NEW early \in BOOLEAN, Busy(q, early) PROVE OffsetNear'
  <2> DEFINE cost == 1 + Cost(early)
  <2>1. /\ FsmEventHandler("RequestUpgrade", 0, read_offset_, Left(q, early, FALSE), cost, FromCmdThread)
        /\ faults + cost <= MaxFaults
    BY <1>4 DEF Busy, CallsBack
  <2>2. cost \in Nat /\ cost >= 1
    BY <1>0
  <2> HIDE DEF cost
  <2>3. QED
    BY <1>0, <2>1, <2>2, CallbackNear
<1>5. ASSUME NEW q \in BagToSet(requests), NEW early \in BOOLEAN, Failed(q, early) PROVE OffsetNear'
  <2> DEFINE cost == Cost(Acceptable(q)) + Cost(early)
  <2>1. /\ FsmEventHandler("Err", 0, read_offset_, Left(q, early, FALSE), cost, FromCmdThread)
        /\ faults + cost <= MaxFaults
    BY <1>5 DEF Failed, CallsBack
  <2>2. cost \in Nat /\ (early => cost >= 1)
    BY <1>0
  <2> HIDE DEF cost
  <2>3. QED
    BY <1>0, <2>1, <2>2, CallbackNear
<1>6. ASSUME NEW q \in BagToSet(requests), NEW early \in BOOLEAN, NEW done \in BOOLEAN,
             TimedOutAfter(q, done, early)
      PROVE  OffsetNear'
  <2> DEFINE cost == Cost(q.sent) + Cost(early)
             tries == try_count_ + 1
             again == tries < Limit(q.cmd)
             next == IF again THEN tries ELSE 0
             event == IF again THEN EventOf(q.cmd) ELSE LastEvent(q.cmd)
  <2>1. PICK thread \in {FromCmdThread, FromOtherThread} :
          FsmEventHandler(event, next, read_offset_, Left(q, early, q.sent), cost, thread)
    BY <1>6 DEF TimedOutAfter, OffsetUnanswered
  <2>2. faults + cost <= MaxFaults
    BY <1>6 DEF TimedOutAfter, CallsBack
  <2>3. cost \in Nat /\ (early => cost >= 1)
    BY <1>0
  <2> HIDE DEF cost, tries, again, next, event
  <2>4. QED
    BY <1>0, <2>1, <2>2, <2>3, CallbackNear
<1>7. CASE UNCHANGED upgradeVars
  BY <1>7 DEF upgradeVars, OffsetNear, Near
<1>8. QED
  BY <1>1, <1>2, <1>3, <1>4, <1>5, <1>6, <1>7 DEF UpgradeNext

\* However many commands call back twice: the offset ends at most one block beyond the image
\* for each of them and the last, and the counters stay within their limits.
THEOREM UpgradeBounded == UpgradeSpec => []UpgradeTypeOK
<1>1. Ranged /\ OffsetNear => UpgradeTypeOK
  <2> SUFFICES ASSUME Ranged, OffsetNear PROVE UpgradeTypeOK
    OBVIOUS
  <2>1. PICK S, f : S \subseteq 0 .. faults /\ Near(read_offset_, f, S, faults)
    BY DEF OffsetNear
  <2> DEFINE a == Count(Carriers(f, S))
             n == faults
             o == read_offset_
  <2>2. /\ n \in Nat /\ n <= MaxFaults /\ MaxFaults \in Nat /\ o \in Nat /\ ReadLength \in Nat /\ FirmwareLength \in Nat
    BY UpgraderAssumption DEF Ranged
  <2>3. a \in Nat
    BY <2>1, <2>2, NearNumbers
  <2>4. o < FirmwareLength \/ o + ReadLength * a <= FirmwareLength + ReadLength * (n + 1)
    BY <2>1 DEF Near
  <2> HIDE DEF a, n, o
  <2>5. ReadLength * a \in Nat /\ ReadLength * (n + 1) <= ReadLength * (MaxFaults + 2) /\ ReadLength * (MaxFaults + 2) \in Nat
    BY <2>2, <2>3
  <2>6. FirmwareLength <= FirmwareLength * (MaxFaults + 2)
    <3>1. FirmwareLength * 1 <= FirmwareLength * (MaxFaults + 2)
      BY <2>2
    <3>2. QED
      BY <2>2, <3>1
  <2>7. (MaxFaults + 2) * (FirmwareLength + ReadLength) = FirmwareLength * (MaxFaults + 2) + ReadLength * (MaxFaults + 2)
    BY <2>2
  <2>8. FirmwareLength * (MaxFaults + 2) \in Nat /\ ReadLength * (n + 1) \in Nat
    BY <2>2
  <2>9. o \in 0 .. (MaxFaults + 2) * (FirmwareLength + ReadLength)
    BY <2>2, <2>4, <2>5, <2>6, <2>7, <2>8
  <2>10. States = {r.state : r \in upgrade_event_table} \cup {"Err"}
    BY DEF States, upgrade_event_table, Row
  <2>11. QED
    BY <2>9, <2>10 DEF o, Ranged, UpgradeTypeOK
<1>2. QED
  BY <1>1, RangedInit, RangedNext, OneFlowInit, OneFlowNext, NearInit, NearNext, PTL DEF UpgradeSpec

-----------------------------------------------------------------------------
(* LogSession: files and what is in them *)

FileOf(P) == [second : Nat, file_index : Int, hidden : BOOLEAN, bags : Seq(P)]

NamesUnique(D) == \A f, g \in D : Named(f) = Named(g) => f = g

\* A file's own bags, in the order of their numbers from each Create on.
IntactFile(f) ==
  /\ \A i \in DOMAIN f.bags : FileIndex(f.bags[i]) = f.file_index
  /\ \A i \in 1 .. Len(f.bags) - 1 :
       f.bags[i] <= f.bags[i + 1] \/ Flag(f.bags[i + 1]) = "kCreateFile"

InFiles(D) == UNION {ToSet(f.bags) : f \in D}

LEMMA BagsAppended ==
  ASSUME NEW P, NEW s \in Seq(P), NEW x \in P
  PROVE  ToSet(Append(s, x)) = ToSet(s) \cup {x}
<1>1. /\ DOMAIN Append(s, x) = 1 .. Len(s) + 1 /\ DOMAIN s = 1 .. Len(s) /\ Len(s) \in Nat
      /\ \A i \in 1 .. Len(s) : Append(s, x)[i] = s[i]
      /\ Append(s, x)[Len(s) + 1] = x
  OBVIOUS
<1>2. ToSet(Append(s, x)) \subseteq ToSet(s) \cup {x}
  <2>1. ASSUME NEW i \in 1 .. Len(s) + 1 PROVE Append(s, x)[i] \in ToSet(s) \cup {x}
    BY <1>1 DEF ToSet
  <2>2. QED
    BY <1>1, <2>1 DEF ToSet
<1>3. ToSet(s) \cup {x} \subseteq ToSet(Append(s, x))
  BY <1>1 DEF ToSet
<1>4. QED
  BY <1>2, <1>3

\* What becomes of the files when some of them lose their dots.
LEMMA RenamedFiles ==
  ASSUME NEW P, NEW D \in SUBSET FileOf(P), NEW H \in SUBSET D, NamesUnique(D),
         \A h, k \in H : h.hidden = k.hidden
  PROVE  /\ Renamed(D, H) \subseteq FileOf(P) /\ NamesUnique(Renamed(D, H))
         /\ \A f \in Renamed(D, H) : \E g \in D : f.bags = g.bags /\ f.file_index = g.file_index
         /\ \A h \in H : [h EXCEPT !.hidden = FALSE] \in Renamed(D, H)
         /\ InFiles(D) \subseteq InFiles(Renamed(D, H)) \cup Replaced(D, H)
         /\ Replaced(D, H) \subseteq InFiles(D)
<1> DEFINE shown == {[f EXCEPT !.hidden = FALSE] : f \in H}
<1> DEFINE kept == {f \in D \ H : \A g \in shown : Named(f) # Named(g)}
<1>1. Renamed(D, H) = kept \cup shown
  BY DEF Renamed
<1>2. \A h \in H : /\ [h EXCEPT !.hidden = FALSE] \in FileOf(P)
                   /\ [h EXCEPT !.hidden = FALSE].bags = h.bags
                   /\ [h EXCEPT !.hidden = FALSE].file_index = h.file_index
                   /\ [h EXCEPT !.hidden = FALSE].second = h.second
                   /\ [h EXCEPT !.hidden = FALSE].hidden = FALSE
  BY DEF FileOf
<1>3. kept \subseteq D
  OBVIOUS
<1>4. shown \subseteq FileOf(P)
  BY <1>2
<1>5. NamesUnique(kept \cup shown)
  <2>1. ASSUME NEW f \in kept \cup shown, NEW g \in kept \cup shown, Named(f) = Named(g)
        PROVE  f = g
    <3>1. CASE f \in kept /\ g \in kept
      BY <2>1, <3>1 DEF NamesUnique
    <3>2. CASE f \in shown /\ g \in shown
      <4>1. PICK h \in H, k \in H : f = [h EXCEPT !.hidden = FALSE] /\ g = [k EXCEPT !.hidden = FALSE]
        BY <3>2
      <4>2. h.second = k.second /\ h.file_index = k.file_index
        BY <1>2, <2>1, <4>1 DEF Named
      <4>3. Named(h) = Named(k)
        BY <4>2 DEF Named
      <4>4. h = k
        BY <4>3 DEF NamesUnique
      <4>5. QED
        BY <4>1, <4>4
    <3>3. CASE f \in kept /\ g \in shown
      BY <2>1, <3>3
    <3>4. CASE f \in shown /\ g \in kept
      BY <2>1, <3>4
    <3>5. QED
      BY <3>1, <3>2, <3>3, <3>4
  <2>2. QED
    BY <2>1 DEF NamesUnique
<1>6. ASSUME NEW g \in D PROVE ToSet(g.bags) \subseteq InFiles(Renamed(D, H)) \cup Replaced(D, H)
  <2>1. CASE g \in H
    BY <1>1, <1>2, <2>1 DEF InFiles
  <2>2. CASE g \in kept
    BY <1>1, <2>2 DEF InFiles
  <2>3. CASE g \in shown
    BY <1>1, <2>3 DEF InFiles
  <2>4. CASE g \notin H /\ g \notin kept \cup shown
    <3>1. g \notin Renamed(D, H)
      BY <1>1, <2>4
    <3>2. QED
      BY <2>4, <3>1 DEF Replaced
  <2>5. QED
    BY <2>1, <2>2, <2>3, <2>4
<1>7. Replaced(D, H) \subseteq InFiles(D)
  BY DEF Replaced, InFiles
<1>8. InFiles(D) \subseteq InFiles(Renamed(D, H)) \cup Replaced(D, H)
  BY <1>6 DEF InFiles
<1>9. \A f \in kept \cup shown : \E g \in D : f.bags = g.bags /\ f.file_index = g.file_index
  <2>1. ASSUME NEW f \in shown PROVE \E g \in D : f.bags = g.bags /\ f.file_index = g.file_index
    <3>1. PICK h \in H : f = [h EXCEPT !.hidden = FALSE]
      OBVIOUS
    <3>2. h \in D /\ f.bags = h.bags /\ f.file_index = h.file_index
      BY <1>2, <3>1
    <3>3. QED
      BY <3>2
  <2>2. QED
    BY <1>3, <2>1
<1>10. kept \cup shown \subseteq FileOf(P) /\ \A h \in H : [h EXCEPT !.hidden = FALSE] \in kept \cup shown
  BY <1>3, <1>4
<1>11. QED
  BY <1>1, <1>5, <1>7, <1>8, <1>9, <1>10

\* The files D hold the bags in o, but those in g.
Sound(D, g, o, P) ==
  /\ D \subseteq FileOf(P) /\ NamesUnique(D)
  /\ \A f \in D : IntactFile(f)
  /\ g \subseteq P /\ o \subseteq P
  /\ \A p \in o \ g : Flag(p) = "kEndFile" \/ p \in InFiles(D)

\* More bags are gone, more are sent, or a bag was taken that is gone or ends a file.
LEMMA SoundMore ==
  ASSUME NEW D, NEW g, NEW o, NEW P, NEW p, Sound(D, g, o, P)
  PROVE  /\ \A Q : P \subseteq Q => Sound(D, g, o, Q)
         /\ \A h \in SUBSET P : g \subseteq h => Sound(D, h, o, P)
         /\ p \in P => Sound(D, g \cup {p}, o \cup {p}, P)
         /\ p \in P /\ Flag(p) = "kEndFile" => Sound(D, g, o \cup {p}, P)
<1>1. ASSUME NEW Q, P \subseteq Q PROVE Sound(D, g, o, Q)
  <2>1. FileOf(P) \subseteq FileOf(Q)
    BY <1>1 DEF FileOf
  <2>2. QED
    BY <1>1, <2>1 DEF Sound
<1>2. QED
  BY <1>1 DEF Sound

LEMMA SoundRenamed ==
  ASSUME NEW D, NEW g, NEW o, NEW P, Sound(D, g, o, P), NEW H \in SUBSET D,
         \A h, k \in H : h.hidden = k.hidden
  PROVE  Sound(Renamed(D, H), g \cup Replaced(D, H), o, P)
<1>1. /\ Renamed(D, H) \subseteq FileOf(P) /\ NamesUnique(Renamed(D, H))
      /\ \A f \in Renamed(D, H) : \E k \in D : f.bags = k.bags /\ f.file_index = k.file_index
      /\ InFiles(D) \subseteq InFiles(Renamed(D, H)) \cup Replaced(D, H)
      /\ Replaced(D, H) \subseteq InFiles(D)
  BY RenamedFiles DEF Sound
<1>2. InFiles(D) \subseteq P
  <2>1. ASSUME NEW f \in D PROVE ToSet(f.bags) \subseteq P
    BY DEF Sound, FileOf, ToSet
  <2>2. QED
    BY <2>1 DEF InFiles
<1>3. \A f \in Renamed(D, H) : IntactFile(f)
  <2>1. ASSUME NEW f \in Renamed(D, H) PROVE IntactFile(f)
    <3>1. PICK k \in D : f.bags = k.bags /\ f.file_index = k.file_index
      BY <1>1
    <3>2. IntactFile(k)
      BY DEF Sound
    <3>3. QED
      BY <3>1, <3>2 DEF IntactFile
  <2>2. QED
    BY <2>1
<1>4. QED
  BY <1>1, <1>2, <1>3 DEF Sound

\* A file takes the place of the one of its name, if there is one, with a bag more.
LEMMA SoundPut ==
  ASSUME NEW D, NEW g, NEW o, NEW P, Sound(D, g, o, P),
         NEW n \in FileOf(P), IntactFile(n), NEW p \in ToSet(n.bags),
         NEW old, old = {f \in D : Named(f) = Named(n)},
         \A f \in old : ToSet(f.bags) \subseteq ToSet(n.bags)
  PROVE  Sound((D \ old) \cup {n}, g, o \cup {p}, P)
<1> DEFINE E == (D \ old) \cup {n}
<1>1. E \subseteq FileOf(P) /\ (\A f \in E : IntactFile(f)) /\ NamesUnique(E)
  BY DEF Sound, NamesUnique
<1>2. InFiles(D) \cup {p} \subseteq InFiles(E)
  BY DEF InFiles
<1>3. p \in P
  BY DEF FileOf, ToSet
<1>4. QED
  BY <1>1, <1>2, <1>3 DEF Sound

LEMMA IntactAppend ==
  ASSUME NEW f \in FileOf(Nat), NEW p \in Nat, NEW n \in FileOf(Nat), IntactFile(f),
         n.bags = Append(f.bags, p), n.file_index = f.file_index,
         FileIndex(p) = f.file_index,
         \/ f.bags = <<>> \/ f.bags[Len(f.bags)] <= p \/ Flag(p) = "kCreateFile"
  PROVE  IntactFile(n)
<1>1. f.bags \in Seq(Nat)
  BY DEF FileOf
<1>2. /\ Len(n.bags) = Len(f.bags) + 1 /\ DOMAIN n.bags = 1 .. Len(f.bags) + 1
      /\ \A i \in 1 .. Len(f.bags) : n.bags[i] = f.bags[i]
      /\ n.bags[Len(f.bags) + 1] = p /\ Len(f.bags) \in Nat /\ DOMAIN f.bags = 1 .. Len(f.bags)
  BY <1>1
<1>3. \A i \in DOMAIN n.bags : FileIndex(n.bags[i]) = n.file_index
  BY <1>2 DEF IntactFile
<1>4. ASSUME NEW i \in 1 .. Len(n.bags) - 1
      PROVE  n.bags[i] <= n.bags[i + 1] \/ Flag(n.bags[i + 1]) = "kCreateFile"
  <2>1. CASE i = Len(f.bags)
    BY <1>2, <1>4, <2>1
  <2>2. CASE i # Len(f.bags)
    <3>1. i \in 1 .. Len(f.bags) - 1 /\ i + 1 \in 1 .. Len(f.bags)
      BY <1>2, <1>4, <2>2
    <3>2. QED
      BY <1>2, <3>1 DEF IntactFile
  <2>3. QED
    BY <2>1, <2>2
<1>5. QED
  BY <1>3, <1>4 DEF IntactFile

LEMMA IntactSingle ==
  ASSUME NEW n, NEW p, n.bags = <<p>>, n.file_index = FileIndex(p)
  PROVE  IntactFile(n)
BY DEF IntactFile

\* Within one file the numbers of bags are in the order of their indices.
LEMMA IndexOrder ==
  ASSUME numbering \in {"file", "through"}, NEW p \in Nat \ {0}, NEW q \in Nat \ {0},
         FileIndex(q) = FileIndex(p), TransIndex(q) <= TransIndex(p)
  PROVE  q <= p
<1>1. CASE numbering = "through"
  BY <1>1 DEF TransIndex
<1>2. CASE numbering = "file"
  <2>1. BagsPerFile \in Nat \ {0}
    BY LogAssumption
  <2>2. /\ p - 1 \in Int /\ q - 1 \in Int
    OBVIOUS
  <2> DEFINE P == (p - 1) \div BagsPerFile
  <2> DEFINE Q == (q - 1) \div BagsPerFile
  <2> DEFINE R == (p - 1) % BagsPerFile
  <2> DEFINE S == (q - 1) % BagsPerFile
  <2>3. p - 1 = BagsPerFile * P + R /\ q - 1 = BagsPerFile * Q + S
    BY <2>1, <2>2, DivMod
  <2>4. P \in Int /\ Q \in Int /\ R \in Int /\ S \in Int
    BY <2>1, <2>2, DivMod
  <2>5. Q + 1 = P + 1 /\ S <= R
    BY <1>2 DEF FileIndex, TransIndex
  <2> HIDE DEF P, Q, R, S
  <2>6. Q = P
    BY <2>4, <2>5
  <2>7. q - 1 <= p - 1
    BY <2>1, <2>3, <2>4, <2>5, <2>6
  <2>8. QED
    BY <2>7
<1>3. QED
  BY <1>1, <1>2

-----------------------------------------------------------------------------
(* LogSession: the invariant *)

Sent == 1 .. pushed

LogShape ==
  /\ pushed \in Nat /\ second \in Nat /\ numbering \in {"file", "through"}
  /\ logger \in {"down", "up", "closing", "renaming", "destroyed"} /\ handler \in BOOLEAN
  /\ flight \subseteq Sent
  /\ queue_ \in Seq(Sent) /\ batch \in Seq(Sent)
  /\ current_file_ \in [file_index : Int, trans_index : Int]
  /\ queue_ # <<>> \/ batch # <<>> \/ fp # NoFile => handler
  /\ logger = "down" => ~handler

FileName == [second : Int, file_index : Int, hidden : BOOLEAN]
NextCall == {"none", "access", "remove", "rename"}

\* The open file is there, and its last bag is the last one the writer treated.
OpenIntact ==
  /\ fp \in FileName
  /\ fp # NoFile => OpenFile # {}
  /\ \A f \in OpenFile :
       /\ f.file_index = current_file_.file_index
       /\ f.bags # <<>> => TransIndex(f.bags[Len(f.bags)]) <= current_file_.trans_index

HiddenName(n) ==
  \E a \in Nat, b \in Int : n = [second |-> a, file_index |-> b, hidden |-> TRUE]
AtEnds(b) == b # <<>> /\ Flag(Head(b)) \in {"kCreateFile", "kEndFile"}

\* A rename is of a hidden name, and the writer's is of a file it has closed, which only
\* ChangeHiddenFiles can take from it; an open file that ChangeHiddenFiles has shown has no
\* hidden file of its name beside it that could be renamed over it.
Renaming ==
  /\ renames \in [{"writer", "closer"} -> [name : FileName, next : NextCall]]
  /\ \A who \in {"writer", "closer"} : ~Idle(who) => HiddenName(renames[who].name)
  /\ ~Idle("writer") =>
       /\ fp = NoFile /\ AtEnds(batch)
       /\ logger \in {"up", "closing"} => At(renames["writer"].name) # {}
  /\ ~Idle("closer") \/ listed # {} => logger = "renaming"
  /\ fp.hidden = FALSE =>
       /\ logger \in {"renaming", "destroyed"}
       /\ At(Dotted(fp)) = {} /\ renames["closer"].name # Dotted(fp)

LogInv == LogShape /\ Sound(disk, gone, popped, Sent) /\ OpenIntact /\ Renaming

LEMMA NothingOpen ==
  ASSUME NEW P, NEW D \in SUBSET FileOf(P)
  PROVE  {f \in D : Named(f) = NoFile} = {}
<1>1. ASSUME NEW f \in D PROVE Named(f) # NoFile
  <2>1. f.second \in Nat
    BY DEF FileOf
  <2>2. Named(f).second = f.second /\ NoFile.second = -1
    BY DEF Named, NoFile
  <2>3. QED
    BY <2>1, <2>2
<1>2. QED
  BY <1>1

\* The open file is one, and has the name in fp.
LEMMA OpenOne ==
  ASSUME LogInv
  PROVE  /\ \A f, g \in OpenFile : f = g
         /\ \A f \in OpenFile : /\ f.file_index = fp.file_index /\ f.hidden = fp.hidden
                                /\ f.second = fp.second
         /\ fp = NoFile => OpenFile = {}
<1>1. disk \subseteq FileOf(Sent) /\ NamesUnique(disk)
  BY DEF LogInv, Sound
<1>2. \A f, g \in OpenFile : f = g
  BY <1>1 DEF NamesUnique, OpenFile, At
<1>3. \A f \in OpenFile : /\ f.file_index = fp.file_index /\ f.hidden = fp.hidden
                          /\ f.second = fp.second
  BY DEF OpenFile, At, Named
<1>4. fp = NoFile => OpenFile = {}
  BY <1>1, NothingOpen DEF OpenFile, At
<1>5. QED
  BY <1>2, <1>3, <1>4

\* Steps that leave the open file alone.
LEMMA OpenStays ==
  ASSUME OpenIntact, UNCHANGED <<disk, fp, current_file_, numbering>>
  PROVE  OpenIntact'
<1>1. OpenFile' = OpenFile
  BY DEF OpenFile, At
<1>2. \A q : TransIndex(q)' = TransIndex(q)
  BY DEF TransIndex
<1>3. QED
  BY <1>1, <1>2 DEF OpenIntact

\* Steps after which no file is open.
LEMMA OpenEnds ==
  ASSUME fp' = NoFile, NEW P, disk' \subseteq FileOf(P)
  PROVE  OpenIntact'
<1>1. OpenFile' = {}
  BY NothingOpen DEF OpenFile, At
<1>2. NoFile \in FileName
  BY DEF NoFile, FileName
<1>3. QED
  BY <1>1, <1>2 DEF OpenIntact

\* The name a hidden file gets.
LEMMA ShownName ==
  ASSUME NEW n, HiddenName(n)
  PROVE  /\ n \in FileName /\ n.second \in Nat /\ n.hidden = TRUE /\ n # NoFile
         /\ Shown(n) \in FileName /\ Shown(n).hidden = FALSE /\ Shown(n) # NoFile
         /\ Shown(n).second = n.second /\ Shown(n).file_index = n.file_index
         /\ Dotted(Shown(n)) = n
<1>1. PICK a \in Nat, b \in Int : n = [second |-> a, file_index |-> b, hidden |-> TRUE]
  BY DEF HiddenName
<1>2. Shown(n) = [second |-> a, file_index |-> b, hidden |-> FALSE]
  BY <1>1 DEF Shown
<1>3. Dotted(Shown(n)) = n
  <2>1. Shown(n).second = a /\ Shown(n).file_index = b
    BY <1>2
  <2>2. QED
    BY <1>1, <2>1, Zenon DEF Dotted
<1>4. [second |-> a, file_index |-> b, hidden |-> FALSE] \in FileName /\ n \in FileName
  BY <1>1 DEF FileName
<1>5. n.second = a /\ NoFile.second = -1 /\ a # -1
  BY <1>1 DEF NoFile
<1>6. QED
  BY <1>1, <1>2, <1>3, <1>4, <1>5

\* Steps that begin and end no rename, and take no file away from one.
LEMMA RenamesStay ==
  ASSUME Renaming, UNCHANGED <<fp, listed, renames>>,
         \A n : n.hidden = TRUE => (At(n) = {} <=> {f \in disk' : Named(f) = n} = {}),
         Idle("writer") \/ (batch' = batch /\ (logger' \in {"up", "closing"} => logger \in {"up", "closing"})),
         logger = "renaming" => logger' = "renaming" \/ (Idle("closer") /\ listed = {}),
         fp.hidden = FALSE => logger' \in {"renaming", "destroyed"}, fp \in FileName
  PROVE  Renaming'
<1>1. \A who \in {"writer", "closer"} : Idle(who)' = Idle(who)
  BY DEF Idle
<1>2. \A n : At(n)' = {f \in disk' : Named(f) = n}
  BY DEF At
<1>3. Dotted(fp).hidden = TRUE
  BY DEF Dotted, FileName
<1>4. ~Idle("writer") => renames["writer"].name.hidden = TRUE
  BY ShownName DEF Renaming
<1>5. \A who \in {"writer", "closer"} : ~Idle(who)' => HiddenName(renames[who].name)'
  BY <1>1 DEF Renaming
<1>6. ~Idle("writer")' =>
       /\ fp' = NoFile /\ AtEnds(batch')
       /\ logger' \in {"up", "closing"} => At(renames["writer"].name)' # {}
  BY <1>1, <1>2, <1>4 DEF Renaming
<1>7. fp'.hidden = FALSE => At(Dotted(fp))' = {} /\ renames'["closer"].name # Dotted(fp')
  BY <1>2, <1>3 DEF Renaming
<1>8. QED
  BY <1>1, <1>5, <1>6, <1>7 DEF Renaming, AtEnds

\* The same for steps that leave the files alone as well.
LEMMA RenamesIdle ==
  ASSUME Renaming, UNCHANGED <<fp, listed, renames, disk>>, fp \in FileName,
         Idle("writer") \/ batch' = batch, logger' = logger
  PROVE  Renaming'
<1>1. \A n : At(n) = {f \in disk' : Named(f) = n}
  BY DEF At
<1>2. fp.hidden = FALSE => logger' \in {"renaming", "destroyed"}
  BY DEF Renaming
<1>3. QED
  BY <1>1, <1>2, RenamesStay

LEMMA NoRenameType == NoRename \in [name : FileName, next : NextCall]
<1>1. NoFile \in FileName
  BY DEF NoFile, FileName
<1>2. QED
  BY <1>1 DEF NoRename, NextCall

LEMMA InitLog == LogInit => LogInv
<1> SUFFICES ASSUME LogInit PROVE LogInv
  OBVIOUS
<1>0. <<>> \in Seq(Sent) /\ 0 \in Int
  OBVIOUS
<1>1. LogShape
  BY <1>0 DEF LogInit, LogShape
<1>2. Sound(disk, gone, popped, Sent)
  BY DEF LogInit, Sound, NamesUnique
<1>3. OpenIntact
  BY DEF LogInit, OpenIntact, OpenFile, At, NoFile, FileName
<1>4. Renaming
  <2>1. NoRename \in [name : FileName, next : NextCall] /\ fp.hidden = TRUE
    <3>1. NoRename \in [name : FileName, next : NextCall]
      BY NoRenameType
    <3>2. fp.hidden = TRUE
      BY DEF NoFile, LogInit
    <3>3. QED
      BY <3>1, <3>2
  <2>2. \A who \in {"writer", "closer"} : Idle(who)
    BY DEF Idle, LogInit
  <2>3. renames \in [{"writer", "closer"} -> [name : FileName, next : NextCall]] /\ listed = {}
    BY <2>1 DEF LogInit
  <2>4. ~(fp.hidden = FALSE) /\ ~(~Idle("closer") \/ listed # {}) /\ Idle("writer")
    BY <2>1, <2>2, <2>3
  <2>5. QED
    BY <2>2, <2>3, <2>4, Zenon DEF Renaming
<1>5. QED
  BY <1>1, <1>2, <1>3, <1>4 DEF LogInv

LEMMA NetworkLog ==
  ASSUME LogInv, Push \/ (\E p \in flight : Lose(p) \/ \E again \in BOOLEAN : Handler(p, again)) \/ Tick
  PROVE  LogInv'
<1> USE DEF LogInv
<1>1. CASE Push
  <2>1. Sent \subseteq Sent' /\ pushed + 1 \in Sent' /\ pushed' \in Nat
    BY <1>1 DEF Push, LogShape, Sent
  <2>2. queue_ \in Seq(Sent') /\ batch \in Seq(Sent')
    BY <2>1 DEF LogShape
  <2>3. LogShape'
    BY <1>1, <2>1, <2>2 DEF Push, LogShape
  <2>4. Sound(disk, gone, popped, Sent')
    BY <2>1, SoundMore
  <2>5. OpenIntact'
    BY <1>1, OpenStays DEF Push
  <2>6. Renaming'
    BY <1>1, RenamesIdle DEF Push, OpenIntact
  <2>7. QED
    BY <1>1, <2>3, <2>4, <2>5, <2>6 DEF Push
<1>2. ASSUME NEW p \in flight, Lose(p) PROVE LogInv'
  <2>0. p \in Sent /\ Sent' = Sent
    BY <1>2 DEF Lose, LogShape, Sent
  <2>1. LogShape'
    BY <1>2, <2>0 DEF Lose, LogShape
  <2>2. Sound(disk, gone \cup {p}, popped, Sent)
    <3>1. gone \cup {p} \subseteq Sent
      BY <2>0 DEF Sound
    <3>2. QED
      BY <3>1, SoundMore
  <2>3. OpenIntact'
    BY <1>2, OpenStays DEF Lose
  <2>4. Renaming'
    BY <1>2, RenamesIdle DEF Lose, OpenIntact
  <2>5. QED
    BY <1>2, <2>0, <2>1, <2>2, <2>3, <2>4 DEF Lose
<1>3. ASSUME NEW p \in flight, NEW again \in BOOLEAN, Handler(p, again) PROVE LogInv'
  <2>0. p \in Sent /\ Sent' = Sent
    BY <1>3 DEF Handler, LogShape, Sent
  <2>1. queue_' \in Seq(Sent)
    BY <1>3, <2>0 DEF Handler, LogShape
  <2>2. flight' \subseteq flight /\ handler' \in BOOLEAN /\ (handler => handler')
    BY <1>3 DEF Handler, LogShape
  <2>3. queue_' # <<>> => handler'
    BY <1>3 DEF Handler, LogShape
  <2>4. LogShape'
    BY <1>3, <2>0, <2>1, <2>2, <2>3 DEF Handler, LogShape
  <2>5. Sound(disk, gone', popped, Sent)
    <3>1. gone \subseteq gone' /\ gone' \subseteq Sent
      BY <1>3, <2>0 DEF Handler, Sound
    <3>2. QED
      BY <3>1, SoundMore
  <2>6. OpenIntact'
    BY <1>3, OpenStays DEF Handler
  <2>7. Renaming'
    BY <1>3, RenamesIdle DEF Handler, OpenIntact
  <2>8. QED
    BY <1>3, <2>0, <2>4, <2>5, <2>6, <2>7 DEF Handler
<1>4. CASE Tick
  <2>1. LogShape' /\ Sent' = Sent
    BY <1>4 DEF Tick, LogShape, Sent, network
  <2>2. OpenIntact'
    BY <1>4, OpenStays DEF Tick, network
  <2>3. Renaming'
    BY <1>4, RenamesIdle DEF Tick, OpenIntact
  <2>4. QED
    BY <1>4, <2>1, <2>2, <2>3 DEF Tick
<1>5. QED
  BY <1>1, <1>2, <1>3, <1>4

\* A handler's end leaves no queue, no batch and no open file.
LEMMA FreshShape ==
  ASSUME LogShape, Fresh, UNCHANGED <<network, second>>,
         logger' \in {"down", "closing"}
  PROVE  LogShape' /\ Sent' = Sent /\ fp' = NoFile
<1>1. Sent' = Sent /\ fp' = NoFile
  BY DEF Sent, network, Fresh
<1>2. queue_' = <<>> /\ batch' = <<>> /\ <<>> \in Seq(Sent') /\ handler' = FALSE
  BY DEF Fresh
<1>3. current_file_' \in [file_index : Int, trans_index : Int]
  BY DEF Fresh
<1>4. pushed' \in Nat /\ second' \in Nat /\ numbering' \in {"file", "through"} /\ flight' \subseteq Sent'
  BY <1>1 DEF LogShape, network
<1>5. QED
  BY <1>1, <1>2, <1>3, <1>4 DEF LogShape

\* Files are removed, with the bags in them.
LEMMA SoundRemoved ==
  ASSUME NEW D, NEW g, NEW o, NEW P, Sound(D, g, o, P), NEW R \in SUBSET D
  PROVE  Sound(D \ R, g \cup InFiles(R), o, P)
<1>1. InFiles(R) \subseteq P
  <2>1. \A f \in R : ToSet(f.bags) \subseteq P
    BY DEF Sound, FileOf, ToSet
  <2>2. QED
    BY <2>1 DEF InFiles
<1>2. InFiles(D) \subseteq InFiles(D \ R) \cup InFiles(R)
  BY DEF InFiles
<1>3. D \ R \subseteq FileOf(P) /\ NamesUnique(D \ R) /\ \A f \in D \ R : IntactFile(f)
  BY DEF Sound, NamesUnique
<1>4. QED
  BY <1>1, <1>2, <1>3 DEF Sound

LEMMA ManagerLog ==
  ASSUME LogInv, CycleDelete \/ Start \/ Destory \/ OpenDir \/ Closed \/ Die
  PROVE  LogInv'
<1> USE DEF LogInv
<1>0. /\ disk \subseteq FileOf(Sent) /\ NamesUnique(disk) /\ Hidden(disk) \subseteq disk
      /\ ToSet(queue_) \subseteq Sent /\ ToSet(batch) \subseteq Sent
      /\ \A h, k \in Hidden(disk) : h.hidden = k.hidden
  <2>1. \A h, k \in Hidden(disk) : h.hidden = k.hidden
    BY DEF Hidden, Sound, FileOf
  <2>2. ToSet(queue_) \subseteq Sent /\ ToSet(batch) \subseteq Sent
    BY DEF LogShape, ToSet
  <2>3. QED
    BY <2>1, <2>2 DEF Sound, Hidden
<1>1. CASE CycleDelete
  <2>1. PICK f \in Deletable : disk' = disk \ {f} /\ gone' = gone \cup ToSet(f.bags)
    BY <1>1 DEF CycleDelete
  <2>2. f \in disk /\ f.hidden = FALSE
    BY <1>0, <2>1 DEF Deletable, Hidden, FileOf
  <2>3. LogShape' /\ Sent' = Sent /\ popped' = popped
    BY <1>1 DEF CycleDelete, LogShape, Sent, network
  <2>4. Sound(disk', gone', popped, Sent)
    <3>1. InFiles({f}) = ToSet(f.bags)
      BY DEF InFiles
    <3>2. QED
      BY <2>1, <2>2, <3>1, SoundRemoved
  <2>5. fp.hidden # FALSE
    BY <1>1 DEF CycleDelete, Renaming
  <2>6. OpenFile' = OpenFile
    BY <1>1, <2>1, <2>2, <2>5, OpenOne DEF OpenFile, At, CycleDelete
  <2>7. \A q : TransIndex(q)' = TransIndex(q)
    BY <1>1 DEF TransIndex, CycleDelete, network
  <2>8. OpenIntact'
    BY <1>1, <2>6, <2>7 DEF OpenIntact, CycleDelete
  <2>9. Renaming'
    <3>1. \A n : n.hidden = TRUE => At(n) = {g \in disk' : Named(g) = n}
      BY <2>1, <2>2 DEF At, Named
    <3>2. UNCHANGED <<fp, listed, renames, batch, logger>>
      BY <1>1 DEF CycleDelete
    <3>3. QED
      BY <2>5, <3>1, <3>2, RenamesStay DEF OpenIntact
  <2>10. QED
    BY <2>3, <2>4, <2>8, <2>9
<1>2. CASE Start
  <2>1. fp' = NoFile /\ fp = NoFile /\ batch = <<>>
    BY <1>2 DEF Start, LogShape
  <2>2. LogShape' /\ Sent' = Sent
    BY <1>2, <2>1 DEF Start, LogShape, Sent, network
  <2>3. Sound(disk', gone', popped, Sent)
    BY <1>0, <1>2, SoundRenamed DEF Start
  <2>4. OpenIntact'
    BY <2>1, <2>3, OpenEnds DEF Sound
  <2>5. Renaming'
    <3>1. Idle("writer") /\ Idle("closer") /\ listed = {}
      BY <1>2, <2>1 DEF Renaming, AtEnds, Start
    <3>2. fp.hidden = TRUE
      BY <2>1 DEF NoFile
    <3>3. UNCHANGED <<fp, listed, renames>>
      BY <1>2 DEF Start
    <3>4. \A who \in {"writer", "closer"} : Idle(who)'
      BY <3>1, <3>3 DEF Idle
    <3>5. /\ Idle("writer")' /\ ~(~Idle("closer")' \/ listed' # {}) /\ ~(fp'.hidden = FALSE)
          /\ renames' \in [{"writer", "closer"} -> [name : FileName, next : NextCall]]
      BY <3>1, <3>2, <3>3, <3>4 DEF Renaming
    <3>6. QED
      BY <3>4, <3>5, Zenon DEF Renaming
  <2>6. QED
    BY <1>2, <2>2, <2>3, <2>4, <2>5 DEF Start
<1>3. CASE Destory \/ Die
  <2>1. /\ Fresh /\ UNCHANGED <<network, disk, second, popped>>
        /\ logger' \in {"down", "closing"}
        /\ gone \subseteq gone' /\ gone' \subseteq Sent
    BY <1>0, <1>3 DEF Destory, Die, Sound
  <2>2. LogShape' /\ Sent' = Sent /\ fp' = NoFile
    BY <2>1, FreshShape
  <2>3. Sound(disk, gone', popped, Sent)
    BY <2>1, SoundMore
  <2>4. OpenIntact'
    BY <2>1, <2>2, <1>0, OpenEnds
  <2>5. Renaming'
    <3>1. \A who \in {"writer", "closer"} : renames'[who] = NoRename
      <4>1. CASE Destory
        BY <4>1 DEF Destory, Renaming, AtEnds, Idle
      <4>2. CASE Die
        BY <4>2 DEF Die
      <4>3. QED
        BY <1>3, <4>1, <4>2
    <3>2. listed' = {}
      BY <1>3 DEF Destory, Die, Renaming
    <3>3. renames' \in [{"writer", "closer"} -> [name : FileName, next : NextCall]]
      <4>1. CASE Destory
        BY <4>1 DEF Destory, Renaming
      <4>2. CASE Die
        BY <4>2, NoRenameType DEF Die
      <4>3. QED
        BY <1>3, <4>1, <4>2
    <3>4. fp'.hidden = TRUE
      BY <2>2 DEF NoFile
    <3>5. QED
      BY <3>1, <3>2, <3>3, <3>4 DEF Renaming, Idle
  <2>6. QED
    BY <2>1, <2>2, <2>3, <2>4, <2>5
<1>4. CASE OpenDir \/ Closed
  <2>1. /\ UNCHANGED <<network, handler, queue_, batch, current_file_, fp, disk, second, renames,
                       popped, gone>>
        /\ logger' \in {"renaming", "destroyed"} /\ logger \in {"closing", "renaming"}
    BY <1>4 DEF OpenDir, Closed
  <2>2. LogShape' /\ Sent' = Sent
    BY <2>1 DEF LogShape, Sent, network
  <2>3. OpenIntact'
    BY <2>1, OpenStays DEF network
  <2>4. Renaming'
    <3>1. \A who \in {"writer", "closer"} : Idle(who)' = Idle(who)
      BY <2>1 DEF Idle
    <3>2. \A n : At(n)' = At(n)
      BY <2>1 DEF At
    <3>3. ~Idle("closer") \/ listed' # {} => logger' = "renaming"
      BY <1>4 DEF OpenDir, Closed, Renaming
    <3>4. QED
      BY <2>1, <3>1, <3>2, <3>3 DEF Renaming, HiddenName, AtEnds
  <2>5. QED
    BY <2>1, <2>2, <2>3, <2>4
<1>5. QED
  BY <1>1, <1>2, <1>3, <1>4

\* A rename begins: the writer has closed its file, or ChangeHiddenFiles comes to one.
LEMMA BeginsLog == LogInv /\ (CloseFile \/ ShowNext) => LogInv'
<1> SUFFICES ASSUME LogInv, CloseFile \/ ShowNext PROVE LogInv'
  OBVIOUS
<1>0. /\ UNCHANGED <<network, logger, handler, queue_, batch, current_file_, disk, second, listed,
                     popped, gone>>
      /\ Sent' = Sent /\ disk \subseteq FileOf(Sent) /\ \A n : At(n)' = At(n)
  BY DEF CloseFile, ShowNext, Sent, network, LogInv, Sound, At
<1>1. LogShape' /\ Sound(disk', gone', popped', Sent')
  <2>1. fp' # NoFile => fp # NoFile
    BY DEF CloseFile, ShowNext
  <2>2. QED
    BY <1>0, <2>1 DEF LogInv, LogShape, network
<1>2. CASE CloseFile
  <2>0. PICK n : n = Dotted(fp)
    OBVIOUS
  <2>1. OpenIntact' /\ fp' = NoFile
    BY <1>0, <1>2, OpenEnds DEF CloseFile
  <2>2. HiddenName(n)
    <3>1. PICK f \in disk : Named(f) = fp
      BY <1>2 DEF LogInv, OpenIntact, OpenFile, At, CloseFile
    <3>2. fp.second \in Nat /\ fp \in FileName
      BY <1>0, <3>1 DEF Named, FileOf, LogInv, OpenIntact
    <3>3. QED
      <4>1. fp.second \in Nat /\ fp.file_index \in Int
        BY <3>2 DEF FileName
      <4>2. QED
        BY <2>0, <4>1, Zenon DEF Dotted, HiddenName
  <2>3. renames' = [renames EXCEPT !["writer"] = IF At(n) = {} THEN NoRename ELSE [name |-> n, next |-> "access"]]
    BY <1>2, <2>0, Zenon DEF CloseFile, BeginRename
  <2>4. [name |-> n, next |-> "access"] \in [name : FileName, next : NextCall]
    BY <2>2, ShownName DEF NextCall
  <2>5. /\ renames' \in [{"writer", "closer"} -> [name : FileName, next : NextCall]]
        /\ renames'["closer"] = renames["closer"]
    BY <2>3, <2>4, NoRenameType DEF LogInv, Renaming
  <2>6. renames'["writer"] = IF At(n) = {} THEN NoRename ELSE [name |-> n, next |-> "access"]
    BY <2>3 DEF LogInv, Renaming
  <2>7. Idle("writer")' \/ (renames'["writer"].name = n /\ At(n)' # {})
    BY <1>0, <2>6 DEF Idle
  <2>8. Idle("closer")' = Idle("closer")
    BY <2>5 DEF Idle
  <2>9. AtEnds(batch)' /\ fp'.hidden = TRUE
    BY <1>0, <1>2, <2>1 DEF CloseFile, AtEnds, NoFile
  <2>10. Renaming'
    <3>1. \A who \in {"writer", "closer"} : ~Idle(who)' => HiddenName(renames'[who].name)
      BY <2>2, <2>5, <2>7, <2>8 DEF LogInv, Renaming
    <3>2. ~Idle("writer")' => At(renames["writer"].name)' # {}
      BY <1>0, <2>7
    <3>3. ~Idle("closer")' \/ listed' # {} => logger' = "renaming"
      BY <1>0, <2>8 DEF LogInv, Renaming
    <3>4. QED
      BY <2>1, <2>5, <2>9, <3>1, <3>2, <3>3 DEF Renaming, HiddenName
  <2>11. QED
    BY <1>1, <2>1, <2>10 DEF LogInv
<1>3. CASE ShowNext
  <2>1. fp' = fp /\ OpenIntact'
    BY <1>0, <1>3, OpenStays DEF ShowNext, LogInv, network
  <2>2. PICK f \in Hidden(disk) : BeginRename("closer", Named(f))
    BY <1>3 DEF ShowNext
  <2> DEFINE n == Named(f)
  <2>3. HiddenName(n) /\ f \in At(n)
    BY <1>0, <2>2 DEF Hidden, FileOf, Named, HiddenName, FileName, At
  <2>4. renames' = [renames EXCEPT !["closer"] = [name |-> n, next |-> "access"]]
    BY <2>2, <2>3 DEF BeginRename
  <2> HIDE DEF n
  <2>5. [name |-> n, next |-> "access"] \in [name : FileName, next : NextCall]
    BY <2>3, ShownName DEF NextCall
  <2>6. /\ renames' \in [{"writer", "closer"} -> [name : FileName, next : NextCall]]
        /\ renames'["writer"] = renames["writer"] /\ renames'["closer"].name = n
    BY <2>4, <2>5 DEF LogInv, Renaming
  <2>7. Idle("writer")' = Idle("writer")
    BY <2>6 DEF Idle
  <2>8. \A who \in {"writer", "closer"} : ~Idle(who)' => HiddenName(renames'[who].name)
    BY <2>3, <2>6, <2>7 DEF LogInv, Renaming
  <2>9. ~Idle("writer")' =>
          /\ fp' = NoFile /\ AtEnds(batch')
          /\ logger' \in {"up", "closing"} => At(renames["writer"].name)' # {}
    BY <1>0, <2>1, <2>6, <2>7 DEF LogInv, Renaming
  <2>10. logger' = "renaming"
    BY <1>0, <1>3 DEF ShowNext
  <2>11. fp'.hidden = FALSE => At(Dotted(fp))' = {} /\ renames'["closer"].name # Dotted(fp')
    BY <1>0, <2>1, <2>3, <2>6 DEF LogInv, Renaming
  <2>12. Renaming'
    BY <2>6, <2>8, <2>9, <2>10, <2>11 DEF Renaming, HiddenName, AtEnds
  <2>13. QED
    BY <1>1, <2>1, <2>12 DEF LogInv
<1>4. QED
  BY <1>2, <1>3

\* What every call of a rename leaves as it is.
LEMMA CallsShape ==
  ASSUME LogInv, NEW who \in {"writer", "closer"},
         AccessShown(who) \/ RemoveShown(who) \/ RenameFile(who)
  PROVE  /\ UNCHANGED <<network, logger, handler, queue_, batch, current_file_, second, popped>>
         /\ Sent' = Sent /\ LogShape' /\ disk \subseteq FileOf(Sent) /\ NamesUnique(disk)
         /\ ~Idle(who) /\ HiddenName(renames[who].name)
         /\ \A q : TransIndex(q)' = TransIndex(q)
<1>1. UNCHANGED <<network, logger, handler, queue_, batch, current_file_, second, popped>>
  BY DEF AccessShown, RemoveShown, RenameFile
<1>2. ~Idle(who)
  BY DEF AccessShown, RemoveShown, RenameFile, Idle, NoRename
<1>3. HiddenName(renames[who].name)
  BY <1>2 DEF LogInv, Renaming
<1>4. fp' # NoFile => fp # NoFile
  <2>1. renames[who].name # NoFile
    BY <1>3 DEF HiddenName, NoFile
  <2>2. QED
    BY <2>1 DEF AccessShown, RemoveShown, RenameFile
<1>5. Sent' = Sent /\ \A q : TransIndex(q)' = TransIndex(q)
  BY <1>1 DEF Sent, network, TransIndex
<1>6. LogShape'
  BY <1>1, <1>4, <1>5 DEF LogInv, LogShape, network
<1>7. QED
  BY <1>1, <1>2, <1>3, <1>5, <1>6 DEF LogInv, Sound

\* One call of a rename is over, and the rename is not; hidden files and the open file stay.
LEMMA CallsGoOn ==
  ASSUME LogInv, NEW who \in {"writer", "closer"}, NEW next \in NextCall,
         AccessShown(who) \/ RemoveShown(who), next # "none",
         renames' = [renames EXCEPT ![who] = [name |-> renames[who].name, next |-> next]],
         \A n : n.hidden = TRUE => At(n)' = At(n)
  PROVE  Renaming'
<1>1. /\ UNCHANGED <<logger, batch>> /\ ~Idle(who) /\ HiddenName(renames[who].name)
      /\ UNCHANGED <<fp, listed>>
  BY CallsShape DEF AccessShown, RemoveShown
<1>2. [name |-> renames[who].name, next |-> next] \in [name : FileName, next : NextCall]
  BY <1>1, ShownName
<1>3. renames' \in [{"writer", "closer"} -> [name : FileName, next : NextCall]]
  BY <1>2 DEF LogInv, Renaming
<1>4. \A w \in {"writer", "closer"} : renames'[w].name = renames[w].name
  BY DEF LogInv, Renaming
<1>5. \A w \in {"writer", "closer"} : Idle(w)' = Idle(w)
  BY <1>1 DEF Idle, NoRename, LogInv, Renaming
<1>6. ~Idle("writer") => renames["writer"].name.hidden = TRUE
  BY ShownName DEF LogInv, Renaming
<1>7. Dotted(fp).hidden = TRUE
  BY DEF Dotted, FileName, LogInv, OpenIntact
<1>8. \A w \in {"writer", "closer"} : ~Idle(w)' => HiddenName(renames'[w].name)
  BY <1>4, <1>5 DEF LogInv, Renaming
<1>9. ~Idle("writer")' =>
        /\ fp' = NoFile /\ AtEnds(batch')
        /\ logger' \in {"up", "closing"} => At(renames["writer"].name)' # {}
  <2>1. PICK n : n = renames["writer"].name
    OBVIOUS
  <2>2. renames'["writer"].name = n
    BY <1>4, <2>1
  <2>3. ~Idle("writer") => At(n)' = At(n)
    BY <1>6, <2>1
  <2>4. QED
    BY <1>1, <1>5, <2>1, <2>2, <2>3 DEF LogInv, Renaming
<1>10. fp'.hidden = FALSE => At(Dotted(fp))' = {} /\ renames'["closer"].name # Dotted(fp')
  <2>1. PICK n : n = Dotted(fp)
    OBVIOUS
  <2>2. n = Dotted(fp') /\ At(n)' = At(n)
    BY <1>1, <1>7, <2>1
  <2>3. QED
    BY <1>1, <1>4, <2>1, <2>2 DEF LogInv, Renaming
<1>11. QED
  BY <1>1, <1>3, <1>5, <1>8, <1>9, <1>10 DEF LogInv, Renaming, HiddenName, AtEnds

LEMMA CallsLog ==
  ASSUME LogInv, NEW who \in {"writer", "closer"}, AccessShown(who) \/ RemoveShown(who)
  PROVE  LogInv'
<1> DEFINE n == renames[who].name
<1>0. /\ UNCHANGED <<network, logger, handler, queue_, batch, current_file_, second, popped>>
      /\ Sent' = Sent /\ LogShape' /\ disk \subseteq FileOf(Sent) /\ NamesUnique(disk)
      /\ ~Idle(who) /\ HiddenName(n)
      /\ \A q : TransIndex(q)' = TransIndex(q)
  BY CallsShape
<1>1. CASE AccessShown(who)
  <2>1. disk' = disk /\ gone' = gone /\ fp' = fp
    BY <1>1 DEF AccessShown
  <2>2. PICK next \in {"rename", "remove"} : renames' = [renames EXCEPT ![who] = [name |-> n, next |-> next]]
    BY <1>1 DEF AccessShown
  <2>3. OpenIntact'
    BY <1>0, <2>1, OpenStays DEF LogInv, network
  <2>4. \A m : At(m)' = At(m)
    BY <2>1 DEF At
  <2>5. next \in NextCall /\ next # "none"
    BY DEF NextCall
  <2>6. Renaming'
    BY <1>1, <2>2, <2>4, <2>5, CallsGoOn
  <2>7. QED
    BY <1>0, <2>1, <2>3, <2>6 DEF LogInv
<1>2. CASE RemoveShown(who)
  <2>1. /\ disk' = disk \ At(Shown(n)) /\ gone' = gone \cup InFiles(At(Shown(n))) /\ fp' = fp
        /\ renames' = [renames EXCEPT ![who] = [name |-> n, next |-> "rename"]]
    BY <1>2 DEF RemoveShown, InFiles
  <2>2. At(Shown(n)) \in SUBSET disk
    BY DEF At
  <2>3. Sound(disk', gone', popped, Sent)
    BY <2>1, <2>2, SoundRemoved DEF LogInv
  <2>4. Shown(n).hidden = FALSE /\ Shown(n) # NoFile /\ Dotted(Shown(n)) = n
    BY <1>0, ShownName
  <2>5. fp # Shown(n)
    <3>1. SUFFICES ASSUME fp = Shown(n) PROVE FALSE
      OBVIOUS
    <3>2. CASE who = "writer"
      BY <1>0, <2>4, <3>1, <3>2 DEF LogInv, Renaming
    <3>3. CASE who = "closer"
      BY <2>4, <3>1, <3>3 DEF LogInv, Renaming
    <3>4. QED
      BY <3>2, <3>3
  <2> HIDE DEF n
  <2>6. OpenFile' = OpenFile
    BY <2>1, <2>5 DEF OpenFile, At
  <2>7. \A m : m.hidden = TRUE => At(m)' = At(m)
    BY <2>1, <2>4 DEF At
  <2>8. OpenIntact'
    BY <1>0, <2>1, <2>6 DEF LogInv, OpenIntact
  <2>9. "rename" \in NextCall /\ "rename" # "none"
    BY DEF NextCall
  <2>10. Renaming'
    BY <1>2, <2>1, <2>7, <2>9, CallsGoOn DEF n
  <2>11. QED
    BY <1>0, <2>3, <2>8, <2>10 DEF LogInv
<1>3. QED
  BY <1>1, <1>2

\* The files of each name, when the hidden file n loses its dot.
LEMMA RenamedAt ==
  ASSUME NEW P, disk \subseteq FileOf(P), NEW n, HiddenName(n),
         NEW D, D = Renamed(disk, At(n))
  PROVE  /\ \A m : m # Shown(n) /\ m # n => {f \in D : Named(f) = m} = At(m)
         /\ {f \in D : Named(f) = n} = {}
         /\ \A f \in At(n) : /\ [f EXCEPT !.hidden = FALSE] \in {g \in D : Named(g) = Shown(n)}
                            /\ [f EXCEPT !.hidden = FALSE].bags = f.bags
                            /\ [f EXCEPT !.hidden = FALSE].file_index = f.file_index
         /\ At(n) = {} => D = disk
<1> DEFINE shown == {[f EXCEPT !.hidden = FALSE] : f \in At(n)}
<1>1. D = {f \in disk \ At(n) : \A g \in shown : Named(f) # Named(g)} \cup shown
  BY DEF Renamed
<1>2. \A f \in At(n) : /\ Named([f EXCEPT !.hidden = FALSE]) = Shown(n)
                       /\ [f EXCEPT !.hidden = FALSE].bags = f.bags
                       /\ [f EXCEPT !.hidden = FALSE].file_index = f.file_index
  <2>1. ASSUME NEW f \in At(n)
        PROVE  /\ Named([f EXCEPT !.hidden = FALSE]) = Shown(n)
               /\ [f EXCEPT !.hidden = FALSE].bags = f.bags
               /\ [f EXCEPT !.hidden = FALSE].file_index = f.file_index
    <3>1. f \in FileOf(P) /\ Named(f) = n
      BY DEF At
    <3> DEFINE g == [f EXCEPT !.hidden = FALSE]
    <3>2. g.second = f.second /\ g.file_index = f.file_index /\ g.hidden = FALSE /\ g.bags = f.bags
      BY <3>1 DEF FileOf
    <3>3. n.second = f.second /\ n.file_index = f.file_index
      BY <3>1 DEF Named
    <3> HIDE DEF g
    <3>4. Named(g) = Shown(n)
      BY <3>2, <3>3 DEF Named, Shown
    <3>5. QED
      BY <3>2, <3>4 DEF g
  <2>2. QED
    BY <2>1
<1>3. \A g \in shown : Named(g) = Shown(n)
  BY <1>2
<1>4. Shown(n) # n
  BY ShownName
<1> HIDE DEF shown
<1>5. ASSUME NEW m, m # Shown(n), m # n PROVE {f \in D : Named(f) = m} = At(m)
  BY <1>1, <1>3, <1>5 DEF At
<1>6. {f \in D : Named(f) = n} = {}
  BY <1>1, <1>3, <1>4 DEF At
<1>7. At(n) = {} => D = disk
  BY <1>1 DEF shown
<1>8. \A f \in At(n) : [f EXCEPT !.hidden = FALSE] \in {g \in D : Named(g) = Shown(n)}
  BY <1>1, <1>2 DEF shown
<1>9. QED
  BY <1>2, <1>5, <1>6, <1>7, <1>8

\* The last call of a rename: the file is shown, unless the other thread did it.
LEMMA RenameLog ==
  ASSUME LogInv, NEW who \in {"writer", "closer"}, RenameFile(who)
  PROVE  LogInv'
<1>0. PICK n : n = renames[who].name
  OBVIOUS
<1>1. /\ UNCHANGED <<network, logger, handler, queue_, batch, current_file_, second, popped>>
      /\ Sent' = Sent /\ LogShape' /\ disk \subseteq FileOf(Sent) /\ NamesUnique(disk)
      /\ ~Idle(who) /\ HiddenName(n)
      /\ \A q : TransIndex(q)' = TransIndex(q)
  BY <1>0, CallsShape
<1>2. /\ disk' = Renamed(disk, At(n)) /\ gone' = gone \cup Replaced(disk, At(n))
      /\ listed' \subseteq listed /\ fp' = (IF fp = n THEN Shown(n) ELSE fp)
      /\ renames' = [renames EXCEPT ![who] = NoRename]
  BY <1>0 DEF RenameFile
<1>3. Sound(disk', gone', popped, Sent) /\ NamesUnique(disk')
  <2>1. At(n) \in SUBSET disk /\ \A h, k \in At(n) : h.hidden = k.hidden
    BY DEF At, Named
  <2>2. Sound(disk', gone', popped, Sent)
    BY <1>2, <2>1, SoundRenamed DEF LogInv
  <2>3. QED
    BY <2>2 DEF Sound
<1>4. /\ \A m : m # Shown(n) /\ m # n => At(m)' = At(m)
      /\ At(n)' = {} /\ (At(n) = {} => disk' = disk)
      /\ \A f \in At(n) : /\ [f EXCEPT !.hidden = FALSE] \in At(Shown(n))'
                         /\ [f EXCEPT !.hidden = FALSE].bags = f.bags
                         /\ [f EXCEPT !.hidden = FALSE].file_index = f.file_index
  <2>1. \A m : At(m)' = {f \in disk' : Named(f) = m}
    BY DEF At
  <2>2. QED
    BY <1>1, <1>2, <2>1, RenamedAt
<1>5. /\ Shown(n) \in FileName /\ Shown(n).hidden = FALSE /\ n # NoFile /\ Dotted(Shown(n)) = n
      /\ n.hidden = TRUE /\ n \in FileName
  BY <1>1, ShownName
<1>6. /\ renames' \in [{"writer", "closer"} -> [name : FileName, next : NextCall]]
      /\ renames'[who] = NoRename
      /\ \A w \in {"writer", "closer"} : w # who => renames'[w] = renames[w]
  BY <1>2, NoRenameType DEF LogInv, Renaming
<1>7. fp = n => who = "closer" /\ At(n) # {}
  BY <1>1, <1>5 DEF LogInv, Renaming, OpenIntact, OpenFile
<1>8. fp # NoFile => fp.second \in Nat
  <2>1. SUFFICES ASSUME fp # NoFile PROVE fp.second \in Nat
    OBVIOUS
  <2>2. PICK f \in disk : Named(f) = fp
    BY <2>1 DEF LogInv, OpenIntact, OpenFile, At
  <2>3. QED
    BY <1>1, <2>2 DEF Named, FileOf
<1>9. OpenIntact'
  <2>1. CASE fp = n
    <3>1. PICK f \in At(n) : TRUE
      BY <1>7, <2>1
    <3>2. PICK g : g = [f EXCEPT !.hidden = FALSE]
      OBVIOUS
    <3>3. g \in OpenFile' /\ g.bags = f.bags /\ g.file_index = f.file_index
      BY <1>2, <1>4, <2>1, <3>2 DEF OpenFile
    <3>4. OpenFile' = {g}
      BY <1>3, <3>3 DEF OpenFile, At, NamesUnique
    <3>5. /\ g.file_index = current_file_.file_index
          /\ g.bags # <<>> => TransIndex(g.bags[Len(g.bags)]) <= current_file_.trans_index
      BY <2>1, <3>3 DEF LogInv, OpenIntact, OpenFile
    <3>6. QED
      BY <1>1, <1>2, <1>5, <2>1, <3>4, <3>5 DEF OpenIntact
  <2>2. CASE fp # n
    <3>1. fp' = fp
      BY <1>2, <2>2
    <3>2. CASE At(n) = {}
      BY <1>1, <1>4, <3>1, <3>2, OpenStays DEF LogInv, network
    <3>3. CASE At(n) # {}
      <4>1. fp # Shown(n)
        BY <1>5, <3>3 DEF LogInv, Renaming
      <4>2. OpenFile' = OpenFile
        <5>1. PICK m : m = fp
          OBVIOUS
        <5>2. At(m)' = At(m)
          BY <1>4, <2>2, <4>1, <5>1
        <5>3. QED
          BY <3>1, <5>1, <5>2 DEF OpenFile
      <4>3. QED
        BY <1>1, <3>1, <4>2 DEF LogInv, OpenIntact
    <3>4. QED
      BY <3>2, <3>3
  <2>3. QED
    BY <2>1, <2>2
<1>10. \A w \in {"writer", "closer"} : ~Idle(w)' => w # who /\ ~Idle(w) /\ renames'[w] = renames[w]
  BY <1>6 DEF Idle
<1>11. \A w \in {"writer", "closer"} : ~Idle(w)' => HiddenName(renames'[w].name)
  BY <1>10 DEF LogInv, Renaming
<1>12. ~Idle("writer")' => fp' = NoFile /\ AtEnds(batch') /\ logger' \notin {"up", "closing"}
  <2>1. SUFFICES ASSUME ~Idle("writer")' PROVE fp' = NoFile /\ AtEnds(batch') /\ logger' \notin {"up", "closing"}
    OBVIOUS
  <2>2. who = "closer" /\ ~Idle("writer")
    BY <1>10, <2>1
  <2>3. logger = "renaming" /\ fp = NoFile /\ AtEnds(batch)
    BY <1>1, <2>2 DEF LogInv, Renaming
  <2>4. QED
    BY <1>1, <1>2, <1>5, <2>3
<1>13. ~Idle("closer")' \/ listed' # {} => logger' = "renaming"
  BY <1>1, <1>2, <1>10 DEF LogInv, Renaming
<1>14. fp'.hidden = FALSE =>
         /\ logger' \in {"renaming", "destroyed"}
         /\ At(Dotted(fp))' = {} /\ renames'["closer"].name # Dotted(fp')
  <2>1. CASE fp = n
    <3>1. who = "closer" /\ fp' = Shown(n) /\ logger = "renaming"
      BY <1>1, <1>2, <1>7, <2>1 DEF LogInv, Renaming
    <3>2. Dotted(fp') = n /\ renames'["closer"].name = NoFile
      BY <1>5, <1>6, <3>1 DEF NoRename
    <3>3. QED
      BY <1>1, <1>4, <1>5, <3>1, <3>2
  <2>2. CASE fp # n
    <3>1. SUFFICES ASSUME fp.hidden = FALSE
                   PROVE  /\ logger' \in {"renaming", "destroyed"}
                          /\ At(Dotted(fp))' = {} /\ renames'["closer"].name # Dotted(fp')
      BY <1>2, <2>2
    <3>2. fp' = fp /\ logger' = logger /\ fp # NoFile
      BY <1>1, <1>2, <2>2, <3>1 DEF NoFile
    <3>3. PICK m : m = Dotted(fp)
      OBVIOUS
    <3>4. m.hidden = TRUE /\ m.second = fp.second /\ m # NoFile /\ m # Shown(n)
      BY <1>5, <1>8, <3>2, <3>3 DEF Dotted, NoFile
    <3>5. At(m)' = {}
      BY <1>4, <3>1, <3>3, <3>4 DEF LogInv, Renaming
    <3>6. renames'["closer"].name # m
      BY <1>6, <3>1, <3>3, <3>4 DEF LogInv, Renaming, NoRename
    <3>7. QED
      BY <3>1, <3>2, <3>3, <3>5, <3>6 DEF LogInv, Renaming
  <2>3. QED
    BY <2>1, <2>2
<1>15. Renaming'
  BY <1>6, <1>11, <1>12, <1>13, <1>14 DEF Renaming, HiddenName, AtEnds
<1>16. QED
  BY <1>1, <1>3, <1>9, <1>15 DEF LogInv

\* What the writer does to the bags it holds, whatever becomes of the files.
LEMMA WriteShape ==
  ASSUME LogInv, Write
  PROVE  /\ Sent' = Sent /\ numbering' = numbering /\ logger' = logger
         /\ Head(batch) \in Sent /\ popped' = popped \cup {Head(batch)}
         /\ current_file_'.trans_index = TransIndex(Head(batch)) \/ current_file_' = current_file_
         /\ LogShape'
<1> DEFINE p == Head(batch)
<1>1. Sent' = Sent /\ numbering' = numbering /\ logger' = logger /\ popped' = popped \cup {p}
  BY DEF Write, Sent, network
<1>2. p \in Sent /\ Tail(batch) \in Seq(Sent)
  BY DEF LogInv, LogShape, Write
<1>3. p \in Nat /\ FileIndex(p) \in Int /\ TransIndex(p) \in Int
  <2>1. p \in Nat \ {0}
    BY <1>2 DEF Sent, LogInv, LogShape
  <2>2. BagsPerFile \in Nat \ {0}
    BY LogAssumption
  <2>3. (p - 1) \div BagsPerFile \in Int /\ (p - 1) % BagsPerFile \in Int
    BY <2>1, <2>2, DivMod
  <2>4. QED
    BY <2>1, <2>3 DEF FileIndex, TransIndex
<1> HIDE DEF p
<1>4. current_file_' \in [file_index : Int, trans_index : Int]
  BY <1>3 DEF Write, LogInv, LogShape, p
<1>5. current_file_'.trans_index = TransIndex(p) \/ current_file_' = current_file_
  BY DEF Write, p
<1>6. LogShape'
  BY <1>1, <1>2, <1>4 DEF Write, LogInv, LogShape, network
<1>7. QED
  BY <1>1, <1>2, <1>5, <1>6 DEF p

LEMMA StopFileLog ==
  ASSUME LogInv, NEW p \in Sent, Flag(p) = "kEndFile", StopFile
  PROVE  Sound(disk', gone', popped \cup {p}, Sent) /\ OpenIntact'
<1>1. Sound(disk', gone', popped \cup {p}, Sent)
  BY SoundMore DEF LogInv, StopFile
<1>2. OpenIntact'
  BY <1>1, OpenEnds DEF StopFile, Sound
<1>3. QED
  BY <1>1, <1>2

LEMMA CreateFileLog ==
  ASSUME LogInv, NEW p \in Sent, Flag(p) = "kCreateFile", CreateFile(p), LogShape',
         Sent' = Sent, numbering' = numbering,
         current_file_' = [file_index |-> FileIndex(p), trans_index |-> TransIndex(p)]
  PROVE  Sound(disk', gone', popped \cup {p}, Sent) /\ OpenIntact' /\ fp'.hidden = TRUE
<1> DEFINE closed == disk
<1> DEFINE name == [second |-> second, file_index |-> FileIndex(p), hidden |-> TRUE]
<1> DEFINE old == {f \in closed : Named(f) = name}
<1> DEFINE bags == IF old = {} THEN <<p>> ELSE Append((CHOOSE f \in old : TRUE).bags, p)
<1> DEFINE n == [second |-> second, file_index |-> FileIndex(p), hidden |-> TRUE, bags |-> bags]
<1>1. disk' = (closed \ old) \cup {n} /\ fp' = name /\ gone' = gone
  BY DEF CreateFile, At
<1>2. Sound(closed, gone', popped, Sent)
  BY <1>1 DEF LogInv
<1>3. p \in Nat /\ FileIndex(p) \in Int /\ second \in Nat /\ current_file_'.trans_index \in Int
  <2>1. p \in Nat
    BY DEF Sent, LogInv, LogShape
  <2>2. FileIndex(p) \in Int /\ current_file_'.trans_index \in Int
    BY DEF LogShape
  <2>3. QED
    BY <2>1, <2>2 DEF LogInv, LogShape
<1> HIDE DEF closed
<1>4. closed \subseteq FileOf(Sent) /\ NamesUnique(closed) /\ \A f \in closed : IntactFile(f)
  BY <1>2 DEF Sound
<1>5. /\ n \in FileOf(Sent) /\ IntactFile(n) /\ p \in ToSet(n.bags)
      /\ \A f \in old : ToSet(f.bags) \subseteq ToSet(n.bags)
      /\ n.bags # <<>> /\ n.bags[Len(n.bags)] = p
  <2>1. CASE old = {}
    <3>1. n.bags = <<p>> /\ <<p>> \in Seq(Sent)
      BY <2>1
    <3>2. n \in FileOf(Sent)
      BY <1>3, <3>1 DEF FileOf
    <3>3. IntactFile(n)
      BY <3>1, IntactSingle
    <3>4. p \in ToSet(n.bags)
      <4>1. ToSet(<<p>>) = {p}
        BY DEF ToSet
      <4>2. QED
        BY <3>1, <4>1
    <3>5. QED
      BY <2>1, <3>1, <3>2, <3>3, <3>4
  <2>2. CASE old # {}
    <3> DEFINE f == CHOOSE f \in old : TRUE
    <3>1. f \in closed /\ Named(f) = name /\ \A g \in old : g = f
      BY <1>4, <2>2 DEF NamesUnique
    <3>2. bags = Append(f.bags, p)
      BY <2>2
    <3> HIDE DEF f
    <3>3. f \in FileOf(Sent) /\ f.bags \in Seq(Sent) /\ f.file_index = FileIndex(p) /\ IntactFile(f)
      BY <1>4, <3>1 DEF FileOf, Named
    <3>4. n.bags = Append(f.bags, p) /\ n.bags \in Seq(Sent) /\ n.file_index = FileIndex(p)
      <4>1. n.bags = bags /\ n.file_index = FileIndex(p)
        OBVIOUS
      <4> HIDE DEF n, bags
      <4>2. QED
        BY <3>2, <3>3, <4>1
    <3>5. n \in FileOf(Sent)
      BY <1>3, <3>4 DEF FileOf
    <3>6. FileOf(Sent) \subseteq FileOf(Nat)
      BY SMTT(30) DEF FileOf, Sent, LogInv, LogShape
    <3> HIDE DEF n
    <3>7. IntactFile(n)
      BY <1>3, <3>3, <3>4, <3>5, <3>6, IntactAppend
    <3>8. p \in ToSet(n.bags) /\ ToSet(f.bags) \subseteq ToSet(n.bags)
      <4>1. ToSet(Append(f.bags, p)) = ToSet(f.bags) \cup {p}
        BY <3>3, BagsAppended
      <4>2. QED
        BY <3>4, <4>1
    <3>9. n.bags # <<>> /\ n.bags[Len(n.bags)] = p
      BY <3>3, <3>4
    <3>10. QED
      BY <3>1, <3>5, <3>7, <3>8, <3>9
  <2>3. QED
    BY <2>1, <2>2
<1>6. Named(n) = name /\ n.file_index = FileIndex(p)
  BY DEF Named
<1> HIDE DEF n
<1>7. Sound(disk', gone', popped \cup {p}, Sent)
  <2>1. old = {f \in closed : Named(f) = Named(n)}
    BY <1>6
  <2> HIDE DEF old
  <2>2. QED
    BY <1>1, <1>2, <1>5, <2>1, SoundPut
<1>8. OpenIntact'
  <2>1. OpenFile' = {n}
    <3>1. \A f \in closed \ old : Named(f) # name
      OBVIOUS
    <3>2. QED
      BY <1>1, <1>6, <3>1 DEF OpenFile, At
  <2>2. fp' \in FileName
    BY <1>1, <1>3 DEF FileName
  <2>3. \A q : TransIndex(q)' = TransIndex(q)
    BY DEF TransIndex
  <2>4. TransIndex(p) <= current_file_'.trans_index
    BY <1>3
  <2>5. QED
    BY <1>5, <1>6, <2>1, <2>2, <2>3, <2>4 DEF OpenIntact
<1>9. QED
  BY <1>1, <1>7, <1>8

LEMMA WriteFileLog ==
  ASSUME LogInv, NEW p \in Sent, Flag(p) # "kCreateFile", ~Stale(p), WriteFile(p), LogShape',
         FileIndex(p) = current_file_.file_index,
         Sent' = Sent, numbering' = numbering, logger' = logger,
         current_file_' = [file_index |-> current_file_.file_index, trans_index |-> TransIndex(p)]
  PROVE  Sound(disk', gone', popped \cup {p}, Sent) /\ OpenIntact'
<1>0. p \in Nat \ {0} /\ TransIndex(p) \in Int /\ \A q : TransIndex(q)' = TransIndex(q)
  BY DEF Sent, LogInv, LogShape, TransIndex
<1>1. CASE fp = NoFile
  <2>1. disk' = disk /\ gone' = gone \cup {p} /\ fp' = NoFile
    BY <1>1, OpenOne DEF WriteFile
  <2>2. QED
    BY <2>1, SoundMore, OpenEnds DEF LogInv, Sound
<1>2. CASE fp # NoFile
  <2>1. PICK f \in OpenFile : TRUE
    BY <1>2 DEF LogInv, OpenIntact
  <2>2. OpenFile = {f} /\ f \in disk /\ Named(f) = fp
    BY <2>1, OpenOne DEF OpenFile, At
  <2> DEFINE n == [f EXCEPT !.bags = Append(@, p)]
  <2>3. disk' = (disk \ {f}) \cup {n} /\ gone' = gone /\ fp' = fp
    BY <1>2, <2>2 DEF WriteFile
  <2>4. /\ f \in FileOf(Sent) /\ f.bags \in Seq(Sent) /\ IntactFile(f) /\ f.file_index = FileIndex(p)
        /\ FileOf(Sent) \subseteq FileOf(Nat)
    BY SMTT(30), <2>1, <2>2 DEF LogInv, LogShape, Sound, FileOf, OpenIntact, Sent
  <2>5. /\ n.bags = Append(f.bags, p) /\ n.file_index = f.file_index /\ Named(n) = fp
        /\ n \in FileOf(Sent)
    <3>1. /\ n.bags = Append(f.bags, p) /\ n.file_index = f.file_index
          /\ n.second = f.second /\ n.hidden = f.hidden
      BY <2>4 DEF FileOf
    <3>2. Named(n) = fp
      BY <2>2, <3>1 DEF Named
    <3>3. Append(f.bags, p) \in Seq(Sent)
      BY <2>4
    <3>4. n \in FileOf(Sent)
      BY <2>4, <3>3 DEF FileOf
    <3>5. QED
      BY <3>1, <3>2, <3>4
  <2> HIDE DEF n
  <2>6. f.bags = <<>> \/ f.bags[Len(f.bags)] <= p
    <3>1. SUFFICES ASSUME f.bags # <<>> PROVE f.bags[Len(f.bags)] <= p
      OBVIOUS
    <3> DEFINE q == f.bags[Len(f.bags)]
    <3>2. Len(f.bags) \in DOMAIN f.bags /\ q \in Sent
      BY <2>4, <3>1
    <3>3. FileIndex(q) = FileIndex(p)
      BY <2>4, <3>2 DEF IntactFile
    <3>4. TransIndex(q) <= current_file_.trans_index
      BY <2>1, <3>1 DEF LogInv, OpenIntact
    <3>5. q \in Nat \ {0}
      BY SMTT(30), <3>2 DEF Sent, LogInv, LogShape
    <3>6. TransIndex(q) \in Int /\ TransIndex(p) \in Int /\ current_file_.trans_index \in Int
      <4>1. BagsPerFile \in Nat \ {0}
        BY LogAssumption
      <4> HIDE DEF q
      <4>2. (q - 1) % BagsPerFile \in Int /\ (p - 1) % BagsPerFile \in Int
        <5>1. q - 1 \in Int /\ p - 1 \in Int
          BY <1>0, <3>5
        <5>2. QED
          BY <4>1, <5>1, DivMod
      <4>3. QED
        BY <1>0, <3>5, <4>2 DEF TransIndex, LogInv, LogShape
    <3>7. TransIndex(p) >= current_file_.trans_index
      BY <3>6 DEF Stale
    <3>8. TransIndex(q) <= TransIndex(p)
      BY <3>4, <3>6, <3>7
    <3> HIDE DEF q
    <3>9. q <= p
      BY <1>0, <3>3, <3>5, <3>8, IndexOrder DEF LogInv, LogShape
    <3>10. QED
      BY <3>9 DEF q
  <2>7. IntactFile(n)
    BY <1>0, <2>4, <2>5, <2>6, IntactAppend
  <2>8. p \in ToSet(n.bags) /\ ToSet(f.bags) \subseteq ToSet(n.bags)
    <3>1. ToSet(Append(f.bags, p)) = ToSet(f.bags) \cup {p}
      BY <2>4, BagsAppended
    <3>2. QED
      BY <2>5, <3>1
  <2>9. {f} = {g \in disk : Named(g) = Named(n)}
    BY <2>2, <2>5 DEF OpenFile, At
  <2>10. Sound(disk', gone', popped \cup {p}, Sent)
    BY <2>3, <2>5, <2>7, <2>8, <2>9, SoundPut DEF LogInv
  <2>11. OpenFile' = {n}
    BY <2>2, <2>3, <2>5 DEF OpenFile, At
  <2>12. n.bags # <<>> /\ n.bags[Len(n.bags)] = p
    BY <2>4, <2>5
  <2>13. OpenIntact'
    <3>1. TransIndex(p) <= TransIndex(p)
      BY <1>0
    <3>2. QED
      BY <1>0, <2>3, <2>4, <2>5, <2>11, <2>12, <3>1 DEF LogInv, OpenIntact
  <2>14. QED
    BY <2>10, <2>13
<1>3. QED
  BY <1>1, <1>2

\* The writer treats a bag only when it renames nothing.
LEMMA WriteRenames ==
  ASSUME LogInv, Write, OpenIntact', Flag(Head(batch)) = "kCreateFile" => fp'.hidden = TRUE
  PROVE  Renaming'
<1> DEFINE p == Head(batch)
<1>1. Idle("writer")
  <2>1. Flag(p) \in {"kCreateFile", "kEndFile"} => Idle("writer")
    BY DEF Write, CreateFile, StopFile
  <2>2. QED
    BY <2>1 DEF LogInv, Renaming, AtEnds
<1>2. /\ UNCHANGED <<logger, listed, renames>> /\ fp \in FileName /\ disk \subseteq FileOf(Sent)
      /\ batch # <<>>
  BY DEF Write, LogInv, OpenIntact, Sound
<1>3. CASE Flag(p) = "kCreateFile"
  <2>1. \A who \in {"writer", "closer"} : Idle(who)' = Idle(who)
    BY <1>2 DEF Idle
  <2>2. \A who \in {"writer", "closer"} : ~Idle(who)' => HiddenName(renames'[who].name)
    BY <1>2, <2>1 DEF LogInv, Renaming
  <2>3. /\ Idle("writer")' /\ (~Idle("closer")' \/ listed' # {} => logger' = "renaming")
        /\ ~(fp'.hidden = FALSE)
        /\ renames' \in [{"writer", "closer"} -> [name : FileName, next : NextCall]]
    BY <1>1, <1>2, <1>3, <2>1 DEF LogInv, Renaming
  <2>4. QED
    BY <2>2, <2>3 DEF Renaming, HiddenName
<1>4. CASE Flag(p) # "kCreateFile" /\ disk' = disk /\ fp' = fp
  BY <1>1, <1>2, <1>4, RenamesIdle DEF LogInv
<1>5. CASE Flag(p) # "kCreateFile" /\ ~(disk' = disk /\ fp' = fp)
  <2>1. WriteFile(p)
    BY <1>5 DEF Write, StopFile
  <2>2. fp' = fp /\ disk' = (disk \ OpenFile) \cup {[f EXCEPT !.bags = Append(@, p)] : f \in OpenFile}
    BY <2>1 DEF WriteFile
  <2>3. \A f \in OpenFile : Named([f EXCEPT !.bags = Append(@, p)]) = fp /\ Named(f) = fp
    <3>1. ASSUME NEW f \in OpenFile
          PROVE  Named([f EXCEPT !.bags = Append(@, p)]) = fp /\ Named(f) = fp
      <4>1. f \in FileOf(Sent) /\ Named(f) = fp
        BY <1>2 DEF OpenFile, At
      <4> DEFINE g == [f EXCEPT !.bags = Append(@, p)]
      <4>2. g.second = f.second /\ g.file_index = f.file_index /\ g.hidden = f.hidden
        BY <4>1 DEF FileOf
      <4> HIDE DEF g
      <4>3. Named(g) = Named(f)
        BY <4>2 DEF Named
      <4>4. QED
        BY <4>1, <4>3 DEF g
    <3>2. QED
      BY <3>1
  <2>4. \A m : At(m) = {} <=> {f \in disk' : Named(f) = m} = {}
    <3>1. ASSUME NEW m PROVE At(m) = {} <=> {f \in disk' : Named(f) = m} = {}
      <4>1. CASE m = fp
        BY <2>2, <2>3, <4>1 DEF OpenFile, At
      <4>2. CASE m # fp
        BY <2>2, <2>3, <4>2 DEF OpenFile, At
      <4>3. QED
        BY <4>1, <4>2
    <3>2. QED
      BY <3>1
  <2>5. fp.hidden = FALSE => logger' \in {"renaming", "destroyed"}
    BY <1>2 DEF LogInv, Renaming
  <2>6. QED
    BY <1>1, <1>2, <2>2, <2>4, <2>5, RenamesStay DEF LogInv
<1>6. QED
  BY <1>3, <1>4, <1>5

LEMMA WriteLog == LogInv /\ Write => LogInv'
<1> SUFFICES ASSUME LogInv, Write PROVE LogInv'
  OBVIOUS
<1> DEFINE p == Head(batch)
<1>1. /\ Sent' = Sent /\ numbering' = numbering /\ logger' = logger
      /\ p \in Sent /\ popped' = popped \cup {p} /\ LogShape'
  BY WriteShape
<1>2. SUFFICES /\ Sound(disk', gone', popped \cup {p}, Sent) /\ OpenIntact'
               /\ Flag(p) = "kCreateFile" => fp'.hidden = TRUE
  BY <1>1, WriteRenames DEF LogInv
<1> DEFINE other == Flag(p) = "kTransferData" /\ FileIndex(p) # current_file_.file_index
<1>3. CASE Flag(p) = "kCreateFile"
  <2>1. CreateFile(p)
    BY <1>3 DEF Write
  <2>2. current_file_' = [file_index |-> FileIndex(p), trans_index |-> TransIndex(p)]
    BY <1>3 DEF Write
  <2> HIDE DEF p
  <2>3. QED
    BY <1>1, <1>3, <2>1, <2>2, CreateFileLog
<1>4. CASE Flag(p) = "kEndFile"
  <2>1. StopFile
    BY <1>4 DEF Write
  <2>2. QED
    BY <1>1, <1>4, <2>1, StopFileLog, Zenon
<1>5. CASE other
  <2>1. gone' = gone \cup {p} /\ disk' = disk /\ fp' = fp /\ current_file_' = current_file_
    BY <1>5 DEF Write
  <2>2. Sound(disk', gone', popped \cup {p}, Sent)
    BY <1>1, <2>1, SoundMore DEF LogInv
  <2>3. OpenIntact'
    BY <1>1, <2>1, OpenStays DEF LogInv
  <2>4. QED
    BY <1>5, <2>2, <2>3
<1>6. CASE Flag(p) \notin {"kCreateFile", "kEndFile"} /\ ~other
  <2>1. WriteFile(p) /\ ~Stale(p)
    BY <1>6 DEF Write
  <2>2. current_file_' = [file_index |-> current_file_.file_index, trans_index |-> TransIndex(p)]
    BY <1>6 DEF Write
  <2>3. FileIndex(p) = current_file_.file_index
    BY <1>6 DEF Flag
  <2> HIDE DEF p
  <2>4. QED
    BY <1>1, <1>6, <2>1, <2>2, <2>3, WriteFileLog
<1>7. QED
  BY <1>3, <1>4, <1>5, <1>6

LEMMA NextLog == LogInv /\ [LogNext]_logVars => LogInv'
<1> SUFFICES ASSUME LogInv, [LogNext]_logVars PROVE LogInv'
  OBVIOUS
<1>1. CASE TakeQueue
  <2>1. LogShape' /\ Sent' = Sent
    BY <1>1 DEF LogInv, TakeQueue, LogShape, Sent, network
  <2>2. OpenIntact'
    BY <1>1, OpenStays DEF LogInv, TakeQueue, network
  <2>3. Renaming'
    <3>1. Idle("writer")
      BY <1>1 DEF LogInv, Renaming, AtEnds, TakeQueue
    <3>2. QED
      BY <1>1, <3>1, RenamesIdle DEF LogInv, OpenIntact, TakeQueue
  <2>4. QED
    BY <1>1, <2>1, <2>2, <2>3 DEF LogInv, TakeQueue
<1>2. CASE UNCHANGED logVars
  <2>1. LogShape' /\ Sent' = Sent
    BY <1>2 DEF LogInv, logVars, LogShape, Sent
  <2>2. OpenIntact'
    BY <1>2, OpenStays DEF LogInv, logVars
  <2>3. Renaming'
    BY <1>2, RenamesIdle DEF LogInv, logVars, OpenIntact
  <2>4. QED
    BY <1>2, <2>1, <2>2, <2>3 DEF LogInv, logVars
<1>3. QED
  BY <1>1, <1>2, NetworkLog, ManagerLog, BeginsLog, CallsLog, RenameLog, WriteLog DEF LogNext

\* The files of a logging session, whatever is lost, repeated or overtaken on the way, deleted
\* by CycleDelete or left behind by a process that dies, however the writer's rename and
\* those of ChangeHiddenFiles interleave (LoggerHandler::Write, CycleDelete, FileManager).
THEOREM FilesIntact == LogSpec => []LogIntact
<1>1. LogInv => LogIntact
  BY DEF LogInv, OpenIntact, Renaming, Sound, IntactFile, InFiles, LogIntact
<1>2. QED
  BY <1>1, InitLog, NextLog, PTL DEF LogSpec

\* A log bag that was written, or that is gone, was sent; a LoggerHandler exists as long as
\* there is something to write or a file open; and no two files share a name.
THEOREM LogBounded == LogSpec => []LogTypeOK
<1>1. LogInv => LogTypeOK
  BY DEF LogInv, LogShape, Renaming, AtEnds, Sound, NamesUnique, Sent, LogTypeOK
<1>2. QED
  BY <1>1, InitLog, NextLog, PTL DEF LogSpec

-----------------------------------------------------------------------------
(* RsNode: the invariant of one source, as a predicate on its values.  ps are the packets   *)
(* handled, q those that wait, n the last one sent, p the frame of the last one handled;    *)
(* c is the object being filled, objs all objects, w those with a whole frame on the way to *)
(* be published, r those on the way back; pub are the messages published.                   *)

NodePoint == [pkt : Nat, chan : Nat, nan : BOOLEAN]
CloudObj  == [points : Seq(NodePoint), width : Nat, height : Nat]
PacketMsg == [pkt : Nat \ {0}, is_frame_begin : BOOLEAN]
CloudOut  == [width : Nat, height : Nat, data : Seq(NodePoint)]

PointsOf(dense, pkt) ==
  LET points == PacketPoints(pkt)
  IN  IF dense THEN Picked(points, {c \in DOMAIN points : ~points[c].nan}) ELSE points
Of(ps, f) == {k \in DOMAIN ps : FrameOfPkt(ps[k].pkt) = f}
Decoded(dense, ps, f) == UNION {ToSet(PointsOf(dense, ps[k].pkt)) : k \in Of(ps, f)}

\* Packets come and are handled in their order, and the first of a frame says so, except the
\* first of all.
PacketFlow(ps, q, n, p) ==
  /\ \A i, j \in DOMAIN ps : i < j => ps[i].pkt < ps[j].pkt
  /\ \A i, j \in DOMAIN q : i < j => q[i] < q[j]
  /\ \A i \in DOMAIN ps, j \in DOMAIN q : ps[i].pkt < q[j]
  /\ \A i \in DOMAIN ps : ps[i].pkt <= n
  /\ \A j \in DOMAIN q : q[j] <= n
  /\ p = IF ps = <<>> THEN 0 ELSE FrameOfPkt(ps[Len(ps)].pkt)
  /\ \A k \in DOMAIN ps :
       ps[k].is_frame_begin <=> k # 1 /\ \A j \in Of(ps, FrameOfPkt(ps[k].pkt)) : k <= j

\* No object is in two hands.
Owned(c, made, w, r) ==
  /\ c \in 0 .. made /\ w \in Seq(Nat) /\ r \in Seq(Nat)
  /\ \A i \in DOMAIN w : w[i] \in 1 .. made /\ w[i] # c
  /\ \A i \in DOMAIN r : r[i] \in 1 .. made /\ r[i] # c
  /\ \A i, j \in DOMAIN w : i < j => w[i] # w[j]
  /\ \A i, j \in DOMAIN r : i < j => r[i] # r[j]
  /\ \A i \in DOMAIN w, j \in DOMAIN r : w[i] # r[j]

\* Every packet still to be handled is of a later frame.
NothingMore(f, q, n) == (\A j \in DOMAIN q : f < FrameOfPkt(q[j])) /\ f < FrameOfPkt(n + 1)

\* All points decoded of frame f, each once, in the order of decoding.
Gathered(dense, ps, points, f) ==
  /\ ToSet(points) = Decoded(dense, ps, f)
  /\ \A i, j \in DOMAIN points : i < j => Precedes(points[i], points[j])
  /\ ~dense => /\ Len(points) % Channels = 0
               /\ \A k \in DOMAIN points : points[k].chan = ((k - 1) % Channels) + 1

FrameOf(points) == FrameOfPkt(points[1].pkt)

WholeCloud(dense, ps, q, n, m) ==
  /\ m.points # <<>> /\ Gathered(dense, ps, m.points, FrameOf(m.points))
  /\ m.height = (IF dense THEN 1 ELSE Channels) /\ m.width * m.height = Len(m.points)
  /\ NothingMore(FrameOf(m.points), q, n)

Waits(dense, ps, q, n, objs, w) ==
  /\ \A i \in DOMAIN w : WholeCloud(dense, ps, q, n, objs[w[i]])
  /\ \A i, j \in DOMAIN w : i < j => FrameOf(objs[w[i]].points) < FrameOf(objs[w[j]].points)

\* A message as it must be.
FrameMsg(dense, rows, ps, m, f) ==
  /\ ToSet(m.data) = Decoded(dense, ps, f) /\ Len(m.data) = m.width * m.height
  /\ \A i, j \in DOMAIN m.data :
       i < j => IF rows THEN RowPrecedes(m.data[i], m.data[j]) ELSE Precedes(m.data[i], m.data[j])
  /\ rows => \A k \in DOMAIN m.data : m.data[k].chan = ((k - 1) \div m.width) + 1

Outgone(dense, rows, ps, q, n, pub) ==
  /\ \A i \in DOMAIN pub : /\ pub[i].data # <<>>
                           /\ FrameMsg(dense, rows, ps, pub[i], FrameOf(pub[i].data))
                           /\ NothingMore(FrameOf(pub[i].data), q, n)
  /\ \A i, j \in DOMAIN pub : i < j => FrameOf(pub[i].data) < FrameOf(pub[j].data)

\* What was published comes before what waits.
InTurn(objs, w, pub) ==
  \A i \in DOMAIN pub, j \in DOMAIN w : FrameOf(pub[i].data) < FrameOf(objs[w[j]].points)

\* The cloud being filled has all of the current frame, which comes after those finished.
Filling(dense, started, ps, q, n, p, c, objs, w, pub) ==
  started =>
    IF c # NoMsg /\ objs[c].points # <<>>
    THEN /\ Gathered(dense, ps, objs[c].points, p)
         /\ \A i \in DOMAIN w : FrameOf(objs[w[i]].points) < p
         /\ \A i \in DOMAIN pub : FrameOf(pub[i].data) < p
    ELSE NothingMore(p, q, n) \/ Decoded(dense, ps, p) = {}

CloudsInv(dense, rows, started, ps, q, n, p, c, objs, w, pub) ==
  /\ Waits(dense, ps, q, n, objs, w)
  /\ Outgone(dense, rows, ps, q, n, pub)
  /\ InTurn(objs, w, pub)
  /\ Filling(dense, started, ps, q, n, p, c, objs, w, pub)

\* The clouds between the threads, and those on their way back.
OnTheWay(s) == (IF processing[s] = "send" THEN <<msg[s]>> ELSE <<>>) \o point_cloud_queue_[s]
OnTheWayBack(s) == free_point_cloud_queue_[s] \o (IF processing[s] = "recycle" THEN <<msg[s]>> ELSE <<>>)

NodeShape ==
  /\ config \in [msg_source : {"lidar", "packets"}, ros_send_by_rows : BOOLEAN, dense_points : BOOLEAN]
  /\ node \in {"init", "start", "wait", "stop", "ended", "terminated", "exited"} /\ at \in Source
  /\ pktLoss \in 0 .. MaxPktLoss
  /\ sent \in [Source -> Nat] /\ prevFrame \in [Source -> Nat]
  /\ pkt_queue_ \in [Source -> Seq(Nat \ {0})]
  /\ start_flag_ \in [Source -> BOOLEAN] /\ to_exit_process_ \in [Source -> BOOLEAN]
  /\ cloudMsg \in [Source -> Seq(CloudObj)]
  /\ point_cloud_ \in [Source -> Nat] /\ msg \in [Source -> Nat]
  /\ free_point_cloud_queue_ \in [Source -> Seq(Nat)] /\ point_cloud_queue_ \in [Source -> Seq(Nat)]
  /\ processing \in [Source -> {"none", "loop", "wait", "send", "recycle", "ended"}]
  /\ clouds \in [Source -> Seq(CloudOut)] /\ packets \in [Source -> Seq(PacketMsg)]

Limits(s) ==
  /\ msg[s] <= Len(cloudMsg[s])
  /\ Len(pkt_queue_[s]) <= PktQueue /\ Len(point_cloud_queue_[s]) <= CloudQueue

\* Before main() starts the drivers, nothing was handled and nothing is on its way.
Phase(s) ==
  /\ node \in {"init", "start"} /\ ~start_flag_[s] =>
       /\ packets[s] = <<>>
       /\ point_cloud_[s] # NoMsg => cloudMsg[s][point_cloud_[s]].points = <<>>
  /\ node = "init" => /\ ~start_flag_[s] /\ processing[s] \notin {"send", "recycle"}
                      /\ point_cloud_queue_[s] = <<>> /\ free_point_cloud_queue_[s] = <<>>

SourceInv(s) ==
  /\ PacketFlow(packets[s], pkt_queue_[s], sent[s], prevFrame[s])
  /\ Owned(point_cloud_[s], Len(cloudMsg[s]), OnTheWay(s), OnTheWayBack(s))
  /\ CloudsInv(config.dense_points, send_by_rows_, start_flag_[s], packets[s], pkt_queue_[s], sent[s],
               prevFrame[s], point_cloud_[s], cloudMsg[s], OnTheWay(s), clouds[s])
  /\ Limits(s) /\ Phase(s)

NodeInv == NodeShape /\ \A s \in Source : SourceInv(s)

-----------------------------------------------------------------------------
(* RsNode: frames and points *)

LEMMA FrameNumber ==
  ASSUME NEW n \in Nat \ {0}
  PROVE  FrameOfPkt(n) \in Nat \ {0}
<1> DEFINE d == (n - 1) \div Columns
<1>1. n - 1 \in Nat /\ Columns \in Nat \ {0}
  BY NodeAssumption
<1>2. d \in Nat
  BY <1>1
<1>3. FrameOfPkt(n) = d + 1
  BY DEF FrameOfPkt
<1> HIDE DEF d
<1>4. QED
  BY <1>2, <1>3

LEMMA FrameRises ==
  ASSUME NEW m \in Nat \ {0}, NEW n \in Nat \ {0}, m <= n
  PROVE  FrameOfPkt(m) <= FrameOfPkt(n)
<1> DEFINE a == (m - 1) \div Columns
           b == (n - 1) \div Columns
           x == (m - 1) % Columns
           y == (n - 1) % Columns
<1>0. Columns \in Nat \ {0}
  BY NodeAssumption
<1>1. m - 1 = Columns * a + x /\ a \in Int /\ x \in 0 .. Columns - 1
  BY <1>0, DivMod
<1>2. n - 1 = Columns * b + y /\ b \in Int /\ y \in 0 .. Columns - 1
  BY <1>0, DivMod
<1>3. FrameOfPkt(m) = a + 1 /\ FrameOfPkt(n) = b + 1
  BY DEF FrameOfPkt
<1> HIDE DEF a, b, x, y
<1>4. CASE a <= b
  BY <1>1, <1>2, <1>3, <1>4
<1>5. CASE a >= b + 1
  <2>1. Columns * a >= Columns * (b + 1)
    BY <1>0, <1>1, <1>2, <1>5
  <2>2. Columns * (b + 1) = Columns * b + Columns
    BY <1>0, <1>2
  <2>3. QED
    BY <1>0, <1>1, <1>2, <2>1, <2>2
<1>6. QED
  BY <1>1, <1>2, <1>4, <1>5

\* The points of a packet, as the decoder adds them.
LEMMA PointsShape ==
  ASSUME NEW dense \in BOOLEAN, NEW n \in Nat
  PROVE  /\ PointsOf(dense, n) \in Seq(NodePoint)
         /\ \A k \in DOMAIN PointsOf(dense, n) : PointsOf(dense, n)[k].pkt = n
         /\ \A j, k \in DOMAIN PointsOf(dense, n) :
              j < k => PointsOf(dense, n)[j].chan < PointsOf(dense, n)[k].chan
         /\ ~dense => /\ Len(PointsOf(dense, n)) = Channels
                      /\ \A k \in 1 .. Channels : PointsOf(dense, n)[k].chan = k
<1> DEFINE points == PacketPoints(n)
           S == {c \in DOMAIN points : ~points[c].nan}
<1>0. Channels \in Nat
  BY NodeAssumption
<1>1. \A c \in 1 .. Channels : points[c].pkt = n /\ points[c].chan = c /\ points[c] \in NodePoint
  BY <1>0 DEF PacketPoints, NodePoint
<1>2. points = [c \in 1 .. Channels |-> points[c]]
  BY DEF PacketPoints
<1> HIDE DEF points
<1>3. points \in Seq(NodePoint) /\ Len(points) = Channels /\ DOMAIN points = 1 .. Channels
  <2> HIDE DEF NodePoint
  <2>1. points \in [1 .. Channels -> NodePoint]
    BY <1>1, <1>2
  <2>2. QED
    BY <1>0, <2>1
<1>4. PointsOf(dense, n) = IF dense THEN Picked(points, S) ELSE points
  BY DEF PointsOf, points
<1>5. CASE ~dense
  BY <1>1, <1>3, <1>4, <1>5
<1>6. CASE dense
  <2>1. S \in SUBSET DOMAIN points
    OBVIOUS
  <2> HIDE DEF S
  <2> DEFINE p == Picked(points, S)
  <2>2. p \in Seq(NodePoint)
    BY <1>3, <2>1, PickedItems
  <2>3. PICK f \in [DOMAIN p -> S] : /\ \A k \in DOMAIN p : p[k] = points[f[k]]
                                     /\ \A j, k \in DOMAIN p : j < k => f[j] < f[k]
    <3>1. \E f \in [DOMAIN p -> S] : /\ \A k \in DOMAIN p : p[k] = points[f[k]]
                                     /\ \A j, k \in DOMAIN p : j < k => f[j] < f[k]
      BY <1>3, <2>1, PickedItems
    <3>2. QED
      BY <3>1
  <2> HIDE DEF p
  <2>4. ASSUME NEW k \in DOMAIN p PROVE p[k].pkt = n /\ p[k].chan = f[k] /\ f[k] \in 1 .. Channels
    <3>1. f[k] \in 1 .. Channels
      BY <1>3, <2>1, <2>3
    <3>2. p[k] = points[f[k]]
      BY <2>3
    <3>3. QED
      BY <1>1, <3>1, <3>2
  <2>5. QED
    BY <1>4, <1>6, <2>2, <2>3, <2>4 DEF p
<1>7. QED
  BY <1>5, <1>6

\* What was decoded of a frame comes from handled packets of that frame.
LEMMA DecodedPoint ==
  ASSUME NEW dense \in BOOLEAN, NEW ps \in Seq(PacketMsg), NEW f, NEW x \in Decoded(dense, ps, f)
  PROVE  x \in NodePoint /\ \E k \in Of(ps, f) : x.pkt = ps[k].pkt /\ FrameOfPkt(x.pkt) = f
<1>1. PICK k \in Of(ps, f) : x \in ToSet(PointsOf(dense, ps[k].pkt))
  BY DEF Decoded
<1>2. k \in DOMAIN ps /\ FrameOfPkt(ps[k].pkt) = f
  BY <1>1 DEF Of
<1>3. ps[k] \in PacketMsg
  BY <1>2
<1>4. ps[k].pkt \in Nat
  BY <1>3 DEF PacketMsg
<1> DEFINE pts == PointsOf(dense, ps[k].pkt)
<1>5. pts \in Seq(NodePoint) /\ \A i \in DOMAIN pts : pts[i].pkt = ps[k].pkt
  BY <1>4, PointsShape
<1>6. PICK i \in DOMAIN pts : x = pts[i]
  BY <1>1 DEF ToSet
<1> HIDE DEF pts
<1>7. x \in NodePoint /\ x.pkt = ps[k].pkt
  BY <1>5, <1>6
<1>8. QED
  BY <1>1, <1>2, <1>7

LEMMA OfMore ==
  ASSUME NEW ps \in Seq(PacketMsg), NEW m \in PacketMsg, NEW f
  PROVE  Of(Append(ps, m), f) = IF FrameOfPkt(m.pkt) = f THEN Of(ps, f) \cup {Len(ps) + 1} ELSE Of(ps, f)
<1> DEFINE new == Append(ps, m)
<1>1. DOMAIN new = DOMAIN ps \cup {Len(ps) + 1} /\ Len(ps) + 1 \notin DOMAIN ps
  BY DEF PacketMsg
<1>2. new[Len(ps) + 1] = m /\ \A k \in DOMAIN ps : new[k] = ps[k]
  OBVIOUS
<1> HIDE DEF new
<1>3. QED
  BY <1>1, <1>2 DEF Of, new

\* One more packet adds its points to its own frame only.
LEMMA DecodedMore ==
  ASSUME NEW dense \in BOOLEAN, NEW ps \in Seq(PacketMsg), NEW m \in PacketMsg, NEW f
  PROVE  Decoded(dense, Append(ps, m), f)
           = Decoded(dense, ps, f) \cup (IF FrameOfPkt(m.pkt) = f THEN ToSet(PointsOf(dense, m.pkt)) ELSE {})
<1> DEFINE new == Append(ps, m)
           P(x, k) == x \in ToSet(PointsOf(dense, k))
<1>1. new[Len(ps) + 1] = m /\ \A k \in DOMAIN ps : new[k] = ps[k]
  OBVIOUS
<1>2. Of(new, f) = IF FrameOfPkt(m.pkt) = f THEN Of(ps, f) \cup {Len(ps) + 1} ELSE Of(ps, f)
  BY OfMore
<1>3. Of(ps, f) \subseteq DOMAIN ps
  BY DEF Of
<1> HIDE DEF new
<1>4. \A x : x \in Decoded(dense, new, f) <=> \E k \in Of(new, f) : P(x, new[k].pkt)
  BY DEF Decoded
<1>5. \A x : x \in Decoded(dense, ps, f) <=> \E k \in Of(ps, f) : P(x, ps[k].pkt)
  BY DEF Decoded
<1> HIDE DEF P
<1>6. \A x : (\E k \in Of(new, f) : P(x, new[k].pkt))
             <=> (\E k \in Of(ps, f) : P(x, ps[k].pkt)) \/ (FrameOfPkt(m.pkt) = f /\ P(x, m.pkt))
  <2>1. \A k \in Of(ps, f) : new[k].pkt = ps[k].pkt
    BY <1>1, <1>3
  <2>2. new[Len(ps) + 1].pkt = m.pkt
    BY <1>1
  <2>3. CASE FrameOfPkt(m.pkt) = f
    BY <1>2, <2>1, <2>2, <2>3
  <2>4. CASE FrameOfPkt(m.pkt) # f
    BY <1>2, <2>1, <2>4
  <2>5. QED
    BY <2>3, <2>4
<1>7. \A x : P(x, m.pkt) <=> x \in ToSet(PointsOf(dense, m.pkt))
  BY DEF P
<1>8. QED
  BY <1>4, <1>5, <1>6, <1>7 DEF new

\* A packet of another frame leaves a frame as it was gathered.
LEMMA GatheredKept ==
  ASSUME NEW dense \in BOOLEAN, NEW ps \in Seq(PacketMsg), NEW m \in PacketMsg, NEW points, NEW f,
         Gathered(dense, ps, points, f), FrameOfPkt(m.pkt) # f
  PROVE  Gathered(dense, Append(ps, m), points, f)
<1> DEFINE more == IF FrameOfPkt(m.pkt) = f THEN ToSet(PointsOf(dense, m.pkt)) ELSE {}
<1>1. Decoded(dense, Append(ps, m), f) = Decoded(dense, ps, f) \cup more
  BY DecodedMore
<1>2. more = {}
  OBVIOUS
<1> HIDE DEF more
<1>3. Decoded(dense, Append(ps, m), f) = Decoded(dense, ps, f)
  BY <1>1, <1>2
<1>4. QED
  BY <1>3 DEF Gathered

\* A packet of the frame adds its points at the end (DecoderMech::internDecodeMsopPkt).
LEMMA GatheredMore ==
  ASSUME NEW dense \in BOOLEAN, NEW ps \in Seq(PacketMsg), NEW m \in PacketMsg,
         NEW points \in Seq(NodePoint), NEW f,
         Gathered(dense, ps, points, f), FrameOfPkt(m.pkt) = f,
         \A i \in DOMAIN ps : ps[i].pkt < m.pkt
  PROVE  Gathered(dense, Append(ps, m), points \o PointsOf(dense, m.pkt), f)
<1> DEFINE more == PointsOf(dense, m.pkt)
           out == points \o more
<1>0. m.pkt \in Nat
  BY DEF PacketMsg
<1>1. /\ more \in Seq(NodePoint) /\ \A k \in DOMAIN more : more[k].pkt = m.pkt
      /\ \A j, k \in DOMAIN more : j < k => more[j].chan < more[k].chan
      /\ ~dense => Len(more) = Channels /\ \A k \in 1 .. Channels : more[k].chan = k
  BY <1>0, PointsShape
<1>2. Decoded(dense, Append(ps, m), f) = Decoded(dense, ps, f) \cup ToSet(more)
  BY DecodedMore
<1> HIDE DEF more
<1>3. /\ out \in Seq(NodePoint) /\ Len(out) = Len(points) + Len(more)
      /\ \A i \in 1 .. Len(points) : out[i] = points[i]
      /\ \A i \in 1 .. Len(more) : out[Len(points) + i] = more[i]
      /\ Len(points) \in Nat /\ Len(more) \in Nat
  <2> HIDE DEF NodePoint
  <2>1. QED
    BY <1>1
<1>4. \A i \in DOMAIN out : \/ i \in 1 .. Len(points) /\ out[i] = points[i]
                            \/ i - Len(points) \in 1 .. Len(more) /\ out[i] = more[i - Len(points)]
  <2> HIDE DEF NodePoint, out
  <2> TAKE i \in DOMAIN out
  <2>0. i \in 1 .. Len(points) + Len(more)
    BY <1>3
  <2>1. CASE i <= Len(points)
    BY <1>3, <2>0, <2>1
  <2>2. CASE i > Len(points)
    <3>1. i - Len(points) \in 1 .. Len(more) /\ i = Len(points) + (i - Len(points))
      BY <1>3, <2>0, <2>2
    <3>2. QED
      BY <1>3, <3>1
  <2>3. QED
    BY <1>3, <2>0, <2>1, <2>2
<1> HIDE DEF out
<1>5. ToSet(out) = Decoded(dense, Append(ps, m), f)
  <2>1. ToSet(out) = ToSet(points) \cup ToSet(more)
    <3>1. ASSUME NEW x \in ToSet(out) PROVE x \in ToSet(points) \cup ToSet(more)
      <4>1. PICK i \in DOMAIN out : x = out[i]
        BY <3>1 DEF ToSet
      <4>2. QED
        BY <1>1, <1>4, <4>1 DEF ToSet
    <3>2. ASSUME NEW x \in ToSet(points) PROVE x \in ToSet(out)
      <4>1. PICK i \in 1 .. Len(points) : x = points[i]
        BY <3>2 DEF ToSet
      <4>2. i \in DOMAIN out /\ out[i] = x
        BY <1>3, <4>1
      <4>3. QED
        BY <4>2 DEF ToSet
    <3>3. ASSUME NEW x \in ToSet(more) PROVE x \in ToSet(out)
      <4>1. PICK i \in 1 .. Len(more) : x = more[i]
        BY <1>1, <3>3 DEF ToSet
      <4>2. Len(points) + i \in DOMAIN out /\ out[Len(points) + i] = x
        BY <1>3, <4>1
      <4>3. QED
        BY <4>2 DEF ToSet
    <3>4. QED
      BY <3>1, <3>2, <3>3
  <2>2. QED
    BY <1>2, <2>1 DEF Gathered
<1>6. \A i \in DOMAIN points : points[i].pkt < m.pkt
  <2> TAKE i \in DOMAIN points
  <2>1. points[i] \in Decoded(dense, ps, f)
    BY DEF Gathered, ToSet
  <2>2. \E k \in Of(ps, f) : points[i].pkt = ps[k].pkt
    BY <2>1, DecodedPoint
  <2>3. QED
    BY <2>2 DEF Of
<1>7. ASSUME NEW i \in DOMAIN out, NEW j \in DOMAIN out, i < j
      PROVE  Precedes(out[i], out[j])
  <2>0. i \in Int /\ j \in Int
    BY <1>3
  <2>1. CASE i \in 1 .. Len(points) /\ out[i] = points[i] /\ j \in 1 .. Len(points) /\ out[j] = points[j]
    BY <1>7, <2>1 DEF Gathered
  <2>2. CASE i \in 1 .. Len(points) /\ out[i] = points[i] /\ j - Len(points) \in 1 .. Len(more) /\ out[j] = more[j - Len(points)]
    <3>1. out[i].pkt < m.pkt /\ out[j].pkt = m.pkt
      BY <1>1, <1>6, <2>2
    <3>2. QED
      BY <3>1 DEF Precedes
  <2>3. CASE i - Len(points) \in 1 .. Len(more) /\ out[i] = more[i - Len(points)] /\ j - Len(points) \in 1 .. Len(more) /\ out[j] = more[j - Len(points)]
    <3>1. i - Len(points) < j - Len(points)
      BY <1>3, <1>7, <2>0
    <3>2. out[i].chan < out[j].chan /\ out[i].pkt = m.pkt /\ out[j].pkt = m.pkt
      BY <1>1, <2>3, <3>1
    <3>3. QED
      BY <3>2 DEF Precedes
  <2>4. CASE i - Len(points) \in 1 .. Len(more) /\ j \in 1 .. Len(points)
    BY <1>3, <1>7, <2>0, <2>4
  <2>5. QED
    BY <1>4, <2>1, <2>2, <2>3, <2>4
<1>8. ASSUME ~dense
      PROVE  Len(out) % Channels = 0 /\ \A k \in DOMAIN out : out[k].chan = ((k - 1) % Channels) + 1
  <2>0. Channels \in Nat \ {0}
    BY NodeAssumption
  <2>1. Len(points) % Channels = 0 /\ \A k \in DOMAIN points : points[k].chan = ((k - 1) % Channels) + 1
    BY <1>8 DEF Gathered
  <2>2. Len(more) = Channels /\ \A k \in 1 .. Channels : more[k].chan = k
    BY <1>1, <1>8
  <2> DEFINE a == Len(points) \div Channels
  <2>3. Len(points) = Channels * a /\ a \in Int
    BY <1>3, <2>0, <2>1, DivMod
  <2> HIDE DEF a
  <2>4. Len(out) % Channels = 0
    BY <1>3, <2>0, <2>1, <2>2, RoundOn
  <2>5. ASSUME NEW k \in DOMAIN out PROVE out[k].chan = ((k - 1) % Channels) + 1
    <3>0. k \in Int
      BY <1>3
    <3>1. CASE k \in 1 .. Len(points) /\ out[k] = points[k]
      BY <2>1, <3>1
    <3>2. CASE k - Len(points) \in 1 .. Len(more) /\ out[k] = more[k - Len(points)]
      <4> DEFINE r == k - Len(points) - 1
      <4>1. out[k].chan = r + 1 /\ r \in 0 .. Channels - 1
        BY <1>3, <2>0, <2>2, <3>0, <3>2
      <4>2. k - 1 = Channels * a + r
        BY <1>3, <2>3, <3>0
      <4> HIDE DEF r
      <4>3. (Channels * a + r) % Channels = r
        BY <2>0, <2>3, <4>1, ModUnique
      <4>4. QED
        BY <4>1, <4>2, <4>3
    <3>3. QED
      BY <1>4, <3>1, <3>2
  <2>6. QED
    BY <2>4, <2>5
<1>9. QED
  BY <1>5, <1>7, <1>8 DEF Gathered, out, more

\* The points of a frame that was gathered tell its number.
LEMMA GatheredFrame ==
  ASSUME NEW dense \in BOOLEAN, NEW ps \in Seq(PacketMsg), NEW points \in Seq(NodePoint), NEW f,
         Gathered(dense, ps, points, f), points # <<>>
  PROVE  FrameOf(points) = f
<1>1. 1 \in DOMAIN points
  OBVIOUS
<1>2. points[1] \in Decoded(dense, ps, f)
  BY <1>1 DEF Gathered, ToSet
<1>3. QED
  BY <1>2, DecodedPoint DEF FrameOf

-----------------------------------------------------------------------------
(* RsNode: the message made of a cloud *)

\* The row of the k-th point by rows, of w points each, and where it was by columns.
RowOf(w, k) == (k - 1) \div w
PlaceOf(w, h, k) == (k - 1) \div w + (((k - 1) % w) * h) + 1

\* Where the k-th point by rows was in a cloud of h rows and w columns.
LEMMA RowPlace ==
  ASSUME NEW w \in Nat, NEW h \in Nat \ {0}, NEW k \in 1 .. w * h
  PROVE  /\ w \in Nat \ {0}
         /\ (k - 1) \div w \in 0 .. h - 1 /\ (k - 1) % w \in 0 .. w - 1
         /\ k - 1 = w * ((k - 1) \div w) + ((k - 1) % w)
         /\ (k - 1) \div w + (((k - 1) % w) * h) + 1 \in 1 .. w * h
         /\ (((k - 1) \div w + (((k - 1) % w) * h) + 1) - 1) % h = (k - 1) \div w
<1>1. w \in Nat \ {0}
  <2>1. CASE w = 0
    <3>1. w * h = 0
      BY <2>1
    <3>2. QED
      BY <3>1
  <2>2. QED
    BY <2>1
<1>2. w * h \in Nat /\ k \in Nat
  BY <1>1
<1> DEFINE a == (k - 1) \div w
           b == (k - 1) % w
<1>3. k - 1 = w * a + b /\ a \in Int /\ b \in 0 .. w - 1
  <2>1. k - 1 \in Int
    BY <1>2
  <2>2. QED
    BY <1>1, <2>1, DivMod
<1> HIDE DEF a, b
<1>4. a >= 0
  <2>1. CASE a <= -1
    <3>1. w * a <= w * (-1)
      BY <1>1, <1>3, <2>1
    <3>2. w * (-1) = -w
      BY <1>1
    <3>3. QED
      BY <1>1, <1>2, <1>3, <3>1, <3>2
  <2>2. QED
    BY <1>3, <2>1
<1>5. a <= h - 1
  <2>1. CASE a >= h
    <3>1. w * a >= w * h
      BY <1>1, <1>3, <2>1
    <3>2. w * a \in Int /\ k - 1 < w * h /\ b >= 0
      BY <1>1, <1>2, <1>3
    <3>3. QED
      BY <1>2, <1>3, <3>1, <3>2
  <2>2. QED
    BY <1>3, <2>1
<1>6. a + b * h + 1 \in 1 .. w * h
  <2>1. b * h \in Nat /\ a \in Nat
    BY <1>3, <1>4
  <2>2. (b + 1) * h <= w * h
    BY <1>1, <1>3
  <2>3. (b + 1) * h = b * h + h
    BY <1>3
  <2>4. QED
    BY <1>2, <1>5, <2>1, <2>2, <2>3
<1>7. ((a + b * h + 1) - 1) % h = a
  <2>1. (a + b * h + 1) - 1 = h * b + a /\ b \in Int /\ a \in 0 .. h - 1
    BY <1>3, <1>4, <1>5
  <2>2. (h * b + a) % h = a
    BY <2>1, ModUnique
  <2>3. QED
    BY <2>1, <2>2
<1>8. QED
  BY <1>1, <1>3, <1>4, <1>5, <1>6, <1>7 DEF a, b

\* Every point of the cloud has a place by rows.
LEMMA RowOfPoint ==
  ASSUME NEW w \in Nat, NEW h \in Nat \ {0}, NEW i \in 1 .. w * h
  PROVE  \E k \in 1 .. w * h : (k - 1) \div w + (((k - 1) % w) * h) + 1 = i
<1> DEFINE a == (i - 1) % h
           b == (i - 1) \div h
           k == w * a + b + 1
<1>0. w * h \in Nat /\ h * w = w * h /\ i \in 1 .. h * w
  <2>1. w * h = h * w /\ w * h \in Nat
    OBVIOUS
  <2>2. QED
    BY <2>1
<1>1. /\ b \in 0 .. w - 1 /\ a \in 0 .. h - 1
      /\ i - 1 = h * b + a
  <2>0. h \in Nat /\ w \in Nat \ {0}
    BY RowPlace
  <2>1. QED
    BY <1>0, <2>0, RowPlace
<1> HIDE DEF a, b
<1>2. w \in Nat \ {0}
  BY <1>1
<1>3. k - 1 = w * a + b
  BY <1>1, <1>2
<1>4. (w * a + b) % w = b
  BY <1>1, <1>2, ModUnique
<1>5. (k - 1) % w = b
  BY <1>3, <1>4
<1>6. (k - 1) \div w = a
  <2>1. k - 1 \in Int
    BY <1>1, <1>2
  <2>2. k - 1 = w * ((k - 1) \div w) + b /\ (k - 1) \div w \in Int
    BY <1>2, <1>5, <2>1, DivMod
  <2> DEFINE d == (k - 1) \div w
  <2>3. d \in Int /\ w * d + b = w * a + b
    BY <1>3, <2>2
  <2> HIDE DEF d
  <2>4. w * d = w * a
    BY <1>1, <1>2, <2>3
  <2>5. d = a
    BY <1>1, <1>2, <2>3, <2>4
  <2>6. QED
    BY <2>5 DEF d
<1>7. k \in 1 .. w * h
  <2>1. w * a \in Nat
    BY <1>1, <1>2
  <2>2. w * (a + 1) <= w * h
    BY <1>1, <1>2
  <2>3. w * (a + 1) = w * a + w
    BY <1>1, <1>2
  <2>4. QED
    BY <1>0, <1>1, <2>1, <2>2, <2>3
<1>8. a + (b * h) + 1 = i
  BY <1>1
<1>9. QED
  BY <1>5, <1>6, <1>7, <1>8

\* By rows, the points of a row come in their order, row after row.
LEMMA RowOrder ==
  ASSUME NEW w \in Nat, NEW h \in Nat \ {0}, NEW i \in 1 .. w * h, NEW j \in 1 .. w * h, i < j
  PROVE  \/ (i - 1) \div w < (j - 1) \div w
         \/ /\ (i - 1) \div w = (j - 1) \div w
            /\ (i - 1) \div w + (((i - 1) % w) * h) + 1 < (j - 1) \div w + (((j - 1) % w) * h) + 1
<1> DEFINE a == (i - 1) \div w
           b == (i - 1) % w
           c == (j - 1) \div w
           d == (j - 1) % w
<1>1. /\ w \in Nat \ {0} /\ i - 1 = w * a + b /\ a \in 0 .. h - 1 /\ b \in 0 .. w - 1
  BY RowPlace
<1>2. /\ j - 1 = w * c + d /\ c \in 0 .. h - 1 /\ d \in 0 .. w - 1
  BY RowPlace
<1>3. w * h \in Nat
  OBVIOUS
<1> HIDE DEF a, b, c, d
<1>4. w * a + b < w * c + d
  BY <1>1, <1>2, <1>3
<1>5. a <= c
  <2>1. CASE a >= c + 1
    <3>1. w * a >= w * (c + 1)
      BY <1>1, <1>2, <2>1
    <3>2. w * (c + 1) = w * c + w
      BY <1>1, <1>2
    <3>3. w * a \in Int /\ w * c \in Int
      BY <1>1, <1>2
    <3>4. QED
      BY <1>1, <1>2, <1>4, <3>1, <3>2, <3>3
  <2>2. QED
    BY <1>1, <1>2, <2>1
<1>6. CASE a < c
  BY <1>6 DEF a, c
<1>7. CASE a = c
  <2>1. b < d
    BY <1>1, <1>2, <1>4, <1>7
  <2>2. (b + 1) * h <= d * h
    BY <1>1, <1>2, <2>1
  <2>3. (b + 1) * h = b * h + h /\ b * h \in Int /\ d * h \in Int
    BY <1>1, <1>2
  <2>4. a + b * h + 1 < c + d * h + 1
    BY <1>1, <1>2, <1>7, <2>2, <2>3
  <2>5. QED
    BY <1>7, <2>4 DEF a, b, c, d
<1>8. QED
  BY <1>1, <1>2, <1>5, <1>6, <1>7

LEMMA Places ==
  ASSUME NEW w \in Nat, NEW h \in Nat \ {0}
  PROVE  /\ \A k \in 1 .. w * h : /\ RowOf(w, k) \in 0 .. h - 1
                                   /\ PlaceOf(w, h, k) \in 1 .. w * h
                                   /\ (PlaceOf(w, h, k) - 1) % h = RowOf(w, k)
         /\ \A i \in 1 .. w * h : \E k \in 1 .. w * h : PlaceOf(w, h, k) = i
         /\ \A i, j \in 1 .. w * h :
              i < j => \/ RowOf(w, i) < RowOf(w, j)
                       \/ RowOf(w, i) = RowOf(w, j) /\ PlaceOf(w, h, i) < PlaceOf(w, h, j)
<1>1. ASSUME NEW k \in 1 .. w * h
      PROVE  /\ RowOf(w, k) \in 0 .. h - 1 /\ PlaceOf(w, h, k) \in 1 .. w * h
             /\ (PlaceOf(w, h, k) - 1) % h = RowOf(w, k)
  <2> DEFINE a == (k - 1) \div w
             p == (k - 1) \div w + (((k - 1) % w) * h) + 1
  <2>1. a \in 0 .. h - 1 /\ p \in 1 .. w * h /\ (p - 1) % h = a
    BY RowPlace
  <2>2. RowOf(w, k) = a /\ PlaceOf(w, h, k) = p
    BY DEF RowOf, PlaceOf
  <2> HIDE DEF a, p
  <2>3. QED
    BY <2>1, <2>2
<1>2. ASSUME NEW i \in 1 .. w * h PROVE \E k \in 1 .. w * h : PlaceOf(w, h, k) = i
  BY RowOfPoint DEF PlaceOf
<1>3. ASSUME NEW i \in 1 .. w * h, NEW j \in 1 .. w * h, i < j
      PROVE  \/ RowOf(w, i) < RowOf(w, j)
             \/ RowOf(w, i) = RowOf(w, j) /\ PlaceOf(w, h, i) < PlaceOf(w, h, j)
  BY <1>3, RowOrder DEF RowOf, PlaceOf
<1>4. QED
  BY <1>1, <1>2, <1>3

\* toRosMsg turns a whole cloud into the message it must be.
LEMMA MessageOf ==
  ASSUME NEW dense \in BOOLEAN, NEW rows \in BOOLEAN, rows => ~dense,
         NEW ps \in Seq(PacketMsg), NEW q, NEW n, NEW m \in CloudObj,
         WholeCloud(dense, ps, q, n, m)
  PROVE  LET out == IF rows THEN [width |-> m.width, height |-> m.height, data |-> ByRows(m)]
                    ELSE [width |-> m.height, height |-> m.width, data |-> m.points]
         IN  /\ out \in CloudOut /\ out.data # <<>> /\ FrameOf(out.data) = FrameOf(m.points)
             /\ FrameMsg(dense, rows, ps, out, FrameOf(m.points))
<1> DEFINE f == FrameOf(m.points)
           w == m.width
           h == m.height
           pts == m.points
<1>1. w \in Nat /\ h \in Nat /\ pts \in Seq(NodePoint) /\ pts # <<>> /\ w * h = Len(pts)
  BY DEF CloudObj, WholeCloud
<1>2. Gathered(dense, ps, pts, f)
  BY DEF WholeCloud
<1> HIDE DEF f
<1>3. CASE ~rows
  <2> DEFINE out == [width |-> h, height |-> w, data |-> pts]
  <2>1. out \in CloudOut /\ out.data = pts /\ out.width * out.height = Len(pts)
    <3>1. h * w = Len(pts)
      BY <1>1
    <3>2. QED
      BY <1>1, <3>1 DEF CloudOut
  <2>2. FrameMsg(dense, rows, ps, out, f)
    BY <1>2, <1>3, <2>1 DEF FrameMsg, Gathered
  <2>3. QED
    BY <1>1, <1>3, <2>1, <2>2 DEF f
<1>4. CASE rows
  <2>0. ~dense /\ h = Channels /\ h \in Nat \ {0}
    BY <1>4, NodeAssumption DEF WholeCloud
  <2> DEFINE data == ByRows(m)
             out == [width |-> w, height |-> h, data |-> data]
             pos(k) == PlaceOf(w, h, k)
  <2>1. data = [k \in 1 .. w * h |-> pts[pos(k)]]
    BY DEF ByRows, PlaceOf
  <2> HIDE DEF data, w, h, pts
  <2>2. \A k \in 1 .. w * h : /\ RowOf(w, k) \in 0 .. h - 1 /\ pos(k) \in 1 .. w * h
                              /\ (pos(k) - 1) % h = RowOf(w, k)
    BY <1>1, <2>0, Places
  <2>3. \A i \in 1 .. w * h : \E k \in 1 .. w * h : pos(k) = i
    BY ZenonT(30), <1>1, <2>0, Places
  <2> HIDE DEF pos
  <2>4. DOMAIN pts = 1 .. w * h /\ w * h \in Nat /\ w * h > 0
    BY <1>1
  <2>5. data \in Seq(NodePoint) /\ Len(data) = w * h /\ DOMAIN data = 1 .. w * h
    <3> HIDE DEF NodePoint
    <3>1. data \in [1 .. w * h -> NodePoint]
      BY <1>1, <2>1, <2>2, <2>4
    <3>2. QED
      BY <2>4, <3>1
  <2>6. out \in CloudOut /\ out.data = data /\ out.width = w /\ out.height = h
    BY <1>1, <2>5 DEF CloudOut
  <2>7. ToSet(data) = ToSet(pts)
    <3>1. ASSUME NEW x \in ToSet(data) PROVE x \in ToSet(pts)
      <4>1. PICK k \in 1 .. w * h : x = data[k]
        BY <2>5, <3>1 DEF ToSet
      <4>2. x = pts[pos(k)] /\ pos(k) \in DOMAIN pts
        BY <2>1, <2>2, <2>4, <4>1
      <4>3. QED
        BY <4>2 DEF ToSet
    <3>2. ASSUME NEW x \in ToSet(pts) PROVE x \in ToSet(data)
      <4>1. PICK i \in 1 .. w * h : x = pts[i]
        BY <2>4, <3>2 DEF ToSet
      <4>2. PICK k \in 1 .. w * h : pos(k) = i
        BY <2>3
      <4>3. data[k] = x /\ k \in DOMAIN data
        BY <2>1, <2>5, <4>1, <4>2
      <4>4. QED
        BY <4>3 DEF ToSet
    <3>3. QED
      BY <3>1, <3>2
  <2>8. \A k \in 1 .. w * h : data[k] = pts[pos(k)] /\ data[k].chan = RowOf(w, k) + 1 /\ data[k] \in NodePoint
    <3> TAKE k \in 1 .. w * h
    <3>1. data[k] = pts[pos(k)] /\ pos(k) \in DOMAIN pts
      BY <2>1, <2>2, <2>4
    <3>2. pts[pos(k)].chan = ((pos(k) - 1) % h) + 1
      BY <1>2, <2>0, <3>1 DEF Gathered
    <3>3. QED
      BY <1>1, <2>2, <3>1, <3>2
  <2>9. ASSUME NEW i \in 1 .. w * h, NEW j \in 1 .. w * h, i < j
        PROVE  RowPrecedes(data[i], data[j])
    <3> DEFINE a == RowOf(w, i)
               c == RowOf(w, j)
    <3>1. a < c \/ (a = c /\ pos(i) < pos(j))
      <4>1. \A x, y \in 1 .. w * h :
              x < y => \/ RowOf(w, x) < RowOf(w, y)
                       \/ RowOf(w, x) = RowOf(w, y) /\ PlaceOf(w, h, x) < PlaceOf(w, h, y)
        BY ZenonT(30), <1>1, <2>0, Places
      <4>2. QED
        BY <2>9, <4>1 DEF pos
    <3>2. data[i].chan = a + 1 /\ data[j].chan = c + 1 /\ a \in Int /\ c \in Int
      <4>1. data[i].chan = a + 1 /\ data[j].chan = c + 1
        BY <2>8
      <4>2. a \in 0 .. h - 1 /\ c \in 0 .. h - 1
        BY <2>2
      <4> HIDE DEF a, c
      <4>3. QED
        BY <4>1, <4>2
    <3> HIDE DEF a, c
    <3>3. CASE a < c
      BY <3>2, <3>3 DEF RowPrecedes
    <3>4. CASE a = c /\ pos(i) < pos(j)
      <4>1. Precedes(pts[pos(i)], pts[pos(j)])
        BY <1>2, <2>2, <2>4, <3>4 DEF Gathered
      <4>2. Precedes(data[i], data[j])
        BY <2>8, <4>1
      <4>3. data[i].chan = data[j].chan /\ data[i].chan \in Int
        BY <3>2, <3>4
      <4>4. QED
        BY <4>2, <4>3 DEF Precedes, RowPrecedes
    <3>5. QED
      BY <3>1, <3>3, <3>4
  <2>10. FrameMsg(dense, rows, ps, out, f)
    <3>1. ToSet(out.data) = Decoded(dense, ps, f)
      BY <1>2, <2>6, <2>7 DEF Gathered
    <3>2. Len(out.data) = out.width * out.height
      BY <2>5, <2>6
    <3> HIDE DEF out
    <3>3. QED
      BY <1>4, <2>5, <2>6, <2>8, <2>9, <3>1, <3>2 DEF FrameMsg, RowOf
  <2>11. data # <<>> /\ FrameOf(data) = f
    <3>1. 1 \in 1 .. w * h
      BY <2>4
    <3>2. data[1] \in ToSet(pts)
      BY <2>5, <2>7, <3>1 DEF ToSet
    <3>3. data[1] \in Decoded(dense, ps, f)
      BY <1>2, <3>2 DEF Gathered
    <3>4. FrameOfPkt(data[1].pkt) = f
      BY <3>3, DecodedPoint
    <3>5. QED
      BY <2>4, <2>5, <3>4 DEF FrameOf
  <2>12. QED
    BY <1>4, <2>6, <2>10, <2>11 DEF f, data, out, w, h
<1>5. QED
  BY <1>3, <1>4

-----------------------------------------------------------------------------
(* RsNode: packets *)

LEMMA FrameInt ==
  ASSUME NEW n \in Int
  PROVE  FrameOfPkt(n) \in Int
<1> DEFINE d == (n - 1) \div Columns
<1>1. n - 1 \in Int /\ Columns \in Nat \ {0}
  BY NodeAssumption
<1>2. d \in Int
  BY <1>1
<1>3. FrameOfPkt(n) = d + 1
  BY DEF FrameOfPkt
<1> HIDE DEF d
<1>4. QED
  BY <1>2, <1>3

\* Once the packets of a frame have passed, they have passed for good.
LEMMA PassedReceive ==
  ASSUME NEW f \in Int, NEW q \in Seq(Nat \ {0}), NEW n \in Nat, NothingMore(f, q, n)
  PROVE  NothingMore(f, q, n + 1) /\ NothingMore(f, <<>>, n + 1) /\ NothingMore(f, Append(q, n + 1), n + 1)
<1>1. FrameOfPkt(n + 1) <= FrameOfPkt(n + 2) /\ n + 2 = (n + 1) + 1
  BY FrameRises
<1>2. FrameOfPkt(n + 1) \in Int /\ FrameOfPkt(n + 2) \in Int
  BY FrameInt
<1>3. f < FrameOfPkt((n + 1) + 1)
  BY <1>1, <1>2 DEF NothingMore
<1>4. \A j \in DOMAIN Append(q, n + 1) : f < FrameOfPkt(Append(q, n + 1)[j])
  BY DEF NothingMore
<1>5. QED
  BY <1>3, <1>4 DEF NothingMore

LEMMA PassedHead ==
  ASSUME NEW f, NEW q \in Seq(Nat \ {0}), NEW n \in Nat, NothingMore(f, q, n), q # <<>>
  PROVE  f < FrameOfPkt(Head(q)) /\ NothingMore(f, Tail(q), n)
<1>1. \A j \in DOMAIN Tail(q) : j + 1 \in DOMAIN q /\ Tail(q)[j] = q[j + 1]
  OBVIOUS
<1>2. QED
  BY <1>1 DEF NothingMore

\* A packet comes, with or without the queue being emptied, or is lost.
LEMMA FlowReceive ==
  ASSUME NEW ps \in Seq(PacketMsg), NEW q \in Seq(Nat \ {0}), NEW n \in Nat, NEW p,
         PacketFlow(ps, q, n, p)
  PROVE  /\ PacketFlow(ps, q, n + 1, p)
         /\ PacketFlow(ps, <<>>, n + 1, p)
         /\ PacketFlow(ps, Append(q, n + 1), n + 1, p)
<1>0. \A i \in DOMAIN ps : ps[i].pkt \in Nat /\ ps[i].pkt <= n
  <2> TAKE i \in DOMAIN ps
  <2>1. ps[i] \in PacketMsg
    OBVIOUS
  <2>2. QED
    BY <2>1 DEF PacketMsg, PacketFlow
<1>1. \A j \in DOMAIN q : q[j] \in Nat /\ q[j] <= n
  BY DEF PacketFlow
<1>2. PacketFlow(ps, q, n + 1, p)
  BY <1>0, <1>1 DEF PacketFlow
<1>3. PacketFlow(ps, <<>>, n + 1, p)
  BY <1>0 DEF PacketFlow
<1>4. PacketFlow(ps, Append(q, n + 1), n + 1, p)
  <2> DEFINE new == Append(q, n + 1)
  <2>1. /\ DOMAIN new = 1 .. Len(q) + 1 /\ new[Len(q) + 1] = n + 1 /\ Len(q) \in Nat
        /\ \A j \in 1 .. Len(q) : j \in DOMAIN q /\ new[j] = q[j]
    OBVIOUS
  <2> HIDE DEF new
  <2>2. ASSUME NEW i \in DOMAIN new, NEW j \in DOMAIN new, i < j PROVE new[i] < new[j]
    <3>1. i \in 1 .. Len(q) /\ new[i] = q[i] /\ q[i] \in Nat /\ q[i] <= n
      BY <1>1, <2>1, <2>2
    <3>2. CASE j = Len(q) + 1
      BY <2>1, <3>1, <3>2
    <3>3. CASE j # Len(q) + 1
      <4>1. j \in 1 .. Len(q) /\ new[j] = q[j]
        BY <2>1, <3>3
      <4>2. q[i] < q[j]
        BY <2>1, <2>2, <3>1, <4>1 DEF PacketFlow
      <4>3. QED
        BY <3>1, <4>1, <4>2
    <3>4. QED
      BY <3>2, <3>3
  <2>3. ASSUME NEW i \in DOMAIN ps, NEW j \in DOMAIN new PROVE ps[i].pkt < new[j]
    <3>1. CASE j = Len(q) + 1
      BY <1>0, <2>1, <3>1
    <3>2. CASE j # Len(q) + 1
      <4>1. j \in 1 .. Len(q) /\ new[j] = q[j]
        BY <2>1, <3>2
      <4>2. QED
        BY <2>1, <4>1 DEF PacketFlow
    <3>3. QED
      BY <3>1, <3>2
  <2>4. \A j \in DOMAIN new : new[j] <= n + 1
    BY <1>1, <2>1
  <2>5. QED
    BY <1>2, <2>2, <2>3, <2>4 DEF PacketFlow, new
<1>5. QED
  BY <1>2, <1>3, <1>4

\* The next packet is of the current frame or of a later one, of which nothing was handled.
LEMMA FlowHead ==
  ASSUME NEW ps \in Seq(PacketMsg), NEW q \in Seq(Nat \ {0}), NEW n \in Nat, NEW p,
         PacketFlow(ps, q, n, p), q # <<>>
  PROVE  /\ Head(q) \in Nat \ {0} /\ p \in Nat /\ p <= FrameOfPkt(Head(q))
         /\ \A i \in DOMAIN ps : ps[i].pkt < Head(q) /\ FrameOfPkt(ps[i].pkt) <= p
         /\ FrameOfPkt(Head(q)) # p => NothingMore(p, q, n) /\ Of(ps, FrameOfPkt(Head(q))) = {}
<1>0. 1 \in DOMAIN q /\ Head(q) = q[1] /\ q[1] \in Nat \ {0}
  OBVIOUS
<1>1. \A i \in DOMAIN ps : ps[i].pkt \in Nat \ {0} /\ ps[i].pkt < q[1]
  <2> TAKE i \in DOMAIN ps
  <2>1. ps[i] \in PacketMsg
    OBVIOUS
  <2>2. QED
    BY <1>0, <2>1 DEF PacketMsg, PacketFlow
<1>2. FrameOfPkt(q[1]) \in Nat \ {0}
  BY <1>0, FrameNumber
<1>3. p \in Nat /\ p <= FrameOfPkt(q[1]) /\ \A i \in DOMAIN ps : FrameOfPkt(ps[i].pkt) <= p
  <2>1. CASE ps = <<>>
    BY <1>2, <2>1 DEF PacketFlow
  <2>2. CASE ps # <<>>
    <3> DEFINE l == Len(ps)
    <3>1. l \in DOMAIN ps /\ p = FrameOfPkt(ps[l].pkt) /\ \A i \in DOMAIN ps : i = l \/ i < l
      BY <2>2 DEF PacketFlow
    <3> HIDE DEF l
    <3>2. ps[l].pkt <= q[1]
      BY <1>0, <1>1, <3>1
    <3>3. p <= FrameOfPkt(q[1]) /\ p \in Nat
      BY <1>0, <1>1, <3>1, <3>2, FrameRises, FrameNumber
    <3>4. ASSUME NEW i \in DOMAIN ps PROVE FrameOfPkt(ps[i].pkt) <= p
      <4>1. ps[i].pkt <= ps[l].pkt
        <5>1. ps[i].pkt \in Nat /\ ps[l].pkt \in Nat /\ (i < l => ps[i].pkt < ps[l].pkt)
          BY <1>1, <3>1 DEF PacketFlow
        <5>2. i = l \/ i < l
          BY <3>1
        <5>3. QED
          BY <5>1, <5>2
      <4>2. QED
        BY <1>1, <3>1, <4>1, FrameRises
    <3>5. QED
      BY <3>3, <3>4
  <2>3. QED
    BY <2>1, <2>2
<1>4. ASSUME FrameOfPkt(Head(q)) # p
      PROVE  NothingMore(p, q, n) /\ Of(ps, FrameOfPkt(Head(q))) = {}
  <2>1. p < FrameOfPkt(q[1])
    BY <1>0, <1>2, <1>3, <1>4
  <2>2. ASSUME NEW j \in DOMAIN q PROVE p < FrameOfPkt(q[j])
    <3>1. q[1] <= q[j] /\ q[j] \in Nat \ {0}
      BY <1>0 DEF PacketFlow
    <3>2. FrameOfPkt(q[1]) <= FrameOfPkt(q[j]) /\ FrameOfPkt(q[j]) \in Nat
      BY <1>0, <3>1, FrameRises, FrameNumber
    <3>3. QED
      BY <1>2, <1>3, <2>1, <3>2
  <2>3. p < FrameOfPkt(n + 1)
    <3>1. q[1] <= n + 1
      BY <1>0 DEF PacketFlow
    <3>2. FrameOfPkt(q[1]) <= FrameOfPkt(n + 1) /\ FrameOfPkt(n + 1) \in Nat
      BY SMTT(30), <1>0, <3>1, FrameRises, FrameNumber
    <3>3. QED
      BY <1>2, <1>3, <2>1, <3>2
  <2>4. Of(ps, FrameOfPkt(Head(q))) = {}
    <3>1. \A i \in DOMAIN ps : FrameOfPkt(ps[i].pkt) # FrameOfPkt(q[1])
      <4> TAKE i \in DOMAIN ps
      <4>1. FrameOfPkt(ps[i].pkt) \in Nat
        BY <1>1, FrameNumber
      <4>2. QED
        BY <1>2, <1>3, <2>1, <4>1
    <3>2. QED
      BY <1>0, <3>1 DEF Of
  <2>5. QED
    BY <2>2, <2>3, <2>4 DEF NothingMore
<1>5. QED
  BY <1>0, <1>1, <1>3, <1>4

\* Frame 0 is that of no packet.
LEMMA NoneHandled ==
  ASSUME NEW ps \in Seq(PacketMsg), NEW q, NEW n, NEW p, PacketFlow(ps, q, n, p)
  PROVE  p = 0 <=> ps = <<>>
<1>1. CASE ps = <<>>
  BY <1>1 DEF PacketFlow
<1>2. CASE ps # <<>>
  <2>1. p = FrameOfPkt(ps[Len(ps)].pkt)
    BY <1>2 DEF PacketFlow
  <2>2. ps[Len(ps)] \in PacketMsg
    <3> HIDE DEF PacketMsg
    <3>1. QED
      BY <1>2
  <2>3. ps[Len(ps)].pkt \in Nat \ {0}
    BY <2>2 DEF PacketMsg
  <2>4. QED
    BY <1>2, <2>1, <2>3, FrameNumber
<1>3. QED
  BY <1>1, <1>2

\* Before the first packet is handled the cloud is empty.
LEMMA NothingYet ==
  ASSUME NEW dense, NEW rows, NEW ps \in Seq(PacketMsg), NEW q, NEW n, NEW p, NEW c, NEW objs,
         NEW w, NEW pub, PacketFlow(ps, q, n, p), p = 0, c # NoMsg, objs[c] \in CloudObj,
         CloudsInv(dense, rows, TRUE, ps, q, n, p, c, objs, w, pub)
  PROVE  objs[c].points = <<>>
<1>1. SUFFICES ASSUME objs[c].points # <<>> PROVE FALSE
  OBVIOUS
<1>2. Gathered(dense, ps, objs[c].points, p)
  BY <1>1 DEF CloudsInv, Filling
<1>3. ps = <<>>
  BY NoneHandled
<1>4. Of(ps, p) = {}
  BY <1>3 DEF Of
<1>5. ToSet(objs[c].points) = {}
  BY <1>2, <1>4 DEF Gathered, Decoded
<1>6. objs[c].points \in Seq(NodePoint)
  BY DEF CloudObj
<1>7. QED
  <2> HIDE DEF NodePoint
  <2>1. 1 \in DOMAIN objs[c].points
    BY <1>1, <1>6
  <2>2. QED
    BY <1>5, <2>1 DEF ToSet

\* The next packet is handled, and says whether a frame begins with it.
LEMMA FlowHandled ==
  ASSUME NEW ps \in Seq(PacketMsg), NEW q \in Seq(Nat \ {0}), NEW n \in Nat, NEW p, NEW m \in PacketMsg,
         PacketFlow(ps, q, n, p), q # <<>>,
         m.pkt = Head(q), m.is_frame_begin <=> p # 0 /\ FrameOfPkt(Head(q)) # p
  PROVE  PacketFlow(Append(ps, m), Tail(q), n, FrameOfPkt(Head(q)))
<1> DEFINE new == Append(ps, m)
           rest == Tail(q)
           l == Len(ps) + 1
           f == FrameOfPkt(Head(q))
<1>1. /\ DOMAIN new = 1 .. l /\ Len(new) = l /\ new[l] = m /\ l \in Nat /\ new # <<>>
      /\ \A i \in DOMAIN ps : i \in 1 .. l /\ i < l /\ new[i] = ps[i]
      /\ \A i \in 1 .. l : i = l \/ i \in DOMAIN ps
  <2> HIDE DEF PacketMsg
  <2>1. Len(ps) \in Nat /\ DOMAIN ps = 1 .. Len(ps)
    OBVIOUS
  <2>2. Len(new) = l /\ DOMAIN new = 1 .. l /\ new[l] = m
    OBVIOUS
  <2>3. \A i \in DOMAIN ps : new[i] = ps[i]
    OBVIOUS
  <2> HIDE DEF new
  <2>4. new # <<>>
    BY <2>1, <2>2
  <2>5. QED
    BY <2>1, <2>2, <2>3, <2>4
<1>2. /\ 1 \in DOMAIN q /\ Head(q) = q[1] /\ q[1] \in Nat \ {0} /\ DOMAIN q = 1 .. Len(q) /\ Len(q) \in Nat
      /\ \A j \in DOMAIN rest : j \in Nat \ {0} /\ j + 1 \in DOMAIN q /\ rest[j] = q[j + 1]
  OBVIOUS
<1>3. /\ p \in Nat /\ p <= f
      /\ \A i \in DOMAIN ps : ps[i].pkt < Head(q) /\ FrameOfPkt(ps[i].pkt) <= p
      /\ f # p => Of(ps, f) = {}
  BY FlowHead
<1>4. \A k : Of(new, k) = IF f = k THEN Of(ps, k) \cup {l} ELSE Of(ps, k)
  BY OfMore
<1>4a. \A k : Of(ps, k) \subseteq DOMAIN ps
  BY DEF Of
<1> HIDE DEF new, rest, l, f
<1>5. ASSUME NEW i \in DOMAIN new, NEW j \in DOMAIN new, i < j PROVE new[i].pkt < new[j].pkt
  <2>1. i \in DOMAIN ps /\ new[i] = ps[i]
    BY <1>1, <1>5
  <2>2. CASE j = l
    BY <1>1, <1>3, <2>1, <2>2
  <2>3. CASE j \in DOMAIN ps
    <3>1. new[j] = ps[j]
      BY <1>1, <2>3
    <3>2. QED
      BY <1>5, <2>1, <2>3, <3>1 DEF PacketFlow
  <2>4. QED
    BY <1>1, <2>2, <2>3
<1>6. ASSUME NEW i \in DOMAIN rest, NEW j \in DOMAIN rest, i < j PROVE rest[i] < rest[j]
  <2>1. i + 1 < j + 1 /\ i + 1 \in DOMAIN q /\ j + 1 \in DOMAIN q
    BY <1>2, <1>6
  <2>2. q[i + 1] < q[j + 1]
    BY <2>1 DEF PacketFlow
  <2>3. QED
    BY <1>2, <2>2
<1>7. ASSUME NEW i \in DOMAIN new, NEW j \in DOMAIN rest PROVE new[i].pkt < rest[j]
  <2>1. j + 1 \in DOMAIN q /\ rest[j] = q[j + 1] /\ 1 < j + 1
    BY <1>2
  <2>2. CASE i = l
    <3>1. q[1] < q[j + 1]
      BY <1>2, <2>1 DEF PacketFlow
    <3>2. QED
      BY <1>1, <1>2, <2>1, <2>2, <3>1
  <2>3. CASE i \in DOMAIN ps
    <3>1. new[i] = ps[i]
      BY <1>1, <2>3
    <3>2. QED
      BY <2>1, <2>3, <3>1 DEF PacketFlow
  <2>4. QED
    BY <1>1, <2>2, <2>3
<1>8. ASSUME NEW i \in DOMAIN new PROVE new[i].pkt <= n
  <2>1. CASE i = l
    <3>1. q[1] <= n
      BY <1>2 DEF PacketFlow
    <3>2. QED
      BY <1>1, <1>2, <2>1, <3>1
  <2>2. CASE i \in DOMAIN ps
    BY <1>1, <2>2 DEF PacketFlow
  <2>3. QED
    BY <1>1, <2>1, <2>2
<1>9. \A j \in DOMAIN rest : rest[j] <= n
  BY <1>2 DEF PacketFlow
<1>10. f = IF new = <<>> THEN 0 ELSE FrameOfPkt(new[Len(new)].pkt)
  BY <1>1 DEF f
<1>11. ASSUME NEW k \in DOMAIN new
       PROVE  new[k].is_frame_begin <=> k # 1 /\ \A j \in Of(new, FrameOfPkt(new[k].pkt)) : k <= j
  <2>0. /\ p = 0 <=> ps = <<>>
        /\ ps = <<>> <=> l = 1
    <3>1. Len(ps) \in Nat /\ (ps = <<>> <=> Len(ps) = 0)
      <4> HIDE DEF PacketMsg
      <4>1. QED
        OBVIOUS
    <3>2. QED
      BY <3>1, NoneHandled DEF l
  <2>1. CASE k = l
    <3>1. FrameOfPkt(new[k].pkt) = f /\ new[k] = m
      BY <1>1, <2>1 DEF f
    <3>2. Of(new, f) = Of(ps, f) \cup {l}
      BY <1>4
    <3>3. CASE f # p
      <4>1. new[k].is_frame_begin <=> l # 1
        BY <2>0, <3>1, <3>3 DEF f
      <4>2. Of(new, f) = {l}
        BY <1>3, <3>2, <3>3
      <4>3. QED
        BY <1>1, <2>1, <3>1, <4>1, <4>2
    <3>4. CASE f = p
      <4>1. ps # <<>> /\ Len(ps) \in Of(ps, p)
        <5>1. ps # <<>>
          <6>1. CASE ps = <<>>
            <7>1. p = 0
              BY <6>1 DEF PacketFlow
            <7>2. f \in Nat \ {0}
              BY <1>2, FrameNumber DEF f
            <7>3. QED
              BY <3>4, <7>1, <7>2
          <6>2. QED
            BY <6>1
        <5>2. p = FrameOfPkt(ps[Len(ps)].pkt)
          BY <5>1 DEF PacketFlow
        <5>3. Len(ps) \in DOMAIN ps
          BY <5>1
        <5>4. QED
          BY <5>1, <5>2, <5>3 DEF Of
      <4>2. ~(l <= Len(ps)) /\ Len(ps) \in Of(new, f)
        BY <1>1, <3>2, <3>4, <4>1 DEF l
      <4>3. ~m.is_frame_begin
        BY <3>4 DEF f
      <4>4. QED
        BY <2>1, <3>1, <4>2, <4>3
    <3>5. QED
      BY <3>3, <3>4
  <2>2. CASE k \in DOMAIN ps
    <3>1. new[k] = ps[k] /\ k < l
      BY <1>1, <2>2
    <3> DEFINE g == FrameOfPkt(ps[k].pkt)
    <3>2. ps[k].is_frame_begin <=> k # 1 /\ \A j \in Of(ps, g) : k <= j
      BY <2>2 DEF PacketFlow
    <3>3. Of(new, g) = Of(ps, g) \/ Of(new, g) = Of(ps, g) \cup {l}
      BY <1>4
    <3> HIDE DEF g
    <3>4. k <= l
      BY <1>1, <2>2, <3>1
    <3>5. (\A j \in Of(new, g) : k <= j) <=> (\A j \in Of(ps, g) : k <= j)
      BY <3>3, <3>4
    <3>6. QED
      BY <3>1, <3>2, <3>5 DEF g
  <2>3. QED
    BY <1>1, <2>1, <2>2
<1>12. QED
  BY <1>5, <1>6, <1>7, <1>8, <1>9, <1>10, <1>11 DEF PacketFlow, new, rest, f

-----------------------------------------------------------------------------
(* RsNode: objects *)

\* What Append and Tail do to the items of a sequence.
LEMMA Appended ==
  ASSUME NEW T, NEW w \in Seq(T), NEW x \in T
  PROVE  /\ Append(w, x) \in Seq(T) /\ DOMAIN Append(w, x) = 1 .. Len(w) + 1 /\ Len(w) \in Nat
         /\ \A i \in 1 .. Len(w) + 1 :
              \/ i = Len(w) + 1 /\ Append(w, x)[i] = x
              \/ i \in DOMAIN w /\ i < Len(w) + 1 /\ Append(w, x)[i] = w[i]
OBVIOUS

LEMMA AppendLast ==
  ASSUME NEW T, NEW a \in Seq(T), NEW b \in Seq(T), NEW x \in T
  PROVE  a \o Append(b, x) = Append(a \o b, x)
OBVIOUS

LEMMA Removed ==
  ASSUME NEW T, NEW w \in Seq(T), w # <<>>
  PROVE  /\ Tail(w) \in Seq(T) /\ 1 \in DOMAIN w /\ Head(w) = w[1] /\ w[1] \in T
         /\ \A i \in DOMAIN Tail(w) : /\ i \in Nat \ {0} /\ i + 1 \in DOMAIN w /\ i + 1 # 1
                                      /\ Tail(w)[i] = w[i + 1]
OBVIOUS

\* putPointCloud, or a cloud that is dropped.
LEMMA OwnedPut ==
  ASSUME NEW c \in Nat, NEW made \in Nat, NEW w, NEW r, Owned(c, made, w, r), c # NoMsg
  PROVE  Owned(NoMsg, made, w, r) /\ Owned(NoMsg, made, Append(w, c), r)
<1> DEFINE new == Append(w, c)
           l == Len(w) + 1
<1>1. w \in Seq(Nat)
  BY DEF Owned
<1>2. /\ new \in Seq(Nat) /\ DOMAIN new = 1 .. l /\ l \in Nat
      /\ \A i \in 1 .. l : (i = l /\ new[i] = c) \/ (i \in DOMAIN w /\ i < l /\ new[i] = w[i])
  BY <1>1, Appended
<1> HIDE DEF new, l
<1>3. Owned(NoMsg, made, w, r)
  BY DEF Owned, NoMsg
<1>4. \A i, j \in DOMAIN new : i < j => new[i] # new[j]
  BY <1>2 DEF Owned
<1>5. \A i \in DOMAIN new, j \in DOMAIN r : new[i] # r[j]
  BY <1>2 DEF Owned
<1>6. \A i \in DOMAIN new : new[i] \in 1 .. made /\ new[i] # NoMsg
  BY <1>2, <1>3 DEF Owned, NoMsg
<1>7. Owned(NoMsg, made, new, r)
  BY <1>2, <1>3, <1>4, <1>5, <1>6 DEF Owned
<1>8. QED
  BY <1>3, <1>7 DEF new

\* getPointCloud.
LEMMA OwnedGet ==
  ASSUME NEW c, NEW made \in Nat, NEW w, NEW r, Owned(c, made, w, r)
  PROVE  /\ Owned(made + 1, made + 1, w, r)
         /\ r # <<>> => Owned(Head(r), made, w, Tail(r))
<1>1. Owned(made + 1, made + 1, w, r)
  BY DEF Owned
<1>2. ASSUME r # <<>> PROVE Owned(Head(r), made, w, Tail(r))
  <2> DEFINE rest == Tail(r)
             h == Head(r)
  <2>1. r \in Seq(Nat)
    BY DEF Owned
  <2>2. /\ rest \in Seq(Nat) /\ 1 \in DOMAIN r /\ h = r[1]
        /\ \A i \in DOMAIN rest : i \in Nat \ {0} /\ i + 1 \in DOMAIN r /\ i + 1 # 1 /\ rest[i] = r[i + 1]
    BY <1>2, <2>1, Removed
  <2> HIDE DEF rest, h
  <2>3. h \in 0 .. made /\ \A i \in DOMAIN w : w[i] # h
    BY <2>2 DEF Owned
  <2>4. \A i \in DOMAIN rest : rest[i] \in 1 .. made /\ rest[i] # h
    <3> TAKE i \in DOMAIN rest
    <3>1. 1 < i + 1 /\ i + 1 \in DOMAIN r
      BY <2>2
    <3>2. QED
      BY <2>2, <3>1 DEF Owned
  <2>5. ASSUME NEW i \in DOMAIN rest, NEW j \in DOMAIN rest, i < j PROVE rest[i] # rest[j]
    <3>1. i + 1 < j + 1 /\ i + 1 \in DOMAIN r /\ j + 1 \in DOMAIN r
      BY <2>2, <2>5
    <3>2. QED
      BY <2>2, <3>1 DEF Owned
  <2>6. \A i \in DOMAIN w, j \in DOMAIN rest : w[i] # rest[j]
    BY <2>2 DEF Owned
  <2>7. Owned(h, made, w, rest)
    BY <2>2, <2>3, <2>4, <2>5, <2>6 DEF Owned
  <2>8. QED
    BY <2>7 DEF h, rest
<1>3. QED
  BY <1>1, <1>2

\* A cloud is published, and on its way back from then on.
LEMMA OwnedSend ==
  ASSUME NEW c, NEW made \in Nat, NEW w, NEW r, Owned(c, made, w, r), w # <<>>
  PROVE  Owned(c, made, Tail(w), Append(r, Head(w)))
<1> DEFINE rest == Tail(w)
           h == Head(w)
           new == Append(r, h)
           l == Len(r) + 1
<1>1. w \in Seq(Nat) /\ r \in Seq(Nat)
  BY DEF Owned
<1>2. /\ rest \in Seq(Nat) /\ 1 \in DOMAIN w /\ h = w[1] /\ h \in Nat
      /\ \A i \in DOMAIN rest : i \in Nat \ {0} /\ i + 1 \in DOMAIN w /\ i + 1 # 1 /\ rest[i] = w[i + 1]
  BY <1>1, Removed
<1> HIDE DEF rest, h
<1>3. /\ new \in Seq(Nat) /\ DOMAIN new = 1 .. l /\ l \in Nat
      /\ \A i \in 1 .. l : (i = l /\ new[i] = h) \/ (i \in DOMAIN r /\ i < l /\ new[i] = r[i])
  BY <1>1, <1>2, Appended
<1> HIDE DEF new, l
<1>4. \A i \in DOMAIN rest : rest[i] \in 1 .. made /\ rest[i] # c /\ rest[i] # h
  <2> TAKE i \in DOMAIN rest
  <2>1. 1 < i + 1 /\ i + 1 \in DOMAIN w
    BY <1>2
  <2>2. QED
    BY <1>2, <2>1 DEF Owned
<1>5. ASSUME NEW i \in DOMAIN rest, NEW j \in DOMAIN rest, i < j PROVE rest[i] # rest[j]
  <2>1. i + 1 < j + 1 /\ i + 1 \in DOMAIN w /\ j + 1 \in DOMAIN w
    BY <1>2, <1>5
  <2>2. QED
    BY <1>2, <2>1 DEF Owned
<1>6. h \in 1 .. made /\ h # c /\ \A i \in DOMAIN r : r[i] # h
  BY <1>2 DEF Owned
<1>7. \A i \in DOMAIN new : new[i] \in 1 .. made /\ new[i] # c
  BY <1>3, <1>6 DEF Owned
<1>8. \A i, j \in DOMAIN new : i < j => new[i] # new[j]
  BY <1>3, <1>6 DEF Owned
<1>9. \A i \in DOMAIN rest, j \in DOMAIN new : rest[i] # new[j]
  BY <1>2, <1>3, <1>4 DEF Owned
<1>10. c \in 0 .. made
  BY DEF Owned
<1>11. Owned(c, made, rest, new)
  BY <1>2, <1>3, <1>4, <1>5, <1>7, <1>8, <1>9, <1>10 DEF Owned
<1>12. QED
  BY <1>11 DEF rest, new, h

-----------------------------------------------------------------------------
(* RsNode: clouds *)

LEMMA FrameOfInt ==
  ASSUME NEW points \in Seq(NodePoint), points # <<>>
  PROVE  FrameOf(points) \in Int
<1>1. points[1] \in NodePoint
  OBVIOUS
<1>2. points[1].pkt \in Nat
  BY <1>1 DEF NodePoint
<1>3. QED
  BY <1>2, FrameInt DEF FrameOf

\* A packet that comes or is lost changes no frame that is complete.
LEMMA CloudsReceive ==
  ASSUME NEW dense, NEW rows, NEW started, NEW ps, NEW q, NEW n, NEW q2, NEW n2, NEW p \in Nat,
         NEW c, NEW objs \in Seq(CloudObj), NEW w, NEW pub \in Seq(CloudOut),
         \A i \in DOMAIN w : w[i] \in DOMAIN objs,
         \A f \in Int : NothingMore(f, q, n) => NothingMore(f, q2, n2),
         CloudsInv(dense, rows, started, ps, q, n, p, c, objs, w, pub)
  PROVE  CloudsInv(dense, rows, started, ps, q2, n2, p, c, objs, w, pub)
<1>1. Waits(dense, ps, q2, n2, objs, w)
  <2>1. ASSUME NEW i \in DOMAIN w PROVE WholeCloud(dense, ps, q2, n2, objs[w[i]])
    <3> DEFINE m == objs[w[i]]
    <3>1. m \in CloudObj
      OBVIOUS
    <3> HIDE DEF m
    <3>2. WholeCloud(dense, ps, q, n, m)
      BY DEF CloudsInv, Waits, m
    <3>3. m.points \in Seq(NodePoint) /\ m.points # <<>>
      BY <3>1, <3>2 DEF CloudObj, WholeCloud
    <3>4. FrameOf(m.points) \in Int
      BY <3>3, FrameOfInt
    <3>5. WholeCloud(dense, ps, q2, n2, m)
      BY <3>2, <3>4 DEF WholeCloud
    <3>6. QED
      BY <3>5 DEF m
  <2>2. QED
    BY <2>1 DEF CloudsInv, Waits
<1>2. Outgone(dense, rows, ps, q2, n2, pub)
  <2>1. ASSUME NEW i \in DOMAIN pub PROVE NothingMore(FrameOf(pub[i].data), q2, n2)
    <3>1. pub[i] \in CloudOut
      OBVIOUS
    <3>2. pub[i].data \in Seq(NodePoint) /\ pub[i].data # <<>>
      BY <3>1 DEF CloudOut, CloudsInv, Outgone
    <3>3. FrameOf(pub[i].data) \in Int
      BY <3>2, FrameOfInt
    <3>4. QED
      BY <3>3 DEF CloudsInv, Outgone
  <2>2. QED
    BY <2>1 DEF CloudsInv, Outgone
<1>3. Filling(dense, started, ps, q2, n2, p, c, objs, w, pub)
  <2>1. p \in Int
    OBVIOUS
  <2>2. NothingMore(p, q, n) => NothingMore(p, q2, n2)
    BY <2>1
  <2>3. QED
    BY <2>2 DEF CloudsInv, Filling
<1>4. QED
  BY <1>1, <1>2, <1>3 DEF CloudsInv

\* Objects that are not on the way may change.
LEMMA WaitsKept ==
  ASSUME NEW dense, NEW ps, NEW q, NEW n, NEW objs, NEW objs2, NEW w, NEW pub,
         \A i \in DOMAIN w : objs2[w[i]] = objs[w[i]],
         Waits(dense, ps, q, n, objs, w), InTurn(objs, w, pub)
  PROVE  /\ Waits(dense, ps, q, n, objs2, w) /\ InTurn(objs2, w, pub)
         /\ \A i \in DOMAIN w : FrameOf(objs2[w[i]].points) = FrameOf(objs[w[i]].points)
BY DEF Waits, InTurn

\* getPointCloud: the new object has no points.
LEMMA CloudsGet ==
  ASSUME NEW dense, NEW rows, NEW started, NEW ps, NEW q, NEW n, NEW p, NEW c, NEW d,
         NEW objs, NEW objs2, NEW w, NEW pub,
         \A i \in DOMAIN w : objs2[w[i]] = objs[w[i]],
         started => c = NoMsg, objs2[d].points = <<>>,
         CloudsInv(dense, rows, started, ps, q, n, p, c, objs, w, pub)
  PROVE  CloudsInv(dense, rows, started, ps, q, n, p, d, objs2, w, pub)
<1>1. Waits(dense, ps, q, n, objs2, w) /\ InTurn(objs2, w, pub)
  BY WaitsKept DEF CloudsInv
<1>2. Filling(dense, started, ps, q, n, p, d, objs2, w, pub)
  BY DEF CloudsInv, Filling
<1>3. QED
  BY <1>1, <1>2 DEF CloudsInv

\* start: nothing was handled before.
LEMMA CloudsStart ==
  ASSUME NEW dense, NEW rows, NEW q, NEW n, NEW p, NEW c, NEW started, NEW objs, NEW w, NEW pub,
         c # NoMsg => objs[c].points = <<>>,
         CloudsInv(dense, rows, started, <<>>, q, n, p, c, objs, w, pub)
  PROVE  CloudsInv(dense, rows, TRUE, <<>>, q, n, p, c, objs, w, pub)
<1>1. Of(<<>>, p) = {}
  BY DEF Of
<1>2. Decoded(dense, <<>>, p) = {}
  BY <1>1 DEF Decoded
<1>3. QED
  BY <1>2 DEF CloudsInv, Filling

\* The extents splitFrame gives a cloud.
LEMMA Extents ==
  ASSUME NEW dense \in BOOLEAN, NEW ps \in Seq(PacketMsg), NEW points \in Seq(NodePoint), NEW f,
         Gathered(dense, ps, points, f)
  PROVE  LET height == IF dense THEN 1 ELSE Channels
         IN  /\ height \in Nat /\ Len(points) \div height \in Nat
             /\ (Len(points) \div height) * height = Len(points)
<1> DEFINE height == IF dense THEN 1 ELSE Channels
           l == Len(points)
<1>1. l \in Nat /\ Channels \in Nat \ {0}
  BY NodeAssumption
<1>2. height \in Nat \ {0}
  BY <1>1
<1>3. l % height = 0
  <2>1. CASE dense
    BY <1>1, <2>1
  <2>2. CASE ~dense
    BY <2>2 DEF Gathered
  <2>3. QED
    BY <2>1, <2>2
<1> HIDE DEF l, height
<1> DEFINE d == l \div height
<1>4. l = height * d + (l % height) /\ d \in Int
  BY <1>1, <1>2, DivMod
<1>5. d \in Nat
  BY <1>1, <1>2
<1> HIDE DEF d
<1>6. d * height = l
  BY <1>1, <1>2, <1>3, <1>4, <1>5
<1>7. QED
  BY <1>2, <1>5, <1>6 DEF d, l, height

\* splitFrame: the cloud is complete, and goes to the queue or is dropped.
LEMMA CloudsSplit ==
  ASSUME NEW dense \in BOOLEAN, NEW rows, NEW ps \in Seq(PacketMsg), NEW q \in Seq(Nat \ {0}),
         NEW n \in Nat, NEW p, NEW c, NEW objs \in Seq(CloudObj), NEW objs2, NEW w \in Seq(Nat), NEW pub,
         PacketFlow(ps, q, n, p), q # <<>>, FrameOfPkt(Head(q)) # p,
         c \in Nat, c # NoMsg, c \in DOMAIN objs, objs[c].points # <<>>, \A i \in DOMAIN w : w[i] # c,
         \A i \in DOMAIN w : objs2[w[i]] = objs[w[i]],
         objs2[c].points = objs[c].points,
         objs2[c].height = (IF dense THEN 1 ELSE Channels),
         objs2[c].width = Len(objs[c].points) \div (IF dense THEN 1 ELSE Channels),
         CloudsInv(dense, rows, TRUE, ps, q, n, p, c, objs, w, pub)
  PROVE  /\ CloudsInv(dense, rows, TRUE, ps, q, n, p, NoMsg, objs2, w, pub)
         /\ CloudsInv(dense, rows, TRUE, ps, q, n, p, NoMsg, objs2, Append(w, c), pub)
<1> DEFINE pts == objs[c].points
<1>1. pts \in Seq(NodePoint) /\ pts # <<>>
  <2>1. objs[c] \in CloudObj
    OBVIOUS
  <2>2. QED
    BY <2>1 DEF CloudObj
<1>2. /\ Gathered(dense, ps, pts, p)
      /\ \A i \in DOMAIN w : FrameOf(objs[w[i]].points) < p
      /\ \A i \in DOMAIN pub : FrameOf(pub[i].data) < p
  BY DEF CloudsInv, Filling
<1>3. objs2[c].width * objs2[c].height = Len(pts)
  BY <1>1, <1>2, Extents
<1> HIDE DEF pts
<1>4. FrameOf(pts) = p
  BY <1>1, <1>2, GatheredFrame
<1>5. NothingMore(p, q, n)
  BY FlowHead
<1>6. WholeCloud(dense, ps, q, n, objs2[c]) /\ FrameOf(objs2[c].points) = p
  BY <1>1, <1>2, <1>3, <1>4, <1>5 DEF WholeCloud, pts
<1>7. /\ Waits(dense, ps, q, n, objs2, w) /\ InTurn(objs2, w, pub)
      /\ \A i \in DOMAIN w : FrameOf(objs2[w[i]].points) < p
  BY <1>2, WaitsKept DEF CloudsInv
<1> DEFINE new == Append(w, c)
           l == Len(w) + 1
<1>8. /\ DOMAIN new = 1 .. l /\ l \in Nat
      /\ \A i \in 1 .. l : (i = l /\ new[i] = c) \/ (i \in DOMAIN w /\ i < l /\ new[i] = w[i])
  BY Appended
<1> HIDE DEF new, l
<1>9. Waits(dense, ps, q, n, objs2, new)
  <2>1. \A i \in DOMAIN new : WholeCloud(dense, ps, q, n, objs2[new[i]])
    BY <1>6, <1>7, <1>8 DEF Waits
  <2>2. ASSUME NEW i \in DOMAIN new, NEW j \in DOMAIN new, i < j
        PROVE  FrameOf(objs2[new[i]].points) < FrameOf(objs2[new[j]].points)
    <3>1. i \in DOMAIN w /\ new[i] = w[i]
      BY <1>8, <2>2
    <3>2. CASE j = l
      <4>1. new[j] = c
        BY <1>8, <3>2
      <4>2. FrameOf(objs2[w[i]].points) < p
        BY <1>7, <3>1
      <4>3. QED
        BY <1>6, <3>1, <4>1, <4>2
    <3>3. CASE j # l
      <4>1. j \in DOMAIN w /\ new[j] = w[j]
        BY <1>8, <3>3
      <4>2. QED
        BY <1>7, <2>2, <3>1, <4>1 DEF Waits
    <3>4. QED
      BY <3>2, <3>3
  <2>3. QED
    BY <2>1, <2>2 DEF Waits
<1>10. InTurn(objs2, new, pub)
  BY <1>2, <1>6, <1>7, <1>8 DEF InTurn
<1>11. /\ Filling(dense, TRUE, ps, q, n, p, NoMsg, objs2, w, pub)
       /\ Filling(dense, TRUE, ps, q, n, p, NoMsg, objs2, new, pub)
  BY <1>5 DEF Filling
<1>12. QED
  BY <1>7, <1>9, <1>10, <1>11 DEF CloudsInv, new

\* internalProcessPacket: the packet's points come to the cloud of its frame.
LEMMA CloudsHandle ==
  ASSUME NEW dense \in BOOLEAN, NEW rows, NEW ps \in Seq(PacketMsg), NEW q \in Seq(Nat \ {0}),
         NEW n \in Nat, NEW p, NEW c, NEW objs \in Seq(CloudObj), NEW objs2, NEW w, NEW pub \in Seq(CloudOut),
         NEW m \in PacketMsg, m.pkt = Head(q),
         PacketFlow(ps, q, n, p), q # <<>>,
         c # NoMsg, c \in DOMAIN objs, FrameOfPkt(Head(q)) # p => objs[c].points = <<>>,
         \A i \in DOMAIN w : w[i] \in DOMAIN objs /\ objs2[w[i]] = objs[w[i]],
         objs2[c].points = objs[c].points \o PointsOf(dense, Head(q)),
         CloudsInv(dense, rows, TRUE, ps, q, n, p, c, objs, w, pub)
  PROVE  CloudsInv(dense, rows, TRUE, Append(ps, m), Tail(q), n, FrameOfPkt(Head(q)), c, objs2, w, pub)
<1> DEFINE pts == objs[c].points
           more == PointsOf(dense, Head(q))
           f == FrameOfPkt(Head(q))
           ps2 == Append(ps, m)
<1>1. objs[c] \in CloudObj /\ pts \in Seq(NodePoint)
  <2>1. objs[c] \in CloudObj
    OBVIOUS
  <2>2. QED
    BY <2>1 DEF CloudObj
<1>2. /\ Head(q) \in Nat \ {0} /\ p \in Nat /\ p <= f
      /\ \A i \in DOMAIN ps : ps[i].pkt < Head(q)
      /\ f # p => NothingMore(p, q, n) /\ Of(ps, f) = {}
  BY FlowHead
<1>3. f \in Nat \ {0} /\ more \in Seq(NodePoint)
  BY <1>2, FrameNumber, PointsShape
<1>4. \A g : NothingMore(g, q, n) => g < f /\ NothingMore(g, Tail(q), n)
  BY PassedHead
<1>5. \A g, x : Gathered(dense, ps, x, g) /\ g # f => Gathered(dense, ps2, x, g)
  BY GatheredKept
<1>6. \A x \in Seq(NodePoint) : Gathered(dense, ps, x, f) => Gathered(dense, ps2, x \o more, f)
  BY <1>2, GatheredMore
<1>7. Decoded(dense, ps2, f) = Decoded(dense, ps, f) \cup ToSet(more)
  BY DecodedMore
<1>7a. \A g : g # f => Decoded(dense, ps2, g) = Decoded(dense, ps, g)
  <2> TAKE g
  <2> HAVE g # f
  <2> DEFINE new == IF FrameOfPkt(m.pkt) = g THEN ToSet(PointsOf(dense, m.pkt)) ELSE {}
  <2>1. Decoded(dense, ps2, g) = Decoded(dense, ps, g) \cup new
    BY DecodedMore
  <2>2. new = {}
    OBVIOUS
  <2> HIDE DEF new, ps2
  <2>3. QED
    BY <2>1, <2>2
<1> HIDE DEF more, f, ps2, pts
<1>8. Waits(dense, ps2, Tail(q), n, objs2, w) /\ InTurn(objs2, w, pub)
  <2>1. Waits(dense, ps, q, n, objs2, w) /\ InTurn(objs2, w, pub)
    BY WaitsKept DEF CloudsInv
  <2>2. ASSUME NEW i \in DOMAIN w PROVE WholeCloud(dense, ps2, Tail(q), n, objs2[w[i]])
    <3>1. objs2[w[i]] \in CloudObj /\ WholeCloud(dense, ps, q, n, objs2[w[i]])
      BY <2>1 DEF Waits
    <3> DEFINE o == objs2[w[i]]
               g == FrameOf(o.points)
    <3> HIDE DEF o
    <3>2. o.points \in Seq(NodePoint) /\ o.points # <<>>
      BY <3>1 DEF CloudObj, WholeCloud, o
    <3>3. g \in Int
      BY <3>2, FrameOfInt
    <3>4. NothingMore(g, q, n) /\ Gathered(dense, ps, o.points, g)
      BY <3>1 DEF WholeCloud, o
    <3>5. NothingMore(g, Tail(q), n) /\ Gathered(dense, ps2, o.points, g)
      BY <1>3, <1>4, <1>5, <3>3, <3>4
    <3>6. QED
      BY <3>1, <3>5 DEF WholeCloud, o
  <2>3. QED
    BY <2>1, <2>2 DEF Waits
<1>9. Outgone(dense, rows, ps2, Tail(q), n, pub)
  <2>1. ASSUME NEW i \in DOMAIN pub
        PROVE  /\ FrameMsg(dense, rows, ps2, pub[i], FrameOf(pub[i].data))
               /\ NothingMore(FrameOf(pub[i].data), Tail(q), n)
    <3> DEFINE o == pub[i]
               g == FrameOf(o.data)
    <3>1. o \in CloudOut
      OBVIOUS
    <3>2. o.data # <<>> /\ FrameMsg(dense, rows, ps, o, g) /\ NothingMore(g, q, n)
      BY DEF CloudsInv, Outgone
    <3> HIDE DEF o
    <3>3. o.data \in Seq(NodePoint)
      BY <3>1 DEF CloudOut
    <3>4. g \in Int
      BY <3>2, <3>3, FrameOfInt
    <3>5. g # f /\ NothingMore(g, Tail(q), n)
      BY <1>3, <1>4, <3>2, <3>4
    <3>6. FrameMsg(dense, rows, ps2, o, g)
      BY <1>7a, <3>2, <3>5 DEF FrameMsg
    <3>7. QED
      BY <3>5, <3>6 DEF o
  <2>2. QED
    BY <2>1 DEF CloudsInv, Outgone
<1>10. Filling(dense, TRUE, ps2, Tail(q), n, f, c, objs2, w, pub)
  <2>1. CASE pts # <<>>
    <3>1. f = p /\ Gathered(dense, ps, pts, f)
      BY <2>1 DEF CloudsInv, Filling, pts, f
    <3>2. Gathered(dense, ps2, pts \o more, f)
      BY <1>1, <1>6, <3>1
    <3>3. /\ \A i \in DOMAIN w : FrameOf(objs2[w[i]].points) < f
          /\ \A i \in DOMAIN pub : FrameOf(pub[i].data) < f
      BY <2>1, <3>1 DEF CloudsInv, Filling, pts
    <3>4. objs2[c].points = pts \o more /\ pts \o more # <<>>
      BY <1>1, <1>3, <2>1 DEF pts, more
    <3>5. QED
      BY <3>2, <3>3, <3>4 DEF Filling
  <2>2. CASE pts = <<>>
    <3>1. Decoded(dense, ps, f) = {}
      <4>1. CASE f # p
        <5>1. Of(ps, f) = {}
          BY <1>2, <4>1
        <5>2. QED
          BY <5>1 DEF Decoded
      <4>2. CASE f = p
        <5>1. ~NothingMore(p, q, n)
          BY <1>3, <1>4, <4>2
        <5>2. QED
          BY <2>2, <4>2, <5>1 DEF CloudsInv, Filling, pts
      <4>3. QED
        BY <4>1, <4>2
    <3>2. objs2[c].points = more
      BY <1>3, <2>2 DEF pts, more
    <3>3. Gathered(dense, ps, <<>>, f)
      <4>1. ToSet(<<>>) = {}
        BY DEF ToSet
      <4>2. Len(<<>>) = 0 /\ DOMAIN <<>> = {}
        OBVIOUS
      <4>3. 0 % Channels = 0
        BY SMTT(30), NodeAssumption
      <4>4. QED
        BY <3>1, <4>1, <4>2, <4>3 DEF Gathered
    <3>4. Gathered(dense, ps2, more, f)
      <4>1. <<>> \o more = more /\ <<>> \in Seq(NodePoint)
        BY <1>3
      <4>2. QED
        BY <1>6, <3>3, <4>1
    <3>5. CASE more = <<>>
      <4>1. ToSet(more) = {}
        BY <3>5 DEF ToSet
      <4>2. Decoded(dense, ps2, f) = {}
        BY <1>7, <3>1, <4>1
      <4>3. QED
        BY <3>2, <3>5, <4>2 DEF Filling
    <3>6. CASE more # <<>>
      <4>1. \A i \in DOMAIN w : FrameOf(objs2[w[i]].points) < f
        <5> TAKE i \in DOMAIN w
        <5>1. NothingMore(FrameOf(objs[w[i]].points), q, n)
          BY DEF CloudsInv, Waits, WholeCloud
        <5>2. QED
          BY <1>4, <5>1
      <4>2. \A i \in DOMAIN pub : FrameOf(pub[i].data) < f
        BY <1>4 DEF CloudsInv, Outgone
      <4>3. objs2[c].points # <<>> /\ Gathered(dense, ps2, objs2[c].points, f)
        BY <3>2, <3>4, <3>6
      <4>4. QED
        BY <4>1, <4>2, <4>3 DEF Filling
    <3>7. QED
      BY <3>5, <3>6
  <2>3. QED
    BY <2>1, <2>2
<1>11. QED
  BY <1>8, <1>9, <1>10 DEF CloudsInv, ps2, f

\* A cloud that waited is published.
LEMMA CloudsSend ==
  ASSUME NEW dense, NEW rows, NEW started, NEW ps, NEW q, NEW n, NEW p, NEW c, NEW objs,
         NEW w \in Seq(Nat), NEW pub \in Seq(CloudOut), NEW out \in CloudOut, w # <<>>,
         out.data # <<>>, FrameOf(out.data) = FrameOf(objs[Head(w)].points),
         FrameMsg(dense, rows, ps, out, FrameOf(objs[Head(w)].points)),
         CloudsInv(dense, rows, started, ps, q, n, p, c, objs, w, pub)
  PROVE  CloudsInv(dense, rows, started, ps, q, n, p, c, objs, Tail(w), Append(pub, out))
<1> DEFINE rest == Tail(w)
           h == Head(w)
           new == Append(pub, out)
           l == Len(pub) + 1
           g == FrameOf(objs[h].points)
<1>1. /\ 1 \in DOMAIN w /\ h = w[1]
      /\ \A i \in DOMAIN rest : i \in Nat \ {0} /\ i + 1 \in DOMAIN w /\ i + 1 # 1 /\ rest[i] = w[i + 1]
  BY Removed
<1>2. /\ DOMAIN new = 1 .. l /\ l \in Nat
      /\ \A i \in 1 .. l : (i = l /\ new[i] = out) \/ (i \in DOMAIN pub /\ i < l /\ new[i] = pub[i])
  <2> HIDE DEF CloudOut
  <2>1. QED
    BY Appended
<1> HIDE DEF rest, h, new, l
<1>3. NothingMore(g, q, n) /\ FrameOf(out.data) = g /\ FrameMsg(dense, rows, ps, out, g)
  BY <1>1 DEF CloudsInv, Waits, WholeCloud, h
<1>4. \A i \in DOMAIN pub : FrameOf(pub[i].data) < g
  BY <1>1 DEF CloudsInv, InTurn
<1>5. \A j \in DOMAIN rest : g < FrameOf(objs[rest[j]].points)
  <2> TAKE j \in DOMAIN rest
  <2>1. 1 < j + 1 /\ j + 1 \in DOMAIN w
    BY <1>1
  <2>2. QED
    BY <1>1, <2>1 DEF CloudsInv, Waits
<1> HIDE DEF g
<1>6. Waits(dense, ps, q, n, objs, rest)
  <2>1. ASSUME NEW i \in DOMAIN rest, NEW j \in DOMAIN rest, i < j
        PROVE  FrameOf(objs[rest[i]].points) < FrameOf(objs[rest[j]].points)
    <3>1. i + 1 < j + 1 /\ i + 1 \in DOMAIN w /\ j + 1 \in DOMAIN w
      BY <1>1, <2>1
    <3>2. QED
      BY <1>1, <3>1 DEF CloudsInv, Waits
  <2>2. QED
    BY <1>1, <2>1 DEF CloudsInv, Waits
<1>7. Outgone(dense, rows, ps, q, n, new)
  <2>1. ASSUME NEW i \in DOMAIN new
        PROVE  /\ new[i].data # <<>> /\ FrameMsg(dense, rows, ps, new[i], FrameOf(new[i].data))
               /\ NothingMore(FrameOf(new[i].data), q, n)
    BY <1>2, <1>3 DEF CloudsInv, Outgone
  <2>2. ASSUME NEW i \in DOMAIN new, NEW j \in DOMAIN new, i < j
        PROVE  FrameOf(new[i].data) < FrameOf(new[j].data)
    <3>1. i \in DOMAIN pub /\ new[i] = pub[i]
      BY <1>2, <2>2
    <3>2. CASE j = l
      BY <1>2, <1>3, <1>4, <3>1, <3>2
    <3>3. CASE j # l
      <4>1. j \in DOMAIN pub /\ new[j] = pub[j]
        BY <1>2, <3>3
      <4>2. QED
        BY <2>2, <3>1, <4>1 DEF CloudsInv, Outgone
    <3>4. QED
      BY <3>2, <3>3
  <2>3. QED
    BY <2>1, <2>2 DEF Outgone
<1>8. InTurn(objs, rest, new)
  <2>1. ASSUME NEW i \in DOMAIN new, NEW j \in DOMAIN rest
        PROVE  FrameOf(new[i].data) < FrameOf(objs[rest[j]].points)
    <3>1. CASE i = l
      BY <1>2, <1>3, <1>5, <3>1
    <3>2. CASE i # l
      <4>1. i \in DOMAIN pub /\ new[i] = pub[i]
        BY <1>2, <3>2
      <4>2. QED
        BY <1>1, <4>1 DEF CloudsInv, InTurn
    <3>3. QED
      BY <3>1, <3>2
  <2>2. QED
    BY <2>1 DEF InTurn
<1>9. Filling(dense, started, ps, q, n, p, c, objs, rest, new)
  <2>1. ASSUME started, c # NoMsg, objs[c].points # <<>>
        PROVE  (\A i \in DOMAIN rest : FrameOf(objs[rest[i]].points) < p) /\ (\A i \in DOMAIN new : FrameOf(new[i].data) < p)
    <3>1. /\ \A i \in DOMAIN w : FrameOf(objs[w[i]].points) < p
          /\ \A i \in DOMAIN pub : FrameOf(pub[i].data) < p
      BY <2>1 DEF CloudsInv, Filling
    <3>2. g < p
      BY <1>1, <3>1 DEF g
    <3>3. QED
      BY <1>1, <1>2, <1>3, <3>1, <3>2
  <2>2. QED
    BY <2>1 DEF CloudsInv, Filling
<1>10. QED
  BY <1>6, <1>7, <1>8, <1>9 DEF CloudsInv, rest, new

-----------------------------------------------------------------------------
(* RsNode: the steps *)

\* What a step leaves alone of a source.
SameObjects(s) ==
  /\ cloudMsg'[s] = cloudMsg[s] /\ point_cloud_'[s] = point_cloud_[s]
  /\ free_point_cloud_queue_'[s] = free_point_cloud_queue_[s]
SameThread(s) ==
  /\ processing'[s] = processing[s] /\ msg'[s] = msg[s]
  /\ point_cloud_queue_'[s] = point_cloud_queue_[s]
SamePackets(s) ==
  /\ packets'[s] = packets[s] /\ pkt_queue_'[s] = pkt_queue_[s] /\ sent'[s] = sent[s]
  /\ prevFrame'[s] = prevFrame[s] /\ start_flag_'[s] = start_flag_[s] /\ clouds'[s] = clouds[s]

\* main() never goes back.
Forward ==
  /\ config' = config
  /\ node' = "init" => node = "init"
  /\ node' \in {"init", "start"} => node \in {"init", "start"}

LEMMA WaysKept ==
  ASSUME NEW s, SameThread(s), free_point_cloud_queue_'[s] = free_point_cloud_queue_[s]
  PROVE  OnTheWay(s)' = OnTheWay(s) /\ OnTheWayBack(s)' = OnTheWayBack(s)
BY DEF SameThread, OnTheWay, OnTheWayBack

LEMMA SourceKept ==
  ASSUME NEW s, SourceInv(s), SameObjects(s), SameThread(s), SamePackets(s), Forward
  PROVE  SourceInv(s)'
<1>1. OnTheWay(s)' = OnTheWay(s) /\ OnTheWayBack(s)' = OnTheWayBack(s)
  BY WaysKept DEF SameObjects
<1>2. send_by_rows_' = send_by_rows_
  BY DEF Forward, send_by_rows_
<1>3. PacketFlow(packets[s], pkt_queue_[s], sent[s], prevFrame[s])'
  BY DEF SourceInv, SamePackets
<1>4. Owned(point_cloud_[s], Len(cloudMsg[s]), OnTheWay(s), OnTheWayBack(s))'
  BY <1>1 DEF SourceInv, SameObjects
<1>5. CloudsInv(config.dense_points, send_by_rows_, start_flag_[s], packets[s], pkt_queue_[s], sent[s],
                prevFrame[s], point_cloud_[s], cloudMsg[s], OnTheWay(s), clouds[s])'
  BY <1>1, <1>2 DEF SourceInv, SameObjects, SamePackets, Forward
<1>6. Limits(s)' /\ Phase(s)'
  BY DEF SourceInv, Limits, Phase, SameObjects, SameThread, SamePackets, Forward
<1>7. QED
  BY <1>3, <1>4, <1>5, <1>6 DEF SourceInv

\* The types of the values of a source.
LEMMA SourceTypes ==
  ASSUME NodeShape, NEW s \in Source
  PROVE  /\ packets[s] \in Seq(PacketMsg) /\ pkt_queue_[s] \in Seq(Nat \ {0})
         /\ sent[s] \in Nat /\ prevFrame[s] \in Nat /\ start_flag_[s] \in BOOLEAN
         /\ cloudMsg[s] \in Seq(CloudObj) /\ point_cloud_[s] \in Nat /\ msg[s] \in Nat
         /\ free_point_cloud_queue_[s] \in Seq(Nat) /\ point_cloud_queue_[s] \in Seq(Nat)
         /\ clouds[s] \in Seq(CloudOut) /\ config.dense_points \in BOOLEAN /\ send_by_rows_ \in BOOLEAN
         /\ send_by_rows_ => ~config.dense_points
<1>1. config.dense_points \in BOOLEAN /\ config.ros_send_by_rows \in BOOLEAN
  BY DEF NodeShape
<1>2. QED
  BY <1>1 DEF NodeShape, send_by_rows_

LEMMA InitNode == NodeInit => NodeInv
<1> SUFFICES ASSUME NodeInit PROVE NodeInv
  OBVIOUS
<1>1. NodeShape
  <2>1. 1 \in Source /\ MaxPktLoss \in Nat
    BY NodeAssumption DEF Source
  <2>2. <<>> \in Seq(CloudObj) /\ <<>> \in Seq(CloudOut) /\ <<>> \in Seq(PacketMsg) /\ <<>> \in Seq(Nat \ {0}) /\ <<>> \in Seq(Nat)
    OBVIOUS
  <2> HIDE DEF CloudObj, CloudOut, PacketMsg, Source
  <2>3. QED
    BY <2>1, <2>2 DEF NodeInit, NodeShape, NoMsg
<1>2. ASSUME NEW s \in Source PROVE SourceInv(s)
  <2>1. /\ packets[s] = <<>> /\ pkt_queue_[s] = <<>> /\ sent[s] = 0 /\ prevFrame[s] = 0
        /\ start_flag_[s] = FALSE /\ cloudMsg[s] = <<>> /\ point_cloud_[s] = NoMsg /\ msg[s] = NoMsg
        /\ free_point_cloud_queue_[s] = <<>> /\ point_cloud_queue_[s] = <<>> /\ clouds[s] = <<>>
        /\ processing[s] = "none"
    BY DEF NodeInit
  <2>2. OnTheWay(s) = <<>> /\ OnTheWayBack(s) = <<>>
    BY <2>1 DEF OnTheWay, OnTheWayBack
  <2>3. PacketFlow(<<>>, <<>>, 0, 0)
    BY DEF PacketFlow
  <2>4. Owned(NoMsg, Len(<<>>), <<>>, <<>>)
    BY DEF Owned, NoMsg
  <2>5. \A d, x, y : CloudsInv(d, x, FALSE, <<>>, <<>>, 0, 0, NoMsg, y, <<>>, <<>>)
    BY DEF CloudsInv, Waits, Outgone, InTurn, Filling
  <2>6. Limits(s) /\ Phase(s)
    <3>1. PktQueue \in Nat /\ CloudQueue \in Nat
      BY NodeAssumption
    <3>2. QED
      BY <2>1, <3>1 DEF Limits, Phase, NoMsg
  <2>7. QED
    BY <2>1, <2>2, <2>3, <2>4, <2>5, <2>6 DEF SourceInv
<1>3. QED
  BY <1>1, <1>2 DEF NodeInv

\* Receive and LosePacket.
LEMMA ReceiveNode ==
  ASSUME NodeInv, NEW s \in Source, Receive(s) \/ LosePacket(s)
  PROVE  NodeInv'
<1> DEFINE q == pkt_queue_[s]
           n == sent[s]
<1>0. NodeShape /\ SourceInv(s)
  BY DEF NodeInv
<1>1. /\ packets[s] \in Seq(PacketMsg) /\ q \in Seq(Nat \ {0}) /\ n \in Nat /\ prevFrame[s] \in Nat
      /\ cloudMsg[s] \in Seq(CloudObj) /\ clouds[s] \in Seq(CloudOut)
  BY <1>0, SourceTypes
<1>2. /\ sent' = [sent EXCEPT ![s] = n + 1]
      /\ \/ pkt_queue_' = pkt_queue_ /\ pktLoss < MaxPktLoss /\ pktLoss' = pktLoss + 1
         \/ pkt_queue_' = [pkt_queue_ EXCEPT ![s] = IF Len(q) = PktQueue THEN <<>> ELSE Append(q, sent'[s])] /\ pktLoss' = pktLoss
      /\ UNCHANGED <<config, node, at, start_flag_, prevFrame, cloudMsg, point_cloud_,
                     free_point_cloud_queue_, point_cloud_queue_, threadVars, clouds, packets>>
  BY DEF Receive, LosePacket, driverVars
<1>3. sent \in [Source -> Nat] /\ pkt_queue_ \in [Source -> Seq(Nat \ {0})]
  BY <1>0 DEF NodeShape
<1>4. sent'[s] = n + 1 /\ \A r \in Source \ {s} : sent'[r] = sent[r] /\ pkt_queue_'[r] = pkt_queue_[r]
  BY <1>2, <1>3
<1>5. pkt_queue_'[s] \in {q, <<>>, Append(q, n + 1)} /\ Len(pkt_queue_'[s]) <= PktQueue
  <2>0. Len(q) <= PktQueue /\ PktQueue \in Nat
    BY <1>0, NodeAssumption DEF SourceInv, Limits
  <2>1. CASE pkt_queue_' = pkt_queue_
    BY <2>0, <2>1
  <2>2. CASE pkt_queue_' = [pkt_queue_ EXCEPT ![s] = IF Len(q) = PktQueue THEN <<>> ELSE Append(q, sent'[s])]
    <3>1. pkt_queue_'[s] = IF Len(q) = PktQueue THEN <<>> ELSE Append(q, n + 1)
      BY <1>3, <1>4, <2>2
    <3>2. Len(Append(q, n + 1)) = Len(q) + 1 /\ Len(q) \in Nat /\ Len(<<>>) = 0
      BY <1>1
    <3>3. QED
      BY <2>0, <3>1, <3>2
  <2>3. QED
    BY <1>2, <2>1, <2>2
<1>6. NodeShape'
  <2>1. sent' \in [Source -> Nat]
    BY <1>1, <1>2, <1>3
  <2>2. pkt_queue_'[s] \in Seq(Nat \ {0})
    <3>1. Append(q, n + 1) \in Seq(Nat \ {0}) /\ <<>> \in Seq(Nat \ {0})
      BY <1>1
    <3>2. QED
      BY <1>1, <1>5, <3>1
  <2>3. pkt_queue_' \in [Source -> Seq(Nat \ {0})]
    BY <1>2, <1>3, <2>2
  <2>4. pktLoss' \in 0 .. MaxPktLoss
    <3>1. pktLoss \in 0 .. MaxPktLoss /\ (pktLoss < MaxPktLoss => pktLoss + 1 \in 0 .. MaxPktLoss)
      BY <1>0, NodeAssumption DEF NodeShape
    <3>2. QED
      BY <1>2, <3>1
  <2> HIDE DEF CloudObj, CloudOut, PacketMsg, Source
  <2>5. QED
    BY <1>0, <1>2, <2>1, <2>3, <2>4 DEF NodeShape, threadVars
<1>7. ASSUME NEW r \in Source \ {s} PROVE SourceInv(r)'
  <2>1. SameObjects(r) /\ SameThread(r) /\ SamePackets(r) /\ Forward
    BY <1>2, <1>4 DEF SameObjects, SameThread, SamePackets, Forward, threadVars
  <2>2. QED
    BY <2>1, SourceKept DEF NodeInv
<1>8. SourceInv(s)'
  <2>1. OnTheWay(s)' = OnTheWay(s) /\ OnTheWayBack(s)' = OnTheWayBack(s) /\ send_by_rows_' = send_by_rows_
    BY <1>2, WaysKept DEF SameThread, threadVars, send_by_rows_
  <2>2. PacketFlow(packets[s], pkt_queue_'[s], n + 1, prevFrame[s])
    <3>1. PacketFlow(packets[s], q, n, prevFrame[s])
      BY <1>0 DEF SourceInv
    <3>2. /\ PacketFlow(packets[s], q, n + 1, prevFrame[s])
          /\ PacketFlow(packets[s], <<>>, n + 1, prevFrame[s])
          /\ PacketFlow(packets[s], Append(q, n + 1), n + 1, prevFrame[s])
      BY <1>1, <3>1, FlowReceive
    <3>3. QED
      BY <1>5, <3>2
  <2>3. CloudsInv(config.dense_points, send_by_rows_, start_flag_[s], packets[s], pkt_queue_'[s], n + 1,
                  prevFrame[s], point_cloud_[s], cloudMsg[s], OnTheWay(s), clouds[s])
    <3>1. \A f \in Int : NothingMore(f, q, n) => NothingMore(f, pkt_queue_'[s], n + 1)
      <4> TAKE f \in Int
      <4> HAVE NothingMore(f, q, n)
      <4>1. NothingMore(f, q, n + 1) /\ NothingMore(f, <<>>, n + 1) /\ NothingMore(f, Append(q, n + 1), n + 1)
        BY <1>1, PassedReceive
      <4>2. QED
        BY <1>5, <4>1
    <3>2. \A i \in DOMAIN OnTheWay(s) : OnTheWay(s)[i] \in DOMAIN cloudMsg[s]
      BY <1>0, <1>1 DEF SourceInv, Owned
    <3>3. CloudsInv(config.dense_points, send_by_rows_, start_flag_[s], packets[s], q, n,
                    prevFrame[s], point_cloud_[s], cloudMsg[s], OnTheWay(s), clouds[s])
      BY <1>0 DEF SourceInv
    <3> HIDE DEF q, n
    <3>4. QED
      BY <1>1, <3>1, <3>2, <3>3, CloudsReceive
  <2>4. Limits(s)' /\ Phase(s)'
    BY <1>0, <1>2, <1>5 DEF SourceInv, Limits, Phase, threadVars
  <2>5. Owned(point_cloud_[s], Len(cloudMsg[s]), OnTheWay(s), OnTheWayBack(s))'
    BY <1>0, <1>2, <2>1 DEF SourceInv
  <2>6. QED
    BY <1>2, <1>4, <2>1, <2>2, <2>3, <2>4, <2>5 DEF SourceInv
<1>9. QED
  BY <1>6, <1>7, <1>8 DEF NodeInv

\* Changing one field of one object.
LEMMA ObjectChanged ==
  ASSUME NodeShape, NEW s \in Source, NEW id \in DOMAIN cloudMsg[s], NEW o \in CloudObj,
         cloudMsg' = [cloudMsg EXCEPT ![s] = [@ EXCEPT ![id] = o]]
  PROVE  /\ cloudMsg' \in [Source -> Seq(CloudObj)]
         /\ Len(cloudMsg'[s]) = Len(cloudMsg[s]) /\ cloudMsg'[s][id] = o
         /\ \A i \in DOMAIN cloudMsg[s] \ {id} : cloudMsg'[s][i] = cloudMsg[s][i]
         /\ \A r \in Source \ {s} : cloudMsg'[r] = cloudMsg[r]
<1> HIDE DEF CloudObj
<1> DEFINE old == cloudMsg[s]
           new == [old EXCEPT ![id] = o]
<1>1. cloudMsg \in [Source -> Seq(CloudObj)] /\ old \in Seq(CloudObj)
  BY DEF NodeShape
<1>2. cloudMsg'[s] = new /\ \A r \in Source \ {s} : cloudMsg'[r] = cloudMsg[r]
  BY <1>1
<1>3. /\ new \in Seq(CloudObj) /\ Len(new) = Len(old) /\ new[id] = o
      /\ \A i \in DOMAIN old \ {id} : new[i] = old[i]
  BY <1>1
<1>4. cloudMsg' \in [Source -> Seq(CloudObj)]
  BY <1>1, <1>3
<1>5. QED
  BY <1>2, <1>3, <1>4

LEMMA ObjectExtents ==
  ASSUME NEW o \in CloudObj, NEW a, NEW b
  PROVE  [o EXCEPT !.height = a, !.width = b] = [points |-> o.points, width |-> b, height |-> a]
<1>1. o = [points |-> o.points, width |-> o.width, height |-> o.height]
  BY DEF CloudObj
<1> DEFINE x == [o EXCEPT !.height = a]
<1>2. x = [points |-> o.points, width |-> o.width, height |-> a]
  BY <1>1
<1> DEFINE y == [x EXCEPT !.width = b]
<1> HIDE DEF x
<1>3. y = [points |-> o.points, width |-> b, height |-> a]
  BY <1>2
<1>4. y = [o EXCEPT !.height = a, !.width = b]
  BY DEF x
<1>5. QED
  BY <1>3, <1>4

LEMMA SplitNode ==
  ASSUME NodeInv, NEW s \in Source, splitFrame(s)
  PROVE  NodeInv'
<1> DEFINE id == point_cloud_[s]
           old == cloudMsg[s][id]
           dense == config.dense_points
           h == IF dense THEN 1 ELSE Channels
           o == [points |-> old.points, width |-> Len(old.points) \div h, height |-> h]
           w == OnTheWay(s)
           q == pkt_queue_[s]
<1>0. NodeShape /\ SourceInv(s)
  BY DEF NodeInv
<1>1. /\ packets[s] \in Seq(PacketMsg) /\ q \in Seq(Nat \ {0}) /\ sent[s] \in Nat /\ prevFrame[s] \in Nat
      /\ cloudMsg[s] \in Seq(CloudObj) /\ id \in Nat /\ point_cloud_queue_[s] \in Seq(Nat) /\ dense \in BOOLEAN
  BY <1>0, SourceTypes
<1>2. /\ start_flag_[s] /\ id # NoMsg /\ q # <<>> /\ FrameOfPkt(Head(q)) # prevFrame[s]
      /\ Len(old.points) > 0
      /\ cloudMsg' = [cloudMsg EXCEPT ![s][id].height = h, ![s][id].width = Len(old.points) \div h]
      /\ point_cloud_queue_' = [point_cloud_queue_ EXCEPT ![s] = IF Len(@) < CloudQueue THEN Append(@, id) ELSE @]
      /\ point_cloud_' = [point_cloud_ EXCEPT ![s] = NoMsg]
      /\ UNCHANGED <<config, node, at, inputVars, pkt_queue_, start_flag_, prevFrame,
                     free_point_cloud_queue_, threadVars, clouds, packets>>
  BY DEF splitFrame, putPointCloud, Handling, Begins
<1>3. start_flag_[s] = TRUE
  BY <1>0, <1>2, SourceTypes
<1>4. /\ PacketFlow(packets[s], q, sent[s], prevFrame[s])
      /\ Owned(id, Len(cloudMsg[s]), w, OnTheWayBack(s))
      /\ CloudsInv(dense, send_by_rows_, TRUE, packets[s], q, sent[s], prevFrame[s], id, cloudMsg[s], w, clouds[s])
      /\ Limits(s) /\ Phase(s)
  BY <1>0, <1>3 DEF SourceInv
<1>5. /\ id \in DOMAIN cloudMsg[s] /\ w \in Seq(Nat)
      /\ \A i \in DOMAIN w : w[i] # id /\ w[i] \in DOMAIN cloudMsg[s]
  BY <1>1, <1>2, <1>4 DEF Owned, NoMsg
<1>6. old \in CloudObj /\ old = [points |-> old.points, width |-> old.width, height |-> old.height]
  <2>1. old \in CloudObj
    BY <1>1, <1>5
  <2>2. QED
    BY <2>1 DEF CloudObj
<1>7. old.points \in Seq(NodePoint) /\ old.points # <<>>
  <2>1. old.points \in Seq(NodePoint)
    BY <1>6 DEF CloudObj
  <2>2. QED
    BY <1>2, <2>1
<1>8. h \in Nat /\ Len(old.points) \div h \in Nat
  <2>1. Gathered(dense, packets[s], old.points, prevFrame[s])
    BY <1>2, <1>4, <1>7 DEF CloudsInv, Filling
  <2>2. QED
    BY <1>1, <1>7, <2>1, Extents
<1> HIDE DEF h
<1>9. o \in CloudObj
  BY <1>7, <1>8 DEF CloudObj
<1>10. cloudMsg' = [cloudMsg EXCEPT ![s] = [@ EXCEPT ![id] = o]]
  <2> DEFINE width == Len(old.points) \div h
  <2>1. cloudMsg' = [cloudMsg EXCEPT ![s][id].height = h, ![s][id].width = width]
    BY <1>2 DEF h
  <2> HIDE DEF width, NoMsg
  <2>2. [old EXCEPT !.height = h, !.width = width] = [points |-> old.points, width |-> width, height |-> h]
    <3> HIDE DEF old, width, h
    <3>1. old \in CloudObj
      BY <1>6
    <3>2. QED
      BY <3>1, ObjectExtents, Zenon
  <2>3. QED
    BY <2>1, <2>2, <1>0, <1>1, <1>5 DEF NodeShape, width
<1> HIDE DEF o
<1>11. /\ cloudMsg' \in [Source -> Seq(CloudObj)]
       /\ Len(cloudMsg'[s]) = Len(cloudMsg[s]) /\ cloudMsg'[s][id] = o
       /\ \A i \in DOMAIN cloudMsg[s] \ {id} : cloudMsg'[s][i] = cloudMsg[s][i]
       /\ \A r \in Source \ {s} : cloudMsg'[r] = cloudMsg[r]
  BY <1>0, <1>5, <1>9, <1>10, ObjectChanged
<1> HIDE DEF id, q
<1>12. /\ point_cloud_queue_'[s] \in {point_cloud_queue_[s], Append(point_cloud_queue_[s], id)}
       /\ Len(point_cloud_queue_'[s]) <= CloudQueue /\ point_cloud_queue_' \in [Source -> Seq(Nat)]
       /\ point_cloud_'[s] = NoMsg /\ point_cloud_' \in [Source -> Nat]
       /\ \A r \in Source \ {s} : point_cloud_queue_'[r] = point_cloud_queue_[r] /\ point_cloud_'[r] = point_cloud_[r]
  <2>0. /\ Len(point_cloud_queue_[s]) <= CloudQueue /\ CloudQueue \in Nat
        /\ point_cloud_queue_ \in [Source -> Seq(Nat)] /\ point_cloud_ \in [Source -> Nat]
    BY <1>0, <1>4, NodeAssumption DEF Limits, NodeShape
  <2> DEFINE pq == point_cloud_queue_[s]
             new == IF Len(pq) < CloudQueue THEN Append(pq, id) ELSE pq
  <2>1. pq \in Seq(Nat) /\ new \in Seq(Nat) /\ new \in {pq, Append(pq, id)} /\ Len(new) <= CloudQueue
    <3>1. Append(pq, id) \in Seq(Nat) /\ Len(Append(pq, id)) = Len(pq) + 1 /\ Len(pq) \in Nat
      BY <1>1
    <3>2. QED
      BY <1>1, <2>0, <3>1
  <2>2. point_cloud_queue_' = [point_cloud_queue_ EXCEPT ![s] = new]
    BY <1>2 DEF id
  <2> HIDE DEF new
  <2>3. point_cloud_queue_'[s] = new /\ \A r \in Source \ {s} : point_cloud_queue_'[r] = point_cloud_queue_[r]
    BY <2>0, <2>2
  <2>4. point_cloud_queue_' \in [Source -> Seq(Nat)]
    BY <2>0, <2>1, <2>2
  <2>5. point_cloud_'[s] = NoMsg /\ point_cloud_' \in [Source -> Nat] /\ \A r \in Source \ {s} : point_cloud_'[r] = point_cloud_[r]
    BY <1>2, <2>0 DEF NoMsg
  <2>6. QED
    BY <2>1, <2>3, <2>4, <2>5
<1>13. NodeShape'
  <2> HIDE DEF CloudObj, CloudOut, PacketMsg, Source
  <2>1. QED
    BY <1>0, <1>2, <1>11, <1>12 DEF NodeShape, threadVars, inputVars
<1>14. ASSUME NEW r \in Source \ {s} PROVE SourceInv(r)'
  <2>1. SameObjects(r) /\ SameThread(r) /\ SamePackets(r) /\ Forward
    BY <1>2, <1>11, <1>12 DEF SameObjects, SameThread, SamePackets, Forward, threadVars, inputVars
  <2>2. QED
    BY <2>1, SourceKept DEF NodeInv
<1>15. SourceInv(s)'
  <2>1. OnTheWay(s)' \in {w, Append(w, id)} /\ OnTheWayBack(s)' = OnTheWayBack(s) /\ send_by_rows_' = send_by_rows_
    <3>1. OnTheWayBack(s)' = OnTheWayBack(s) /\ send_by_rows_' = send_by_rows_ /\ processing' = processing /\ msg' = msg
      BY <1>2 DEF threadVars, send_by_rows_, OnTheWayBack
    <3> DEFINE front == IF processing[s] = "send" THEN <<msg[s]>> ELSE <<>>
    <3>2. front \in Seq(Nat) /\ id \in Nat
      BY <1>0, <1>1, SourceTypes DEF id
    <3>3. w = front \o point_cloud_queue_[s] /\ OnTheWay(s)' = front \o point_cloud_queue_'[s]
      BY <3>1 DEF OnTheWay
    <3> HIDE DEF front, w
    <3>4. front \o Append(point_cloud_queue_[s], id) = Append(front \o point_cloud_queue_[s], id)
      <4>1. \A a, b \in Seq(Nat), x \in Nat : a \o Append(b, x) = Append(a \o b, x)
        BY AppendLast
      <4>2. point_cloud_queue_[s] \in Seq(Nat)
        BY <1>1
      <4>3. QED
        BY <3>2, <4>1, <4>2
    <3>5. QED
      BY <1>12, <3>1, <3>3, <3>4
  <2>2. /\ Owned(NoMsg, Len(cloudMsg[s]), w, OnTheWayBack(s))
        /\ Owned(NoMsg, Len(cloudMsg[s]), Append(w, id), OnTheWayBack(s))
    <3>1. Len(cloudMsg[s]) \in Nat /\ id \in Nat /\ id # NoMsg
      BY <1>1, <1>2 DEF id
    <3>2. QED
      BY <1>4, <3>1, OwnedPut DEF id
  <2>3. /\ CloudsInv(dense, send_by_rows_, TRUE, packets[s], q, sent[s], prevFrame[s], NoMsg, cloudMsg'[s], w, clouds[s])
        /\ CloudsInv(dense, send_by_rows_, TRUE, packets[s], q, sent[s], prevFrame[s], NoMsg, cloudMsg'[s], Append(w, id), clouds[s])
    <3>1. /\ \A i \in DOMAIN w : cloudMsg'[s][w[i]] = cloudMsg[s][w[i]]
          /\ cloudMsg'[s][id].points = cloudMsg[s][id].points
          /\ cloudMsg'[s][id].height = (IF dense THEN 1 ELSE Channels)
          /\ cloudMsg'[s][id].width = Len(cloudMsg[s][id].points) \div (IF dense THEN 1 ELSE Channels)
      BY <1>5, <1>11 DEF o, h, id
    <3>2. PacketFlow(packets[s], q, sent[s], prevFrame[s]) /\ q # <<>> /\ FrameOfPkt(Head(q)) # prevFrame[s]
      BY <1>2, <1>4 DEF q
    <3>3. id \in Nat /\ id # NoMsg /\ id \in DOMAIN cloudMsg[s] /\ cloudMsg[s][id].points # <<>> /\ \A i \in DOMAIN w : w[i] # id
      BY <1>1, <1>2, <1>5, <1>7 DEF id
    <3>4. CloudsInv(dense, send_by_rows_, TRUE, packets[s], q, sent[s], prevFrame[s], id, cloudMsg[s], w, clouds[s])
      BY <1>4 DEF q, id
    <3>5. q \in Seq(Nat \ {0}) /\ sent[s] \in Nat /\ w \in Seq(Nat)
      BY <1>1, <1>5 DEF q
    <3> HIDE DEF dense, w, old
    <3>6. QED
      BY <1>1, <3>1, <3>2, <3>3, <3>4, <3>5, CloudsSplit
  <2>4. Limits(s)' /\ Phase(s)'
    <3>1. start_flag_'[s] /\ node' = node /\ point_cloud_'[s] = NoMsg /\ msg' = msg /\ pkt_queue_' = pkt_queue_
      BY <1>2, <1>12 DEF threadVars
    <3>2. Limits(s)'
      BY <1>4, <1>11, <1>12, <3>1 DEF Limits
    <3>3. node # "init"
      BY <1>2, <1>4 DEF Phase
    <3>4. QED
      BY <3>1, <3>2, <3>3 DEF Phase
  <2> HIDE DEF w, dense
  <2>5. /\ packets' = packets /\ pkt_queue_' = pkt_queue_ /\ sent' = sent /\ prevFrame' = prevFrame
        /\ start_flag_'[s] = TRUE /\ clouds' = clouds /\ dense' = dense
    BY <1>2, <1>3 DEF inputVars, dense
  <2>6. CloudsInv(dense, send_by_rows_, start_flag_[s], packets[s], q, sent[s], prevFrame[s],
                  point_cloud_[s], cloudMsg[s], OnTheWay(s), clouds[s])'
    BY <1>12, <2>1, <2>3, <2>5 DEF q
  <2>7. Owned(point_cloud_[s], Len(cloudMsg[s]), OnTheWay(s), OnTheWayBack(s))'
    BY <1>11, <1>12, <2>1, <2>2
  <2>8. PacketFlow(packets[s], pkt_queue_[s], sent[s], prevFrame[s])'
    BY <1>4, <2>5 DEF q
  <2>9. QED
    BY <2>4, <2>6, <2>7, <2>8 DEF SourceInv, dense, q
<1>16. QED
  BY <1>13, <1>14, <1>15 DEF NodeInv

\* The object being filled has its points replaced.
LEMMA ObjectPoints ==
  ASSUME NEW o \in CloudObj, NEW x \in Seq(NodePoint)
  PROVE  [o EXCEPT !.points = x] \in CloudObj /\ [o EXCEPT !.points = x].points = x
<1>1. o = [points |-> o.points, width |-> o.width, height |-> o.height] /\ o.width \in Nat /\ o.height \in Nat
  BY DEF CloudObj
<1>2. [o EXCEPT !.points = x] = [points |-> x, width |-> o.width, height |-> o.height]
  BY <1>1
<1> DEFINE y == [o EXCEPT !.points = x]
<1>3. y = [points |-> x, width |-> o.width, height |-> o.height]
  BY <1>2
<1> HIDE DEF y
<1>4. y \in CloudObj /\ y.points = x
  BY <1>1, <1>3 DEF CloudObj
<1>5. QED
  BY <1>4 DEF y

\* getPointCloud: an object that is on its way back, or a new one.
LEMMA GetObject ==
  ASSUME NodeShape, NEW s \in Source, SourceInv(s), getPointCloud(s)
  PROVE  /\ point_cloud_' \in [Source -> Nat] /\ cloudMsg' \in [Source -> Seq(CloudObj)]
         /\ free_point_cloud_queue_' \in [Source -> Seq(Nat)]
         /\ \A r \in Source \ {s} : SameObjects(r)
         /\ point_cloud_'[s] \in DOMAIN cloudMsg'[s] /\ cloudMsg'[s][point_cloud_'[s]].points = <<>>
         /\ Len(cloudMsg'[s]) >= Len(cloudMsg[s])
         /\ \A i \in DOMAIN OnTheWay(s) : cloudMsg'[s][OnTheWay(s)[i]] = cloudMsg[s][OnTheWay(s)[i]]
         /\ \/ free_point_cloud_queue_'[s] = free_point_cloud_queue_[s]
               /\ Owned(point_cloud_'[s], Len(cloudMsg'[s]), OnTheWay(s), OnTheWayBack(s))
            \/ free_point_cloud_queue_[s] # <<>> /\ free_point_cloud_queue_'[s] = Tail(free_point_cloud_queue_[s])
               /\ Owned(point_cloud_'[s], Len(cloudMsg'[s]), OnTheWay(s), Tail(OnTheWayBack(s)))
<1> DEFINE free == free_point_cloud_queue_[s]
           old == cloudMsg[s]
           empty == [points |-> <<>>, width |-> 0, height |-> 0]
           w == OnTheWay(s)
           r == OnTheWayBack(s)
           back == IF processing[s] = "recycle" THEN <<msg[s]>> ELSE <<>>
<1>1. /\ old \in Seq(CloudObj) /\ free \in Seq(Nat) /\ Len(old) \in Nat
      /\ back \in Seq(Nat) /\ r = free \o back
  BY SourceTypes DEF OnTheWayBack
<1>2. /\ point_cloud_ \in [Source -> Nat] /\ cloudMsg \in [Source -> Seq(CloudObj)]
      /\ free_point_cloud_queue_ \in [Source -> Seq(Nat)]
  BY DEF NodeShape
<1>3. Owned(point_cloud_[s], Len(old), w, r)
  BY DEF SourceInv
<1>4. empty \in CloudObj /\ empty.points = <<>>
  <2>1. <<>> \in Seq(NodePoint)
    OBVIOUS
  <2>2. QED
    BY <2>1 DEF CloudObj
<1> HIDE DEF back, w, r, empty
<1>5. CASE free = <<>>
  <2>1. /\ point_cloud_' = [point_cloud_ EXCEPT ![s] = Len(old) + 1]
        /\ cloudMsg' = [cloudMsg EXCEPT ![s] = Append(old, empty)]
        /\ free_point_cloud_queue_' = [free_point_cloud_queue_ EXCEPT ![s] = free]
    BY <1>5 DEF getPointCloud, empty
  <2> DEFINE new == Append(old, empty)
  <2>2. /\ new \in Seq(CloudObj) /\ Len(new) = Len(old) + 1 /\ new[Len(old) + 1] = empty
        /\ \A i \in DOMAIN old : new[i] = old[i]
    <3> HIDE DEF CloudObj
    <3>1. QED
      BY <1>1, <1>4
  <2> HIDE DEF new
  <2>3. /\ point_cloud_'[s] = Len(old) + 1 /\ point_cloud_' \in [Source -> Nat]
        /\ \A x \in Source \ {s} : point_cloud_'[x] = point_cloud_[x]
    BY <1>1, <1>2, <2>1
  <2>4. /\ cloudMsg'[s] = new /\ cloudMsg' \in [Source -> Seq(CloudObj)]
        /\ \A x \in Source \ {s} : cloudMsg'[x] = cloudMsg[x]
    <3> HIDE DEF CloudObj
    <3>1. cloudMsg' = [cloudMsg EXCEPT ![s] = new]
      BY <2>1 DEF new
    <3>2. QED
      BY <1>2, <2>2, <3>1
  <2>5. free_point_cloud_queue_' = free_point_cloud_queue_
    BY <1>2, <2>1
  <2>6. Owned(Len(old) + 1, Len(old) + 1, w, r)
    BY <1>1, <1>3, OwnedGet
  <2>7. \A i \in DOMAIN w : w[i] \in DOMAIN old
    BY <1>1, <1>3 DEF Owned
  <2>8. Len(old) + 1 \in DOMAIN new /\ Len(new) >= Len(old)
    <3> HIDE DEF old
    <3>1. QED
      BY <1>1, <2>2
  <2> HIDE DEF old
  <2>9. free_point_cloud_queue_'[s] = free_point_cloud_queue_[s] /\ Owned(point_cloud_'[s], Len(cloudMsg'[s]), w, r)
    BY <2>2, <2>3, <2>4, <2>5, <2>6
  <2>10. \A i \in DOMAIN w : cloudMsg'[s][w[i]] = cloudMsg[s][w[i]]
    BY <2>2, <2>4, <2>7 DEF old
  <2>11. /\ point_cloud_'[s] \in DOMAIN cloudMsg'[s] /\ cloudMsg'[s][point_cloud_'[s]].points = <<>>
         /\ Len(cloudMsg'[s]) >= Len(cloudMsg[s])
    BY <1>4, <2>2, <2>3, <2>4, <2>8 DEF old
  <2>12. \A x \in Source \ {s} : SameObjects(x)
    BY <2>3, <2>4, <2>5 DEF SameObjects
  <2>13. free_point_cloud_queue_' \in [Source -> Seq(Nat)]
    BY <1>2, <2>5
  <2> HIDE DEF free
  <2>14. QED
    BY <2>3, <2>4, <2>9, <2>10, <2>11, <2>12, <2>13 DEF w, r
<1>6. CASE free # <<>>
  <2> DEFINE id == Head(free)
  <2>1. /\ point_cloud_' = [point_cloud_ EXCEPT ![s] = id]
        /\ cloudMsg' = [cloudMsg EXCEPT ![s] = [@ EXCEPT ![id].points = <<>>]]
        /\ free_point_cloud_queue_' = [free_point_cloud_queue_ EXCEPT ![s] = Tail(free)]
    BY <1>6 DEF getPointCloud
  <2>2. r # <<>> /\ Head(r) = id /\ id \in Nat /\ Tail(free) \in Seq(Nat)
    <3> HIDE DEF free
    <3>1. Len(free) > 0 /\ Len(free \o back) = Len(free) + Len(back) /\ Len(back) \in Nat /\ Len(free) \in Nat
      BY <1>1, <1>6
    <3>2. free \o back # <<>> /\ Head(free \o back) = Head(free) /\ Head(free) \in Nat /\ Tail(free) \in Seq(Nat)
      BY <1>1, <1>6, <3>1
    <3>3. QED
      BY <1>1, <3>2
  <2> HIDE DEF id
  <2>3. Owned(id, Len(old), w, Tail(r))
    BY <1>1, <1>3, <2>2, OwnedGet
  <2>4. id \in DOMAIN old /\ \A i \in DOMAIN w : w[i] \in DOMAIN old /\ w[i] # id
    <3>1. 1 \in DOMAIN r /\ id = r[1]
      BY <1>3, <2>2, Removed DEF Owned
    <3>2. id \in 1 .. Len(old) /\ (\A i \in DOMAIN w : w[i] \in 1 .. Len(old)) /\ \A i \in DOMAIN w : w[i] # id
      BY <1>3, <3>1 DEF Owned
    <3> HIDE DEF CloudObj, old
    <3>3. DOMAIN old = 1 .. Len(old)
      BY <1>1
    <3>4. QED
      BY <3>2, <3>3
  <2> DEFINE o == [old[id] EXCEPT !.points = <<>>]
  <2>5. old[id] \in CloudObj
    BY <1>1, <2>4
  <2>6. o \in CloudObj /\ o.points = <<>>
    <3>1. <<>> \in Seq(NodePoint)
      OBVIOUS
    <3>2. QED
      BY <2>5, <3>1, ObjectPoints
  <2>7. cloudMsg' = [cloudMsg EXCEPT ![s] = [@ EXCEPT ![id] = o]]
    BY <2>1
  <2> HIDE DEF o
  <2>8. /\ cloudMsg' \in [Source -> Seq(CloudObj)]
        /\ Len(cloudMsg'[s]) = Len(old) /\ cloudMsg'[s][id] = o
        /\ \A i \in DOMAIN old \ {id} : cloudMsg'[s][i] = old[i]
        /\ \A x \in Source \ {s} : cloudMsg'[x] = cloudMsg[x]
    BY <2>4, <2>6, <2>7, ObjectChanged
  <2>9. /\ point_cloud_'[s] = id /\ point_cloud_' \in [Source -> Nat]
        /\ \A x \in Source \ {s} : point_cloud_'[x] = point_cloud_[x]
    BY <1>2, <2>1, <2>2
  <2>10. /\ free_point_cloud_queue_'[s] = Tail(free) /\ free_point_cloud_queue_' \in [Source -> Seq(Nat)]
         /\ \A x \in Source \ {s} : free_point_cloud_queue_'[x] = free_point_cloud_queue_[x]
    BY <1>2, <2>1, <2>2
  <2>11. id \in DOMAIN cloudMsg'[s] /\ cloudMsg'[s][id].points = <<>> /\ Len(cloudMsg'[s]) >= Len(old)
    <3> HIDE DEF CloudObj
    <3>1. cloudMsg'[s] \in Seq(CloudObj)
      BY <2>8
    <3>2. DOMAIN cloudMsg'[s] = 1 .. Len(cloudMsg'[s]) /\ DOMAIN old = 1 .. Len(old)
      BY <1>1, <3>1
    <3>3. QED
      BY <1>1, <2>4, <2>6, <2>8, <3>2
  <2>12. \A i \in DOMAIN w : cloudMsg'[s][w[i]] = old[w[i]]
    BY <2>4, <2>8
  <2>13. Owned(point_cloud_'[s], Len(cloudMsg'[s]), w, Tail(r))
    BY <2>3, <2>8, <2>9
  <2> HIDE DEF old, free
  <2>14. QED
    BY <1>6, <2>8, <2>9, <2>10, <2>11, <2>12, <2>13 DEF SameObjects, w, r, old, free
<1>7. QED
  BY <1>5, <1>6

LEMMA NextCloudNode ==
  ASSUME NodeInv, NEW s \in Source, NextCloud(s)
  PROVE  NodeInv'
<1> DEFINE w == OnTheWay(s)
           dense == config.dense_points
<1>0. NodeShape /\ SourceInv(s)
  BY DEF NodeInv
<1>1. /\ start_flag_[s] /\ point_cloud_[s] = NoMsg /\ getPointCloud(s)
      /\ UNCHANGED <<config, node, at, inputVars, pkt_queue_, start_flag_, prevFrame,
                     point_cloud_queue_, threadVars, clouds, packets>>
  BY DEF NextCloud
<1>2. /\ point_cloud_' \in [Source -> Nat] /\ cloudMsg' \in [Source -> Seq(CloudObj)]
      /\ free_point_cloud_queue_' \in [Source -> Seq(Nat)]
      /\ \A r \in Source \ {s} : SameObjects(r)
      /\ point_cloud_'[s] \in DOMAIN cloudMsg'[s] /\ cloudMsg'[s][point_cloud_'[s]].points = <<>>
      /\ Len(cloudMsg'[s]) >= Len(cloudMsg[s])
      /\ \A i \in DOMAIN w : cloudMsg'[s][w[i]] = cloudMsg[s][w[i]]
      /\ \/ free_point_cloud_queue_'[s] = free_point_cloud_queue_[s]
            /\ Owned(point_cloud_'[s], Len(cloudMsg'[s]), w, OnTheWayBack(s))
         \/ free_point_cloud_queue_[s] # <<>> /\ free_point_cloud_queue_'[s] = Tail(free_point_cloud_queue_[s])
            /\ Owned(point_cloud_'[s], Len(cloudMsg'[s]), w, Tail(OnTheWayBack(s)))
  BY <1>0, <1>1, GetObject
<1>3. NodeShape'
  <2> HIDE DEF CloudObj, CloudOut, PacketMsg, Source
  <2>1. QED
    BY <1>0, <1>1, <1>2 DEF NodeShape, threadVars, inputVars
<1>4. ASSUME NEW r \in Source \ {s} PROVE SourceInv(r)'
  <2>1. SameObjects(r) /\ SameThread(r) /\ SamePackets(r) /\ Forward
    BY <1>1, <1>2 DEF SameThread, SamePackets, Forward, threadVars, inputVars
  <2>2. QED
    BY <2>1, SourceKept DEF NodeInv
<1>5. OnTheWay(s)' = w /\ send_by_rows_' = send_by_rows_ /\ dense' = dense
  BY <1>1 DEF OnTheWay, send_by_rows_, threadVars
<1>6. Owned(point_cloud_[s], Len(cloudMsg[s]), OnTheWay(s), OnTheWayBack(s))'
  <2> DEFINE free == free_point_cloud_queue_[s]
             back == IF processing[s] = "recycle" THEN <<msg[s]>> ELSE <<>>
  <2>1. /\ OnTheWayBack(s) = free \o back
        /\ OnTheWayBack(s)' = free_point_cloud_queue_'[s] \o back
    BY <1>1 DEF OnTheWayBack, threadVars
  <2>2. free \in Seq(Nat) /\ back \in Seq(Nat)
    BY <1>0, SourceTypes
  <2> HIDE DEF free, back
  <2>3. free # <<>> => Tail(free \o back) = Tail(free) \o back
    BY <2>2
  <2> HIDE DEF w
  <2>4. QED
    BY <1>2, <1>5, <2>1, <2>3 DEF free
<1>7. CloudsInv(dense, send_by_rows_, start_flag_[s], packets[s], pkt_queue_[s], sent[s], prevFrame[s],
                point_cloud_'[s], cloudMsg'[s], w, clouds[s])
  <2>1. CloudsInv(dense, send_by_rows_, start_flag_[s], packets[s], pkt_queue_[s], sent[s], prevFrame[s],
                  point_cloud_[s], cloudMsg[s], w, clouds[s])
    BY <1>0 DEF SourceInv
  <2> HIDE DEF w, dense
  <2>2. /\ start_flag_[s] => point_cloud_[s] = NoMsg
        /\ cloudMsg'[s][point_cloud_'[s]].points = <<>>
        /\ \A i \in DOMAIN w : cloudMsg'[s][w[i]] = cloudMsg[s][w[i]]
    BY <1>1, <1>2
  <2>3. QED
    BY <2>1, <2>2, CloudsGet
<1>8. Limits(s)' /\ Phase(s)'
  <2>1. node # "init" /\ Limits(s) /\ msg[s] \in Nat
    BY <1>0, <1>1, SourceTypes DEF SourceInv, Phase
  <2>2. msg[s] <= Len(cloudMsg'[s])
    <3>1. Len(cloudMsg[s]) \in Nat /\ Len(cloudMsg'[s]) \in Nat
      <4> HIDE DEF CloudObj, Source
      <4>1. cloudMsg[s] \in Seq(CloudObj) /\ cloudMsg'[s] \in Seq(CloudObj)
        BY <1>0, <1>2 DEF NodeShape
      <4>2. QED
        BY <4>1
    <3>2. QED
      BY <1>2, <2>1, <3>1 DEF Limits
  <2>3. QED
    BY <1>1, <2>1, <2>2 DEF Limits, Phase, threadVars
<1> HIDE DEF w, dense
<1>9. CloudsInv(dense, send_by_rows_, start_flag_[s], packets[s], pkt_queue_[s], sent[s],
                prevFrame[s], point_cloud_[s], cloudMsg[s], OnTheWay(s), clouds[s])'
  BY <1>1, <1>5, <1>7 DEF inputVars
<1>10. PacketFlow(packets[s], pkt_queue_[s], sent[s], prevFrame[s])'
  BY <1>0, <1>1 DEF SourceInv, inputVars
<1>11. SourceInv(s)'
  BY <1>6, <1>8, <1>9, <1>10 DEF SourceInv, dense
<1>12. QED
  BY <1>3, <1>4, <1>11 DEF NodeInv

LEMMA HandleNode ==
  ASSUME NodeInv, NEW s \in Source, internalProcessPacket(s)
  PROVE  NodeInv'
<1> DEFINE id == point_cloud_[s]
           objs == cloudMsg[s]
           dense == config.dense_points
           q == pkt_queue_[s]
           k == Head(q)
           f == FrameOfPkt(k)
           m == [pkt |-> k, is_frame_begin |-> prevFrame[s] # 0 /\ f # prevFrame[s]]
           more == PointsOf(dense, k)
           o == [objs[id] EXCEPT !.points = objs[id].points \o more]
           w == OnTheWay(s)
<1>0. NodeShape /\ SourceInv(s)
  BY DEF NodeInv
<1>1. /\ packets[s] \in Seq(PacketMsg) /\ q \in Seq(Nat \ {0}) /\ sent[s] \in Nat /\ prevFrame[s] \in Nat
      /\ objs \in Seq(CloudObj) /\ id \in Nat /\ clouds[s] \in Seq(CloudOut) /\ dense \in BOOLEAN
  BY <1>0, SourceTypes
<1>2. /\ start_flag_[s] /\ id # NoMsg /\ q # <<>>
      /\ (prevFrame[s] # 0 /\ f # prevFrame[s] => objs[id].points = <<>>)
      /\ cloudMsg' = [cloudMsg EXCEPT ![s][id].points = @ \o DecodedPoints(k)]
      /\ prevFrame' = [prevFrame EXCEPT ![s] = f]
      /\ pkt_queue_' = [pkt_queue_ EXCEPT ![s] = Tail(q)]
      /\ packets' = [packets EXCEPT ![s] = Append(packets[s], m)]
      /\ UNCHANGED <<config, node, at, inputVars, start_flag_, point_cloud_,
                     free_point_cloud_queue_, point_cloud_queue_, threadVars, clouds>>
  BY DEF internalProcessPacket, Handling, Begins, sendPacket, PacketToRosMsg
<1>3. start_flag_[s] = TRUE
  BY <1>0, <1>2, SourceTypes
<1>4. /\ PacketFlow(packets[s], q, sent[s], prevFrame[s])
      /\ Owned(id, Len(objs), w, OnTheWayBack(s))
      /\ CloudsInv(dense, send_by_rows_, TRUE, packets[s], q, sent[s], prevFrame[s], id, objs, w, clouds[s])
      /\ Limits(s) /\ Phase(s)
  BY <1>0, <1>3 DEF SourceInv
<1>5. /\ id \in DOMAIN objs /\ w \in Seq(Nat)
      /\ \A i \in DOMAIN w : w[i] # id /\ w[i] \in DOMAIN objs
  BY SMTT(30), <1>1, <1>2, <1>4 DEF Owned, NoMsg
<1>6. objs[id] \in CloudObj
  BY <1>1, <1>5
<1>7. k \in Nat \ {0} /\ f \in Nat \ {0}
  <2>1. k \in Nat \ {0}
    BY <1>1, <1>2
  <2> HIDE DEF k
  <2>2. QED
    BY <2>1, FrameNumber
<1>8. m \in PacketMsg /\ m.pkt = k /\ (m.is_frame_begin <=> prevFrame[s] # 0 /\ f # prevFrame[s])
  <2> HIDE DEF k, f
  <2>1. QED
    BY <1>7 DEF PacketMsg
<1>9. o \in CloudObj /\ o.points = objs[id].points \o more
  <2>1. more \in Seq(NodePoint)
    BY <1>1, <1>7, PointsShape
  <2>2. objs[id].points \in Seq(NodePoint)
    BY <1>6 DEF CloudObj
  <2> DEFINE x == objs[id].points \o more
  <2>3. x \in Seq(NodePoint)
    <3> HIDE DEF NodePoint, more, objs
    <3>1. QED
      BY <2>1, <2>2
  <2> HIDE DEF x
  <2>4. [objs[id] EXCEPT !.points = x] \in CloudObj /\ [objs[id] EXCEPT !.points = x].points = x
    BY <1>6, <2>3, ObjectPoints
  <2>5. QED
    BY <2>4 DEF x
<1>10. cloudMsg' = [cloudMsg EXCEPT ![s] = [@ EXCEPT ![id] = o]]
  <2>1. DecodedPoints(k) = more
    BY DEF DecodedPoints, PointsOf
  <2>2. cloudMsg' = [cloudMsg EXCEPT ![s][id].points = @ \o more]
    BY <1>2, <2>1
  <2>3. cloudMsg \in [Source -> Seq(CloudObj)]
    BY <1>0 DEF NodeShape
  <2> HIDE DEF more, NoMsg, CloudObj
  <2>4. QED
    BY <2>2, <2>3, <1>5
<1> HIDE DEF o, more
<1>11. /\ cloudMsg' \in [Source -> Seq(CloudObj)]
       /\ Len(cloudMsg'[s]) = Len(objs) /\ cloudMsg'[s][id] = o
       /\ \A i \in DOMAIN objs \ {id} : cloudMsg'[s][i] = objs[i]
       /\ \A r \in Source \ {s} : cloudMsg'[r] = cloudMsg[r]
  BY <1>0, <1>5, <1>9, <1>10, ObjectChanged
<1> HIDE DEF id, q, k, f, m, objs, w, dense
<1>12. /\ prevFrame'[s] = f /\ prevFrame' \in [Source -> Nat]
       /\ pkt_queue_'[s] = Tail(q) /\ pkt_queue_' \in [Source -> Seq(Nat \ {0})]
       /\ packets'[s] = Append(packets[s], m) /\ packets' \in [Source -> Seq(PacketMsg)]
       /\ \A r \in Source \ {s} : prevFrame'[r] = prevFrame[r] /\ pkt_queue_'[r] = pkt_queue_[r] /\ packets'[r] = packets[r]
  <2>1. /\ prevFrame \in [Source -> Nat] /\ pkt_queue_ \in [Source -> Seq(Nat \ {0})]
        /\ packets \in [Source -> Seq(PacketMsg)]
    BY <1>0 DEF NodeShape
  <2>2. Tail(q) \in Seq(Nat \ {0})
    BY <1>1, <1>2
  <2> HIDE DEF PacketMsg
  <2>3. Append(packets[s], m) \in Seq(PacketMsg)
    BY <1>1, <1>8
  <2>4. QED
    BY <1>2, <1>7, <2>1, <2>2, <2>3
<1>13. NodeShape'
  <2> HIDE DEF CloudObj, CloudOut, PacketMsg, Source
  <2>1. QED
    BY <1>0, <1>2, <1>11, <1>12 DEF NodeShape, threadVars, inputVars
<1>14. ASSUME NEW r \in Source \ {s} PROVE SourceInv(r)'
  <2>1. SameObjects(r) /\ SameThread(r) /\ SamePackets(r) /\ Forward
    BY <1>2, <1>11, <1>12 DEF SameObjects, SameThread, SamePackets, Forward, threadVars, inputVars
  <2>2. QED
    BY <2>1, SourceKept DEF NodeInv
<1>15. OnTheWay(s)' = w /\ OnTheWayBack(s)' = OnTheWayBack(s) /\ send_by_rows_' = send_by_rows_ /\ dense' = dense
  BY <1>2 DEF OnTheWay, OnTheWayBack, send_by_rows_, threadVars, w, dense
<1>16. PacketFlow(packets'[s], Tail(q), sent[s], f)
  <2>1. PacketFlow(Append(packets[s], m), Tail(q), sent[s], FrameOfPkt(Head(q)))
    BY <1>1, <1>2, <1>4, <1>8, FlowHandled DEF f, k
  <2>2. QED
    BY <1>12, <2>1 DEF f, k
<1>17. CloudsInv(dense, send_by_rows_, TRUE, packets'[s], Tail(q), sent[s], f, id, cloudMsg'[s], w, clouds[s])
  <2>0. ASSUME prevFrame[s] = 0 PROVE objs[id].points = <<>>
    <3>1. CloudsInv(dense, send_by_rows_, TRUE, packets[s], q, sent[s], prevFrame[s], id, objs, w, clouds[s])
      BY <1>4
    <3>2. PacketFlow(packets[s], q, sent[s], prevFrame[s]) /\ packets[s] \in Seq(PacketMsg)
      BY <1>1, <1>4
    <3> HIDE DEF PacketMsg, CloudObj, NoMsg
    <3>3. QED
      BY Zenon, <1>2, <1>6, <2>0, <3>1, <3>2, NothingYet
  <2>1. m.pkt = Head(q) /\ (FrameOfPkt(Head(q)) # prevFrame[s] => objs[id].points = <<>>)
    BY <1>2, <1>8, <2>0 DEF f, k
  <2>2. \A i \in DOMAIN w : w[i] \in DOMAIN objs /\ cloudMsg'[s][w[i]] = objs[w[i]]
    BY <1>5, <1>11
  <2>3. cloudMsg'[s][id].points = objs[id].points \o PointsOf(dense, Head(q))
    BY <1>9, <1>11 DEF more, k
  <2>4. CloudsInv(dense, send_by_rows_, TRUE, Append(packets[s], m), Tail(q), sent[s], FrameOfPkt(Head(q)), id, cloudMsg'[s], w, clouds[s])
    BY <1>1, <1>2, <1>4, <1>5, <1>8, <2>1, <2>2, <2>3, CloudsHandle
  <2>5. QED
    BY <1>12, <2>4 DEF f, k
<1>18. Limits(s)' /\ Phase(s)'
  <2>1. start_flag_'[s] /\ node' = node /\ msg' = msg /\ point_cloud_queue_' = point_cloud_queue_
    BY <1>2 DEF threadVars
  <2>2. Len(pkt_queue_'[s]) <= PktQueue
    <3>1. Len(q) <= PktQueue /\ PktQueue \in Nat
      BY <1>4, NodeAssumption DEF Limits, q
    <3>2. Len(Tail(q)) <= Len(q) /\ Len(q) \in Nat /\ Len(Tail(q)) \in Nat
      BY <1>1, <1>2
    <3> DEFINE a == Len(Tail(q))
               b == Len(q)
    <3> HIDE DEF a, b
    <3>3. a <= PktQueue
      BY <3>1, <3>2 DEF a, b
    <3>4. QED
      BY <1>12, <3>3 DEF a
  <2>3. Limits(s)'
    BY <1>4, <1>11, <2>1, <2>2 DEF Limits, objs
  <2>4. node # "init"
    BY <1>2, <1>4 DEF Phase
  <2>5. QED
    BY <2>1, <2>3, <2>4 DEF Phase
<1>19. SourceInv(s)'
  <2>1. /\ sent' = sent /\ start_flag_'[s] = TRUE /\ clouds' = clouds /\ point_cloud_' = point_cloud_
    BY <1>2, <1>3 DEF inputVars
  <2>2. CloudsInv(dense, send_by_rows_, start_flag_[s], packets[s], pkt_queue_[s], sent[s],
                  prevFrame[s], point_cloud_[s], cloudMsg[s], OnTheWay(s), clouds[s])'
    BY <1>12, <1>15, <1>17, <2>1 DEF id
  <2>3. Owned(point_cloud_[s], Len(cloudMsg[s]), OnTheWay(s), OnTheWayBack(s))'
    BY <1>4, <1>11, <1>15, <2>1 DEF id
  <2>4. PacketFlow(packets[s], pkt_queue_[s], sent[s], prevFrame[s])'
    BY <1>12, <1>16, <2>1
  <2>5. QED
    BY <1>18, <2>2, <2>3, <2>4 DEF SourceInv, dense
<1>20. QED
  BY <1>13, <1>14, <1>19 DEF NodeInv

\* A step of the publishing thread leaves the packets and the objects alone.
LEMMA ThreadStep ==
  ASSUME NodeInv, NEW s \in Source, NEW from, NEW to, ProcessStep(s, from, to),
         to \in {"loop", "wait", "send", "recycle", "ended"}, to \in {"send", "recycle"} => node # "init",
         msg' \in [Source -> Nat], msg'[s] <= Len(cloudMsg[s]),
         free_point_cloud_queue_' \in [Source -> Seq(Nat)],
         point_cloud_queue_' \in [Source -> Seq(Nat)], Len(point_cloud_queue_'[s]) <= CloudQueue,
         node = "init" => /\ free_point_cloud_queue_'[s] = free_point_cloud_queue_[s]
                          /\ point_cloud_queue_'[s] = point_cloud_queue_[s],
         clouds' \in [Source -> Seq(CloudOut)],
         \A r \in Source \ {s} : /\ msg'[r] = msg[r] /\ clouds'[r] = clouds[r]
                                 /\ free_point_cloud_queue_'[r] = free_point_cloud_queue_[r]
                                 /\ point_cloud_queue_'[r] = point_cloud_queue_[r],
         Owned(point_cloud_[s], Len(cloudMsg[s]), OnTheWay(s)', OnTheWayBack(s)'),
         CloudsInv(config.dense_points, send_by_rows_, start_flag_[s], packets[s], pkt_queue_[s], sent[s],
                   prevFrame[s], point_cloud_[s], cloudMsg[s], OnTheWay(s)', clouds'[s])
  PROVE  NodeInv'
<1>0. NodeShape /\ SourceInv(s)
  BY DEF NodeInv
<1>1. /\ processing' = [processing EXCEPT ![s] = to]
      /\ UNCHANGED <<config, node, at, inputVars, pkt_queue_, start_flag_, prevFrame, cloudMsg,
                     point_cloud_, to_exit_process_, packets>>
  BY DEF ProcessStep
<1>2. /\ processing' \in [Source -> {"none", "loop", "wait", "send", "recycle", "ended"}]
      /\ processing'[s] = to /\ \A r \in Source \ {s} : processing'[r] = processing[r]
  <2>1. processing \in [Source -> {"none", "loop", "wait", "send", "recycle", "ended"}]
    BY <1>0 DEF NodeShape
  <2>2. QED
    BY <1>1, <2>1
<1>3. NodeShape'
  <2> HIDE DEF CloudObj, CloudOut, PacketMsg, Source
  <2>1. QED
    BY <1>0, <1>1, <1>2 DEF NodeShape, inputVars
<1>4. ASSUME NEW r \in Source \ {s} PROVE SourceInv(r)'
  <2>1. SameObjects(r) /\ SameThread(r) /\ SamePackets(r) /\ Forward
    BY <1>1, <1>2 DEF SameObjects, SameThread, SamePackets, Forward, inputVars
  <2>2. QED
    BY <2>1, SourceKept DEF NodeInv
<1>5. send_by_rows_' = send_by_rows_ /\ config.dense_points' = config.dense_points
  BY <1>1 DEF send_by_rows_
<1>6. Limits(s)' /\ Phase(s)'
  <2>1. Limits(s) /\ Phase(s)
    BY <1>0 DEF SourceInv
  <2>2. Limits(s)'
    BY <1>1, <2>1 DEF Limits
  <2>3. Phase(s)'
    BY <1>1, <1>2, <2>1 DEF Phase
  <2>4. QED
    BY <2>2, <2>3
<1>7. PacketFlow(packets[s], pkt_queue_[s], sent[s], prevFrame[s])'
  BY <1>0, <1>1 DEF SourceInv, inputVars
<1>8. Owned(point_cloud_[s], Len(cloudMsg[s]), OnTheWay(s), OnTheWayBack(s))'
  BY <1>1
<1>9. CloudsInv(config.dense_points, send_by_rows_, start_flag_[s], packets[s], pkt_queue_[s], sent[s],
                prevFrame[s], point_cloud_[s], cloudMsg[s], OnTheWay(s), clouds[s])'
  BY <1>1, <1>5 DEF inputVars
<1>10. SourceInv(s)'
  BY <1>6, <1>7, <1>8, <1>9 DEF SourceInv
<1>11. QED
  BY <1>3, <1>4, <1>10 DEF NodeInv

\* What SourceInv says of the clouds and of who has which object.
LEMMA SourceParts ==
  ASSUME NodeInv, NEW s \in Source
  PROVE  /\ NodeShape
         /\ Owned(point_cloud_[s], Len(cloudMsg[s]), OnTheWay(s), OnTheWayBack(s))
         /\ CloudsInv(config.dense_points, send_by_rows_, start_flag_[s], packets[s], pkt_queue_[s], sent[s],
                      prevFrame[s], point_cloud_[s], cloudMsg[s], OnTheWay(s), clouds[s])
         /\ Limits(s) /\ Phase(s)
BY DEF NodeInv, SourceInv

LEMMA IdleThreadNode ==
  ASSUME NodeInv, NEW s \in Source, CheckExit(s) \/ PopNothing(s)
  PROVE  NodeInv'
<1>1. PICK from \in {"loop", "wait"}, to \in {"loop", "wait", "ended"} : ProcessStep(s, from, to)
  BY DEF CheckExit, PopNothing
<1>2. UNCHANGED <<msg, free_point_cloud_queue_, point_cloud_queue_, clouds>>
  BY DEF CheckExit, PopNothing
<1>3. /\ Owned(point_cloud_[s], Len(cloudMsg[s]), OnTheWay(s), OnTheWayBack(s))
      /\ CloudsInv(config.dense_points, send_by_rows_, start_flag_[s], packets[s], pkt_queue_[s], sent[s],
                   prevFrame[s], point_cloud_[s], cloudMsg[s], OnTheWay(s), clouds[s])
      /\ Limits(s) /\ NodeShape
  BY SourceParts
<1>4. processing[s] = from /\ processing'[s] = to
  <2>1. processing \in [Source -> {"none", "loop", "wait", "send", "recycle", "ended"}]
    BY <1>3 DEF NodeShape
  <2>2. QED
    BY <1>1, <2>1 DEF ProcessStep
<1>5. OnTheWay(s)' = OnTheWay(s) /\ OnTheWayBack(s)' = OnTheWayBack(s)
  BY <1>2, <1>4 DEF OnTheWay, OnTheWayBack
<1>6. /\ msg' \in [Source -> Nat] /\ free_point_cloud_queue_' \in [Source -> Seq(Nat)]
      /\ point_cloud_queue_' \in [Source -> Seq(Nat)] /\ clouds' \in [Source -> Seq(CloudOut)]
  BY <1>2, <1>3 DEF NodeShape
<1>7. msg'[s] <= Len(cloudMsg[s]) /\ Len(point_cloud_queue_'[s]) <= CloudQueue
  BY <1>2, <1>3 DEF Limits
<1> HIDE DEF CloudOut
<1>8. QED
  BY <1>1, <1>2, <1>3, <1>5, <1>6, <1>7, ThreadStep

LEMMA PopNode ==
  ASSUME NodeInv, NEW s \in Source, PopCloud(s)
  PROVE  NodeInv'
<1> DEFINE pq == point_cloud_queue_[s]
<1>1. /\ pq # <<>> /\ ProcessStep(s, "wait", "send")
      /\ msg' = [msg EXCEPT ![s] = Head(pq)]
      /\ point_cloud_queue_' = [point_cloud_queue_ EXCEPT ![s] = Tail(pq)]
      /\ UNCHANGED <<free_point_cloud_queue_, clouds>>
  BY DEF PopCloud
<1>2. /\ Owned(point_cloud_[s], Len(cloudMsg[s]), OnTheWay(s), OnTheWayBack(s))
      /\ CloudsInv(config.dense_points, send_by_rows_, start_flag_[s], packets[s], pkt_queue_[s], sent[s],
                   prevFrame[s], point_cloud_[s], cloudMsg[s], OnTheWay(s), clouds[s])
      /\ Limits(s) /\ NodeShape /\ Phase(s)
  BY SourceParts
<1>3. /\ pq \in Seq(Nat) /\ msg \in [Source -> Nat] /\ point_cloud_queue_ \in [Source -> Seq(Nat)]
      /\ free_point_cloud_queue_ \in [Source -> Seq(Nat)] /\ clouds \in [Source -> Seq(CloudOut)]
      /\ processing \in [Source -> {"none", "loop", "wait", "send", "recycle", "ended"}]
  BY <1>2 DEF NodeShape
<1>4. processing[s] = "wait" /\ processing'[s] = "send"
  BY <1>1, <1>3 DEF ProcessStep
<1>5. /\ Head(pq) \in Nat /\ Tail(pq) \in Seq(Nat) /\ <<Head(pq)>> \o Tail(pq) = pq /\ <<>> \o pq = pq
      /\ Head(pq) = pq[1] /\ 1 \in DOMAIN pq /\ Len(Tail(pq)) <= Len(pq)
      /\ Len(pq) \in Nat /\ Len(Tail(pq)) \in Nat
  BY <1>1, <1>3
<1> HIDE DEF pq
<1>6. /\ msg' \in [Source -> Nat] /\ msg'[s] = Head(pq)
      /\ point_cloud_queue_' \in [Source -> Seq(Nat)] /\ point_cloud_queue_'[s] = Tail(pq)
      /\ \A r \in Source \ {s} : msg'[r] = msg[r] /\ point_cloud_queue_'[r] = point_cloud_queue_[r]
  BY <1>1, <1>3, <1>5
<1>7. OnTheWay(s) = pq /\ OnTheWay(s)' = pq /\ OnTheWayBack(s)' = OnTheWayBack(s)
  <2>1. OnTheWay(s) = <<>> \o pq
    BY <1>4 DEF OnTheWay, pq
  <2>2. OnTheWay(s)' = <<Head(pq)>> \o Tail(pq)
    BY <1>4, <1>6 DEF OnTheWay
  <2>3. OnTheWayBack(s)' = OnTheWayBack(s)
    BY <1>1, <1>4 DEF OnTheWayBack
  <2>4. QED
    BY <1>5, <2>1, <2>2, <2>3
<1>8. msg'[s] <= Len(cloudMsg[s])
  <2>1. pq[1] \in 1 .. Len(cloudMsg[s])
    BY <1>2, <1>5, <1>7 DEF Owned
  <2>2. QED
    BY <1>5, <1>6, <2>1
<1>9. Len(point_cloud_queue_'[s]) <= CloudQueue
  <2>1. Len(pq) <= CloudQueue /\ CloudQueue \in Nat
    BY <1>2, NodeAssumption DEF Limits, pq
  <2> DEFINE a == Len(Tail(pq))
             b == Len(pq)
  <2>2. a \in Nat /\ b \in Nat /\ a <= b
    BY <1>5
  <2> HIDE DEF a, b
  <2>3. a <= CloudQueue
    BY <2>1, <2>2 DEF b
  <2>4. QED
    BY <1>6, <2>3 DEF a
<1>10. node # "init"
  BY <1>1, <1>2 DEF Phase, pq
<1>11. /\ free_point_cloud_queue_' \in [Source -> Seq(Nat)] /\ clouds' \in [Source -> Seq(CloudOut)]
       /\ clouds'[s] = clouds[s]
       /\ \A r \in Source \ {s} : clouds'[r] = clouds[r] /\ free_point_cloud_queue_'[r] = free_point_cloud_queue_[r]
  BY <1>1, <1>3
<1> HIDE DEF CloudOut
<1>12. QED
  BY <1>1, <1>2, <1>6, <1>7, <1>8, <1>9, <1>10, <1>11, ThreadStep

\* processPointCloud: the cloud is published, and the object is still in the thread's hand.
LEMMA SendNode ==
  ASSUME NodeInv, NEW s \in Source, ProcessStep(s, "send", "recycle"), sendPointCloud(s),
         UNCHANGED <<msg, point_cloud_queue_, free_point_cloud_queue_>>
  PROVE  NodeInv'
<1> DEFINE pq == point_cloud_queue_[s]
           free == free_point_cloud_queue_[s]
           h == msg[s]
           m == cloudMsg[s][h]
           out == CloudToRosMsg(m)
           w == OnTheWay(s)
           dense == config.dense_points
<1>1. /\ Owned(point_cloud_[s], Len(cloudMsg[s]), w, OnTheWayBack(s))
      /\ CloudsInv(dense, send_by_rows_, start_flag_[s], packets[s], pkt_queue_[s], sent[s],
                   prevFrame[s], point_cloud_[s], cloudMsg[s], w, clouds[s])
      /\ Limits(s) /\ NodeShape /\ Phase(s)
  BY SourceParts
<1>2. /\ pq \in Seq(Nat) /\ free \in Seq(Nat) /\ h \in Nat /\ packets[s] \in Seq(PacketMsg)
      /\ clouds[s] \in Seq(CloudOut) /\ cloudMsg[s] \in Seq(CloudObj) /\ dense \in BOOLEAN
      /\ send_by_rows_ \in BOOLEAN /\ (send_by_rows_ => ~dense)
  BY <1>1, SourceTypes
<1>3. processing[s] = "send" /\ processing'[s] = "recycle"
  <2>1. processing \in [Source -> {"none", "loop", "wait", "send", "recycle", "ended"}]
    BY <1>1 DEF NodeShape
  <2>2. QED
    BY <2>1 DEF ProcessStep
<1>4. w = <<h>> \o pq /\ OnTheWay(s)' = <<>> \o pq
  BY <1>3 DEF OnTheWay
<1>5. OnTheWayBack(s) = free \o <<>> /\ OnTheWayBack(s)' = free \o <<h>>
  BY <1>3 DEF OnTheWayBack
<1> HIDE DEF w, pq, free, h
<1>6. w # <<>> /\ Head(w) = h /\ OnTheWay(s)' = Tail(w) /\ 1 \in DOMAIN w /\ w[1] = h /\ w \in Seq(Nat)
  BY <1>2, <1>4
<1>7. OnTheWayBack(s)' = Append(OnTheWayBack(s), Head(w))
  <2>1. free \o <<h>> = Append(free \o <<>>, h)
    BY <1>2
  <2>2. QED
    BY <1>5, <1>6, <2>1
<1>8. Owned(point_cloud_[s], Len(cloudMsg[s]), OnTheWay(s)', OnTheWayBack(s)')
  <2>1. Len(cloudMsg[s]) \in Nat
    <3> HIDE DEF CloudObj
    <3>1. QED
      BY <1>2
  <2>2. Owned(point_cloud_[s], Len(cloudMsg[s]), Tail(w), Append(OnTheWayBack(s), Head(w)))
    BY <1>1, <1>6, <2>1, OwnedSend
  <2>3. QED
    BY <1>6, <1>7, <2>2
<1>9. m \in CloudObj /\ WholeCloud(dense, packets[s], pkt_queue_[s], sent[s], m)
  <2>1. h \in 1 .. Len(cloudMsg[s])
    BY <1>1, <1>6 DEF Owned
  <2>2. m \in CloudObj
    <3> HIDE DEF CloudObj
    <3>1. QED
      BY <1>2, <2>1
  <2>3. QED
    BY <1>1, <1>6, <2>2 DEF CloudsInv, Waits
<1> HIDE DEF m, dense
<1>10. /\ out \in CloudOut /\ out.data # <<>> /\ FrameOf(out.data) = FrameOf(m.points)
       /\ FrameMsg(dense, send_by_rows_, packets[s], out, FrameOf(m.points))
  <2> HIDE DEF out
  <2>1. out = IF send_by_rows_ THEN [width |-> m.width, height |-> m.height, data |-> ByRows(m)]
              ELSE [width |-> m.height, height |-> m.width, data |-> m.points]
    BY DEF CloudToRosMsg, out
  <2>2. LET x == IF send_by_rows_ THEN [width |-> m.width, height |-> m.height, data |-> ByRows(m)]
                 ELSE [width |-> m.height, height |-> m.width, data |-> m.points]
        IN  /\ x \in CloudOut /\ x.data # <<>> /\ FrameOf(x.data) = FrameOf(m.points)
            /\ FrameMsg(dense, send_by_rows_, packets[s], x, FrameOf(m.points))
    BY <1>2, <1>9, MessageOf
  <2>3. QED
    BY <2>1, <2>2
<1>11. clouds' = [clouds EXCEPT ![s] = Append(clouds[s], out)]
  BY DEF sendPointCloud, m, h
<1> HIDE DEF out
<1>12. clouds'[s] = Append(clouds[s], out) /\ clouds' \in [Source -> Seq(CloudOut)] /\ \A r \in Source \ {s} : clouds'[r] = clouds[r]
  <2> HIDE DEF CloudOut
  <2>1. clouds \in [Source -> Seq(CloudOut)] /\ Append(clouds[s], out) \in Seq(CloudOut)
    BY <1>1, <1>2, <1>10 DEF NodeShape
  <2>2. QED
    BY <1>11, <2>1
<1>13. CloudsInv(dense, send_by_rows_, start_flag_[s], packets[s], pkt_queue_[s], sent[s],
                 prevFrame[s], point_cloud_[s], cloudMsg[s], Tail(w), Append(clouds[s], out))
  <2>1. FrameOf(out.data) = FrameOf(cloudMsg[s][Head(w)].points)
        /\ FrameMsg(dense, send_by_rows_, packets[s], out, FrameOf(cloudMsg[s][Head(w)].points))
    BY <1>6, <1>10 DEF m
  <2>2. QED
    BY <1>1, <1>2, <1>6, <1>10, <2>1, CloudsSend
<1>14. CloudsInv(dense, send_by_rows_, start_flag_[s], packets[s], pkt_queue_[s], sent[s],
                 prevFrame[s], point_cloud_[s], cloudMsg[s], OnTheWay(s)', clouds'[s])
  BY <1>6, <1>12, <1>13
<1>15. node # "init"
  BY <1>1, <1>3 DEF Phase
<1>16. /\ msg' \in [Source -> Nat] /\ free_point_cloud_queue_' \in [Source -> Seq(Nat)]
       /\ point_cloud_queue_' \in [Source -> Seq(Nat)]
       /\ msg'[s] <= Len(cloudMsg[s]) /\ Len(point_cloud_queue_'[s]) <= CloudQueue
  BY <1>1 DEF NodeShape, Limits
<1> HIDE DEF CloudOut
<1>17. QED
  BY <1>8, <1>12, <1>14, <1>15, <1>16, ThreadStep DEF dense

\* ... and then the object is free.
LEMMA RecycleNode ==
  ASSUME NodeInv, NEW s \in Source, ProcessStep(s, "recycle", "loop"), PushFree(s),
         UNCHANGED <<msg, point_cloud_queue_, clouds>>
  PROVE  NodeInv'
<1> DEFINE pq == point_cloud_queue_[s]
           free == free_point_cloud_queue_[s]
           h == msg[s]
<1>1. /\ Owned(point_cloud_[s], Len(cloudMsg[s]), OnTheWay(s), OnTheWayBack(s))
      /\ CloudsInv(config.dense_points, send_by_rows_, start_flag_[s], packets[s], pkt_queue_[s], sent[s],
                   prevFrame[s], point_cloud_[s], cloudMsg[s], OnTheWay(s), clouds[s])
      /\ Limits(s) /\ NodeShape /\ Phase(s)
  BY SourceParts
<1>2. /\ pq \in Seq(Nat) /\ free \in Seq(Nat) /\ h \in Nat /\ free_point_cloud_queue_ \in [Source -> Seq(Nat)]
      /\ processing \in [Source -> {"none", "loop", "wait", "send", "recycle", "ended"}]
  BY <1>1 DEF NodeShape
<1>3. processing[s] = "recycle" /\ processing'[s] = "loop"
  BY <1>2 DEF ProcessStep
<1>4. OnTheWay(s)' = OnTheWay(s)
  BY <1>3 DEF OnTheWay
<1>5. free_point_cloud_queue_' = [free_point_cloud_queue_ EXCEPT ![s] = Append(free, h)]
  BY DEF PushFree
<1> HIDE DEF free, h
<1>6. Append(free, h) \in Seq(Nat) /\ Append(free, h) \o <<>> = free \o <<h>>
  BY <1>2
<1>7. /\ free_point_cloud_queue_'[s] = Append(free, h) /\ free_point_cloud_queue_' \in [Source -> Seq(Nat)]
      /\ \A r \in Source \ {s} : free_point_cloud_queue_'[r] = free_point_cloud_queue_[r]
  BY <1>2, <1>5, <1>6
<1>8. OnTheWayBack(s)' = OnTheWayBack(s)
  <2>1. OnTheWayBack(s) = free \o <<h>>
    BY <1>3 DEF OnTheWayBack, free, h
  <2>2. OnTheWayBack(s)' = Append(free, h) \o <<>>
    BY <1>3, <1>7 DEF OnTheWayBack
  <2>3. QED
    BY <1>5, <2>1, <2>2
<1>9. node # "init"
  BY <1>1, <1>3 DEF Phase
<1>10. /\ msg' \in [Source -> Nat] /\ clouds' \in [Source -> Seq(CloudOut)]
       /\ point_cloud_queue_' \in [Source -> Seq(Nat)]
       /\ msg'[s] <= Len(cloudMsg[s]) /\ Len(point_cloud_queue_'[s]) <= CloudQueue
  BY <1>1 DEF NodeShape, Limits
<1> HIDE DEF CloudOut
<1>11. QED
  BY <1>1, <1>4, <1>7, <1>8, <1>9, <1>10, ThreadStep

\* main(): SourceDriver::init of the next source.
LEMMA LoopAt ==
  ASSUME NodeShape, NEW here, NEW next, Loop(here, next)
  PROVE  node = here /\ node' \in {here, next} /\ at' \in Source
<1>1. Source = 1 .. Len(FramesOf) /\ Len(FramesOf) \in Nat \ {0} /\ at \in Source
  BY NodeAssumption DEF Source, NodeShape
<1>2. at' = IF at = Len(FramesOf) THEN 1 ELSE at + 1
  BY DEF Loop
<1>3. at' \in Source
  <2> DEFINE n == Len(FramesOf)
  <2>1. 1 \in 1 .. n /\ (at # n => at + 1 \in 1 .. n)
    <3> HIDE DEF n
    <3>1. n \in Nat \ {0} /\ at \in 1 .. n
      BY <1>1 DEF n
    <3>2. QED
      BY <3>1
  <2>2. QED
    BY <1>1, <1>2, <2>1
<1>4. QED
  BY <1>3 DEF Loop

LEMMA InitSourceNode ==
  ASSUME NodeInv, InitSource \/ InitFails
  PROVE  NodeInv'
<1> DEFINE dense == config.dense_points
<1>0. NodeShape /\ \E s \in Source : s = at
  BY DEF NodeInv, NodeShape
<1> PICK s \in Source : s = at
  BY <1>0
<1> DEFINE w == OnTheWay(s)
<1>1. /\ processing' = [processing EXCEPT ![s] = "loop"] /\ getPointCloud(s)
      /\ UNCHANGED <<config, inputVars, pkt_queue_, start_flag_, prevFrame, point_cloud_queue_, msg,
                     to_exit_process_, clouds, packets>>
  BY DEF InitSource, InitFails, SourceDriverInit
<1>2. node = "init" /\ node' \in {"init", "start", "exited"} /\ at' \in Source
  BY <1>0, LoopAt DEF InitSource, InitFails
<1>3. /\ SourceInv(s) /\ Owned(point_cloud_[s], Len(cloudMsg[s]), w, OnTheWayBack(s))
      /\ CloudsInv(dense, send_by_rows_, start_flag_[s], packets[s], pkt_queue_[s], sent[s],
                   prevFrame[s], point_cloud_[s], cloudMsg[s], w, clouds[s])
      /\ Limits(s) /\ Phase(s)
  BY <1>0, SourceParts DEF NodeInv
<1>4. /\ point_cloud_' \in [Source -> Nat] /\ cloudMsg' \in [Source -> Seq(CloudObj)]
      /\ free_point_cloud_queue_' \in [Source -> Seq(Nat)]
      /\ \A r \in Source \ {s} : SameObjects(r)
      /\ point_cloud_'[s] \in DOMAIN cloudMsg'[s] /\ cloudMsg'[s][point_cloud_'[s]].points = <<>>
      /\ Len(cloudMsg'[s]) >= Len(cloudMsg[s])
      /\ \A i \in DOMAIN w : cloudMsg'[s][w[i]] = cloudMsg[s][w[i]]
      /\ \/ free_point_cloud_queue_'[s] = free_point_cloud_queue_[s]
            /\ Owned(point_cloud_'[s], Len(cloudMsg'[s]), w, OnTheWayBack(s))
         \/ free_point_cloud_queue_[s] # <<>> /\ free_point_cloud_queue_'[s] = Tail(free_point_cloud_queue_[s])
            /\ Owned(point_cloud_'[s], Len(cloudMsg'[s]), w, Tail(OnTheWayBack(s)))
  BY <1>0, <1>1, <1>3, GetObject
<1>5. /\ ~start_flag_[s] /\ processing[s] \notin {"send", "recycle"} /\ point_cloud_queue_[s] = <<>>
      /\ free_point_cloud_queue_[s] = <<>> /\ packets[s] = <<>>
  BY <1>2, <1>3 DEF Phase
<1>6. /\ processing' \in [Source -> {"none", "loop", "wait", "send", "recycle", "ended"}]
      /\ processing'[s] = "loop" /\ \A r \in Source \ {s} : processing'[r] = processing[r]
  <2>1. processing \in [Source -> {"none", "loop", "wait", "send", "recycle", "ended"}]
    BY <1>0 DEF NodeShape
  <2>2. QED
    BY <1>0, <1>1, <2>1
<1>7. NodeShape'
  <2> HIDE DEF CloudObj, CloudOut, PacketMsg, Source
  <2>1. QED
    BY <1>0, <1>1, <1>2, <1>4, <1>6 DEF NodeShape, inputVars
<1>8. ASSUME NEW r \in Source \ {s} PROVE SourceInv(r)'
  <2>1. SameObjects(r) /\ SameThread(r) /\ SamePackets(r) /\ Forward
    BY <1>1, <1>2, <1>4, <1>6 DEF SameThread, SamePackets, Forward, inputVars
  <2>2. QED
    BY <2>1, SourceKept DEF NodeInv
<1>9. OnTheWay(s)' = w /\ send_by_rows_' = send_by_rows_ /\ dense' = dense
  BY <1>1, <1>5, <1>6 DEF OnTheWay, send_by_rows_
<1>10. free_point_cloud_queue_'[s] = <<>> /\ OnTheWayBack(s)' = OnTheWayBack(s)
       /\ Owned(point_cloud_'[s], Len(cloudMsg'[s]), w, OnTheWayBack(s))
  BY <1>4, <1>5, <1>6 DEF OnTheWayBack
<1>11. CloudsInv(dense, send_by_rows_, start_flag_[s], packets[s], pkt_queue_[s], sent[s], prevFrame[s],
                 point_cloud_'[s], cloudMsg'[s], w, clouds[s])
  <2> HIDE DEF w, dense
  <2>1. /\ start_flag_[s] => point_cloud_[s] = NoMsg
        /\ cloudMsg'[s][point_cloud_'[s]].points = <<>>
        /\ \A i \in DOMAIN w : cloudMsg'[s][w[i]] = cloudMsg[s][w[i]]
    BY <1>4, <1>5
  <2>2. QED
    BY <1>3, <2>1, CloudsGet
<1>12. Limits(s)' /\ Phase(s)'
  <2>1. Len(cloudMsg[s]) \in Nat /\ Len(cloudMsg'[s]) \in Nat /\ msg[s] \in Nat
    <3> HIDE DEF CloudObj, Source
    <3>1. cloudMsg[s] \in Seq(CloudObj) /\ cloudMsg'[s] \in Seq(CloudObj) /\ msg[s] \in Nat
      BY <1>0, <1>4 DEF NodeShape
    <3>2. QED
      BY <3>1
  <2>2. msg[s] <= Len(cloudMsg'[s])
    BY <1>3, <1>4, <2>1 DEF Limits
  <2>3. Limits(s)'
    BY <1>1, <1>3, <2>2 DEF Limits
  <2>4. /\ packets'[s] = <<>> /\ cloudMsg'[s][point_cloud_'[s]].points = <<>>
        /\ ~start_flag_'[s] /\ processing'[s] = "loop" /\ point_cloud_queue_'[s] = <<>>
        /\ free_point_cloud_queue_'[s] = <<>>
    BY <1>1, <1>4, <1>5, <1>6, <1>10
  <2>5. Phase(s)'
    BY <2>4 DEF Phase
  <2>6. QED
    BY <2>3, <2>5
<1> HIDE DEF w, dense
<1>13. CloudsInv(config.dense_points, send_by_rows_, start_flag_[s], packets[s], pkt_queue_[s], sent[s],
                 prevFrame[s], point_cloud_[s], cloudMsg[s], OnTheWay(s), clouds[s])'
  BY <1>1, <1>9, <1>11 DEF inputVars, dense
<1>14. Owned(point_cloud_[s], Len(cloudMsg[s]), OnTheWay(s), OnTheWayBack(s))'
  BY <1>9, <1>10
<1>15. PacketFlow(packets[s], pkt_queue_[s], sent[s], prevFrame[s])'
  BY <1>1, <1>3 DEF SourceInv, inputVars
<1>16. SourceInv(s)'
  BY <1>12, <1>13, <1>14, <1>15 DEF SourceInv
<1>17. QED
  BY <1>7, <1>8, <1>16 DEF NodeInv

\* SourceDriver::start: nothing was handled before.
LEMMA StartSourceNode ==
  ASSUME NodeInv, StartSource
  PROVE  NodeInv'
<1> DEFINE dense == config.dense_points
<1>0. NodeShape /\ \E s \in Source : s = at
  BY DEF NodeInv, NodeShape
<1> PICK s \in Source : s = at
  BY <1>0
<1>1. /\ start_flag_' = [start_flag_ EXCEPT ![s] = TRUE]
      /\ UNCHANGED <<config, inputVars, pkt_queue_, prevFrame, cloudMsg, point_cloud_,
                     free_point_cloud_queue_, point_cloud_queue_, threadVars, clouds, packets>>
  BY DEF StartSource
<1>2. node = "start" /\ node' \in {"start", "wait"} /\ at' \in Source
  BY <1>0, LoopAt DEF StartSource
<1>3. /\ SourceInv(s) /\ Limits(s) /\ Phase(s)
      /\ CloudsInv(dense, send_by_rows_, start_flag_[s], packets[s], pkt_queue_[s], sent[s],
                   prevFrame[s], point_cloud_[s], cloudMsg[s], OnTheWay(s), clouds[s])
  BY SourceParts DEF NodeInv
<1>4. start_flag_' \in [Source -> BOOLEAN] /\ start_flag_'[s] = TRUE /\ \A r \in Source \ {s} : start_flag_'[r] = start_flag_[r]
  BY <1>0, <1>1 DEF NodeShape
<1>5. NodeShape'
  <2> HIDE DEF CloudObj, CloudOut, PacketMsg, Source
  <2>1. QED
    BY <1>0, <1>1, <1>2, <1>4 DEF NodeShape, inputVars, threadVars
<1>6. ASSUME NEW r \in Source \ {s} PROVE SourceInv(r)'
  <2>1. SameObjects(r) /\ SameThread(r) /\ SamePackets(r) /\ Forward
    BY <1>1, <1>2, <1>4 DEF SameObjects, SameThread, SamePackets, Forward, inputVars, threadVars
  <2>2. QED
    BY <2>1, SourceKept DEF NodeInv
<1>7. OnTheWay(s)' = OnTheWay(s) /\ OnTheWayBack(s)' = OnTheWayBack(s) /\ send_by_rows_' = send_by_rows_ /\ dense' = dense
  BY <1>1 DEF OnTheWay, OnTheWayBack, send_by_rows_, threadVars
<1> HIDE DEF dense
<1>8. CloudsInv(dense, send_by_rows_, TRUE, packets[s], pkt_queue_[s], sent[s],
                prevFrame[s], point_cloud_[s], cloudMsg[s], OnTheWay(s), clouds[s])
  <2>1. CASE start_flag_[s]
    <3>1. start_flag_[s] = TRUE
      BY <1>0, <2>1, SourceTypes
    <3>2. QED
      BY <1>3, <3>1
  <2>2. CASE ~start_flag_[s]
    <3>1. packets[s] = <<>> /\ (point_cloud_[s] # NoMsg => cloudMsg[s][point_cloud_[s]].points = <<>>)
      BY <1>2, <1>3, <2>2 DEF Phase
    <3>2. CloudsInv(dense, send_by_rows_, start_flag_[s], <<>>, pkt_queue_[s], sent[s],
                    prevFrame[s], point_cloud_[s], cloudMsg[s], OnTheWay(s), clouds[s])
      BY <1>3, <3>1
    <3>3. CloudsInv(dense, send_by_rows_, TRUE, <<>>, pkt_queue_[s], sent[s],
                    prevFrame[s], point_cloud_[s], cloudMsg[s], OnTheWay(s), clouds[s])
      <4>1. point_cloud_[s] # NoMsg => cloudMsg[s][point_cloud_[s]].points = <<>>
        BY <3>1
      <4> DEFINE started == start_flag_[s]
      <4>2. CloudsInv(dense, send_by_rows_, started, <<>>, pkt_queue_[s], sent[s],
                      prevFrame[s], point_cloud_[s], cloudMsg[s], OnTheWay(s), clouds[s])
        BY <3>2
      <4> HIDE DEF started
      <4>3. QED
        BY <4>1, <4>2, CloudsStart, ZenonT(30)
    <3>4. QED
      BY <3>1, <3>3
  <2>3. QED
    BY <2>1, <2>2
<1>9. Limits(s)' /\ Phase(s)'
  BY <1>1, <1>2, <1>3, <1>4 DEF Limits, Phase, threadVars
<1>10. CloudsInv(config.dense_points, send_by_rows_, start_flag_[s], packets[s], pkt_queue_[s], sent[s],
                 prevFrame[s], point_cloud_[s], cloudMsg[s], OnTheWay(s), clouds[s])'
  BY <1>1, <1>4, <1>7, <1>8 DEF inputVars, dense
<1>11. Owned(point_cloud_[s], Len(cloudMsg[s]), OnTheWay(s), OnTheWayBack(s))'
  BY <1>1, <1>3, <1>7 DEF SourceInv
<1>12. PacketFlow(packets[s], pkt_queue_[s], sent[s], prevFrame[s])'
  BY <1>1, <1>3 DEF SourceInv, inputVars
<1>13. SourceInv(s)'
  BY <1>9, <1>10, <1>11, <1>12 DEF SourceInv
<1>14. QED
  BY <1>5, <1>6, <1>13 DEF NodeInv

\* SourceDriver::stop: the cloud being filled is emptied.
LEMMA StopDriverNode ==
  ASSUME NodeInv, StopDriver
  PROVE  NodeInv'
<1> DEFINE dense == config.dense_points
<1>0. NodeShape /\ \E s \in Source : s = at
  BY DEF NodeInv, NodeShape
<1> PICK s \in Source : s = at
  BY <1>0
<1> DEFINE id == point_cloud_[s]
           objs == cloudMsg[s]
           w == OnTheWay(s)
           o == [objs[id] EXCEPT !.points = <<>>]
<1>1. /\ node = "stop" /\ start_flag_[s] /\ id # NoMsg
      /\ start_flag_' = [start_flag_ EXCEPT ![s] = FALSE]
      /\ cloudMsg' = [cloudMsg EXCEPT ![s][id].points = <<>>]
      /\ to_exit_process_' = [to_exit_process_ EXCEPT ![s] = TRUE]
      /\ UNCHANGED <<config, node, at, inputVars, pkt_queue_, prevFrame, point_cloud_,
                     free_point_cloud_queue_, point_cloud_queue_, processing, msg, clouds, packets>>
  BY DEF StopDriver
<1>2. objs \in Seq(CloudObj) /\ id \in Nat
  BY <1>0, SourceTypes
<1>3. /\ SourceInv(s) /\ Limits(s) /\ Phase(s) /\ Owned(id, Len(objs), w, OnTheWayBack(s))
      /\ CloudsInv(dense, send_by_rows_, start_flag_[s], packets[s], pkt_queue_[s], sent[s],
                   prevFrame[s], id, objs, w, clouds[s])
  BY SourceParts DEF NodeInv
<1>4. id \in DOMAIN objs /\ \A i \in DOMAIN w : w[i] # id /\ w[i] \in DOMAIN objs
  BY <1>1, <1>2, <1>3 DEF Owned, NoMsg
<1>5. objs[id] \in CloudObj
  BY <1>2, <1>4
<1>6. o \in CloudObj /\ o.points = <<>>
  <2>1. <<>> \in Seq(NodePoint)
    OBVIOUS
  <2>2. QED
    BY <1>5, <2>1, ObjectPoints
<1>7. cloudMsg' = [cloudMsg EXCEPT ![s] = [@ EXCEPT ![id] = o]]
  BY <1>1
<1> HIDE DEF o
<1>8. /\ cloudMsg' \in [Source -> Seq(CloudObj)]
      /\ Len(cloudMsg'[s]) = Len(objs) /\ cloudMsg'[s][id] = o
      /\ \A i \in DOMAIN objs \ {id} : cloudMsg'[s][i] = objs[i]
      /\ \A r \in Source \ {s} : cloudMsg'[r] = cloudMsg[r]
  BY <1>0, <1>4, <1>6, <1>7, ObjectChanged
<1>9. /\ start_flag_' \in [Source -> BOOLEAN] /\ start_flag_'[s] = FALSE
      /\ to_exit_process_' \in [Source -> BOOLEAN]
      /\ \A r \in Source \ {s} : start_flag_'[r] = start_flag_[r]
  BY <1>0, <1>1 DEF NodeShape
<1>10. NodeShape'
  <2> HIDE DEF CloudObj, CloudOut, PacketMsg, Source
  <2>1. QED
    BY <1>0, <1>1, <1>8, <1>9 DEF NodeShape, inputVars
<1>11. ASSUME NEW r \in Source \ {s} PROVE SourceInv(r)'
  <2>1. SameObjects(r) /\ SameThread(r) /\ SamePackets(r) /\ Forward
    BY <1>1, <1>8, <1>9 DEF SameObjects, SameThread, SamePackets, Forward, inputVars
  <2>2. QED
    BY <2>1, SourceKept DEF NodeInv
<1>12. OnTheWay(s)' = w /\ OnTheWayBack(s)' = OnTheWayBack(s) /\ send_by_rows_' = send_by_rows_ /\ dense' = dense
  BY <1>1 DEF OnTheWay, OnTheWayBack, send_by_rows_
<1> HIDE DEF dense, w
<1>13. CloudsInv(dense, send_by_rows_, FALSE, packets[s], pkt_queue_[s], sent[s],
                 prevFrame[s], id, cloudMsg'[s], w, clouds[s])
  <2>1. \A i \in DOMAIN w : cloudMsg'[s][w[i]] = objs[w[i]]
    BY <1>4, <1>8
  <2> DEFINE started == start_flag_[s]
  <2> HIDE DEF id, objs
  <2>2. CloudsInv(dense, send_by_rows_, started, packets[s], pkt_queue_[s], sent[s], prevFrame[s], id, objs, w, clouds[s])
    BY <1>3
  <2> DEFINE objs2 == cloudMsg'[s]
  <2>3. \A i \in DOMAIN w : objs2[w[i]] = objs[w[i]]
    BY <2>1
  <2> HIDE DEF started, objs2
  <2>4. /\ Waits(dense, packets[s], pkt_queue_[s], sent[s], objs, w) /\ InTurn(objs, w, clouds[s])
        /\ Outgone(dense, send_by_rows_, packets[s], pkt_queue_[s], sent[s], clouds[s])
    BY <2>2 DEF CloudsInv
  <2>5. Waits(dense, packets[s], pkt_queue_[s], sent[s], objs2, w) /\ InTurn(objs2, w, clouds[s])
    BY <2>3, <2>4, WaitsKept
  <2>6. QED
    BY <2>4, <2>5 DEF CloudsInv, Filling, objs2
<1>14. Limits(s)' /\ Phase(s)'
  BY <1>1, <1>3, <1>8 DEF Limits, Phase
<1>15. CloudsInv(config.dense_points, send_by_rows_, start_flag_[s], packets[s], pkt_queue_[s], sent[s],
                 prevFrame[s], point_cloud_[s], cloudMsg[s], OnTheWay(s), clouds[s])'
  BY <1>1, <1>9, <1>12, <1>13 DEF inputVars, dense
<1>16. Owned(point_cloud_[s], Len(cloudMsg[s]), OnTheWay(s), OnTheWayBack(s))'
  BY <1>1, <1>3, <1>8, <1>12
<1>17. PacketFlow(packets[s], pkt_queue_[s], sent[s], prevFrame[s])'
  BY <1>1, <1>3 DEF SourceInv, inputVars
<1>18. SourceInv(s)'
  BY <1>14, <1>15, <1>16, <1>17 DEF SourceInv
<1>19. QED
  BY <1>10, <1>11, <1>18 DEF NodeInv

\* Steps that change nothing of the sources.
LEMMA QuietNode ==
  ASSUME NodeInv, UNCHANGED <<config, inputVars, driverVars, threadVars, clouds, packets>>,
         \/ WaitEnds \/ JoinProcess \/ SourceDestroyed \/ UNCHANGED nodeVars
  PROVE  NodeInv'
<1>1. NodeShape
  BY DEF NodeInv
<1>2. at' \in Source /\ node' \in {"init", "start", "wait", "stop", "ended", "terminated", "exited"} /\ Forward
  <2>1. CASE WaitEnds
    BY <1>1, <2>1 DEF WaitEnds, NodeShape, Forward
  <2>2. CASE JoinProcess
    <3>1. node = "stop" /\ node' \in {"stop", "ended"} /\ at' \in Source
      BY <1>1, <2>2, LoopAt DEF JoinProcess
    <3>2. QED
      BY <3>1 DEF Forward
  <2>3. CASE SourceDestroyed
    BY <1>1, <2>3 DEF SourceDestroyed, NodeShape, Forward
  <2>4. CASE UNCHANGED nodeVars
    BY <1>1, <2>4 DEF nodeVars, NodeShape, Forward
  <2>5. QED
    BY <2>1, <2>2, <2>3, <2>4
<1>3. NodeShape'
  <2> HIDE DEF CloudObj, CloudOut, PacketMsg, Source
  <2>1. QED
    BY <1>1, <1>2 DEF NodeShape, inputVars, driverVars, threadVars
<1>4. ASSUME NEW r \in Source PROVE SourceInv(r)'
  <2>1. SameObjects(r) /\ SameThread(r) /\ SamePackets(r) /\ Forward
    BY <1>2 DEF SameObjects, SameThread, SamePackets, inputVars, driverVars, threadVars
  <2>2. QED
    BY <2>1, SourceKept DEF NodeInv
<1>5. QED
  BY <1>3, <1>4 DEF NodeInv

LEMMA NextNode ==
  ASSUME NodeInv, [NodeNext]_nodeVars
  PROVE  NodeInv'
<1>1. CASE InitSource \/ InitFails
  BY <1>1, InitSourceNode
<1>2. CASE StartSource
  BY <1>2, StartSourceNode
<1>3. CASE StopDriver
  BY <1>3, StopDriverNode
<1>4. CASE WaitEnds \/ JoinProcess \/ SourceDestroyed \/ UNCHANGED nodeVars
  <2>1. UNCHANGED <<config, inputVars, driverVars, threadVars, clouds, packets>>
    BY <1>4 DEF WaitEnds, JoinProcess, SourceDestroyed, nodeVars
  <2>2. QED
    BY <1>4, <2>1, QuietNode
<1>5. ASSUME NEW s \in Source,
             \/ Receive(s) \/ LosePacket(s) \/ splitFrame(s) \/ NextCloud(s) \/ internalProcessPacket(s)
             \/ CheckExit(s) \/ PopCloud(s) \/ PopNothing(s) \/ processPointCloud(s)
      PROVE  NodeInv'
  <2>1. CASE Receive(s) \/ LosePacket(s)
    BY <2>1, ReceiveNode
  <2>2. CASE splitFrame(s)
    BY <2>2, SplitNode
  <2>3. CASE NextCloud(s)
    BY <2>3, NextCloudNode
  <2>4. CASE internalProcessPacket(s)
    BY <2>4, HandleNode
  <2>5. CASE CheckExit(s) \/ PopNothing(s)
    BY <2>5, IdleThreadNode
  <2>6. CASE PopCloud(s)
    BY <2>6, PopNode
  <2>7. CASE processPointCloud(s)
    BY <2>7, SendNode, RecycleNode DEF processPointCloud
  <2>8. QED
    BY <1>5, <2>1, <2>2, <2>3, <2>4, <2>5, <2>6, <2>7
<1>6. QED
  BY <1>1, <1>2, <1>3, <1>4, <1>5 DEF NodeNext

\* The invariant says more than CloudsPublished and NodeTypeOK.
LEMMA PublishedFrames == NodeInv => CloudsPublished
<1> SUFFICES ASSUME NodeInv, NEW s \in Source
             PROVE  /\ \A i \in DOMAIN clouds[s] :
                         LET frame == CloudFrame(clouds[s][i])
                         IN  /\ clouds[s][i].data # <<>> /\ IsFrame(s, clouds[s][i], frame)
                             /\ \A k \in HandledOf(s, frame) :
                                  packets[s][k].is_frame_begin <=> k # 1 /\ \A j \in HandledOf(s, frame) : k <= j
                    /\ \A i, j \in DOMAIN clouds[s] : i < j => CloudFrame(clouds[s][i]) < CloudFrame(clouds[s][j])
  BY DEF CloudsPublished
<1> DEFINE dense == config.dense_points
           ps == packets[s]
           pub == clouds[s]
<1>1. /\ Outgone(dense, send_by_rows_, ps, pkt_queue_[s], sent[s], pub)
      /\ PacketFlow(ps, pkt_queue_[s], sent[s], prevFrame[s])
  BY DEF NodeInv, SourceInv, CloudsInv
<1>2. \A f : HandledOf(s, f) = Of(ps, f)
  BY DEF HandledOf, Of
<1>3. \A f : DecodedOf(s, f) = Decoded(dense, ps, f)
  BY <1>2 DEF DecodedOf, Decoded, DecodedPoints, PointsOf
<1>4. \A m : CloudFrame(m) = FrameOf(m.data)
  BY DEF CloudFrame, FrameOf
<1>5. \A m, f : FrameMsg(dense, send_by_rows_, ps, m, f) => IsFrame(s, m, f)
  BY <1>3 DEF FrameMsg, IsFrame
<1>6. ASSUME NEW f, NEW k \in HandledOf(s, f)
      PROVE  packets[s][k].is_frame_begin <=> k # 1 /\ \A j \in HandledOf(s, f) : k <= j
  <2>1. k \in DOMAIN ps /\ FrameOfPkt(ps[k].pkt) = f
    BY <1>2, <1>6 DEF Of
  <2>2. ps[k].is_frame_begin <=> k # 1 /\ \A j \in Of(ps, FrameOfPkt(ps[k].pkt)) : k <= j
    BY <1>1, <2>1 DEF PacketFlow
  <2>3. QED
    BY <1>2, <2>1, <2>2
<1>7. ASSUME NEW i \in DOMAIN pub
      PROVE  pub[i].data # <<>> /\ IsFrame(s, pub[i], CloudFrame(pub[i]))
  BY <1>1, <1>4, <1>5 DEF Outgone
<1>8. ASSUME NEW i \in DOMAIN pub, NEW j \in DOMAIN pub, i < j
      PROVE  CloudFrame(pub[i]) < CloudFrame(pub[j])
  BY <1>1, <1>4, <1>8 DEF Outgone
<1> HIDE DEF ps, pub, dense
<1>9. QED
  BY <1>6, <1>7, <1>8 DEF pub

LEMMA NodeTypes == NodeInv => NodeTypeOK
<1> SUFFICES ASSUME NodeInv PROVE NodeTypeOK
  OBVIOUS
<1>1. NodeShape
  BY DEF NodeInv
<1>2. ASSUME NEW s \in Source
      PROVE  /\ point_cloud_[s] \in 0 .. Len(cloudMsg[s]) /\ msg[s] \in 0 .. Len(cloudMsg[s])
             /\ Len(pkt_queue_[s]) <= PktQueue /\ Len(point_cloud_queue_[s]) <= CloudQueue
  <2>1. Limits(s) /\ point_cloud_[s] \in 0 .. Len(cloudMsg[s])
    BY SourceParts DEF Owned
  <2>2. msg[s] \in Nat /\ cloudMsg[s] \in Seq(CloudObj)
    BY <1>1, SourceTypes
  <2>3. Len(cloudMsg[s]) \in Nat
    <3> HIDE DEF CloudObj
    <3>1. QED
      BY <2>2
  <2>4. QED
    BY <2>1, <2>2, <2>3 DEF Limits
<1>3. QED
  BY <1>1, <1>2 DEF NodeTypeOK, NodeShape

\* Between the receiving, the handling and the publishing thread, main() and its end, no cloud
\* is published that is not one whole frame as it was decoded: CloudsPublished, for any number
\* of lidars, columns, channels and places in the queues.
THEOREM FramesPublished == NodeSpec => []CloudsPublished
<1>1. NodeInit => NodeInv
  BY InitNode
<1>2. NodeInv /\ [NodeNext]_nodeVars => NodeInv'
  BY NextNode
<1>3. NodeInv => CloudsPublished
  BY PublishedFrames
<1>4. QED
  BY <1>1, <1>2, <1>3, PTL DEF NodeSpec

\* The objects the driver and the publishing thread hold exist, and no queue grows beyond its
\* places.
THEOREM NodeBounded == NodeSpec => []NodeTypeOK
<1>1. NodeInit => NodeInv
  BY InitNode
<1>2. NodeInv /\ [NodeNext]_nodeVars => NodeInv'
  BY NextNode
<1>3. NodeInv => NodeTypeOK
  BY NodeTypes
<1>4. QED
  BY <1>1, <1>2, <1>3, PTL DEF NodeSpec

-----------------------------------------------------------------------------
(* LidarSetup *)

\* The parameter a request writes, and whether the lidar has it.
KeyOf(l, cmd) == LidarKey(cmd, IF cmd \in Setting THEN livox_config[l][cmd] ELSE 0)
Written(l, cmd) == KeyOf(l, cmd)[1] \in DOMAIN value[l] /\ value[l][KeyOf(l, cmd)[1]] = KeyOf(l, cmd)[2]
Settled(l, s) == <<l, s>> \in refused \/ Written(l, s)

\* A setting is settled, or its bit is set and its request is under way.
Asked(l) == \A s \in Configured(l) : s \in set_bits[l] \/ Settled(l, s)

\* A callback that is running: the settings come first, something else last.
Calling(r) == Head(r)[1]
IsRun(r) ==
  /\ r \in Seq(Lidar \X Command)
  /\ r # <<>> =>
       /\ \A i \in DOMAIN r : r[i][1] = Calling(r)
       /\ r[Len(r)][2] \notin Setting
       /\ \A i, j \in DOMAIN r : (i < j /\ r[j][2] \in Setting) => r[i][2] \in Setting
       /\ \A i \in DOMAIN r : r[i][2] \in Setting => Calling(r) \in DOMAIN livox_config /\ r[i][2] \in Configured(Calling(r))

SetupShape ==
  /\ main \in {"init", "fill", "run", "stopped", "failed"}
  /\ user \in UserConfigs
  /\ main \in {"init", "fill", "failed"} =>
       /\ livox_config = <<>> /\ set_bits = <<>> /\ sampling = {}
       /\ running = [t \in Thread |-> <<>>] /\ config_mutex_ = None
       /\ BagToSet(pending) \subseteq Lidar \X {"FwType", "HostCfg"}
  /\ main \in {"run", "stopped"} => livox_config = ParseUserConfigs(user)
  /\ set_bits = [l \in DOMAIN livox_config |-> set_bits[l]]
  /\ main \in {"init", "failed"} => DOMAIN devices_ = {}
  /\ value = [l \in Lidar |-> value[l]] /\ BagToSet(pending) \subseteq Lidar \X Command
  /\ DOMAIN running = Thread

\* The rest of SetupTypeOK.
SetupRanges ==
  /\ DOMAIN devices_ \subseteq DOMAIN custom_lidars_cfg_map_
  /\ updated \cup sampling \subseteq Lidar /\ count \in 0 .. RetryLimit + 1
  /\ \A l \in DOMAIN set_bits : set_bits[l] \subseteq Configured(l)
  /\ config_mutex_ \in Thread \cup {None} /\ trouble \in 0 .. MaxTrouble

\* Only settings of the user are asked for, and whoever is between the first and the last
\* of a lidar's has the mutex.
Asking ==
  /\ \A t \in Thread : IsRun(running[t])
  /\ \A l \in Lidar, s \in Setting : <<l, s>> \in BagToSet(pending) =>
       l \in DOMAIN livox_config /\ s \in Configured(l)
  /\ config_mutex_ \in Thread =>
       running[config_mutex_] # <<>> /\ Head(running[config_mutex_])[2] \in Setting

\* Every setting of a callback that is at its settings is settled, has its bit or is to come.
Complete ==
  \A t \in Thread : (running[t] # <<>> /\ Head(running[t])[2] \in Setting) =>
    LET l == Calling(running[t])
    IN  \A s \in Configured(l) :
          \/ <<l, s>> \in ToSet(running[t])
          \/ config_mutex_ = t /\ (s \in set_bits[l] \/ Settled(l, s))

Promised ==
  \A l \in Lidar, s \in Setting : <<l, s>> \in BagToSet(pending) =>
    Asked(l) \/ (config_mutex_ \in Thread /\ Calling(running[config_mutex_]) = l)

AllSettled == \A l \in sampling : l \in DOMAIN livox_config /\ \A s \in Configured(l) : Settled(l, s)

SetupInv == SetupShape /\ SetupRanges /\ Asking /\ Complete /\ Promised /\ AllSettled

LEMMA KeysAgree ==
  ASSUME NEW l, NEW cmd \in Command \ {"FwType", "HostCfg"}, NEW s \in Setting, KeyOf(l, cmd)[1] = KeyOf(l, s)[1]
  PROVE  KeyOf(l, cmd)[2] = KeyOf(l, s)[2]
<1> DEFINE v == livox_config[l]
<1>1. KeyOf(l, s) = LidarKey(s, v[s])
  BY DEF KeyOf
<1>2. KeyOf(l, cmd) = IF cmd \in Setting THEN LidarKey(cmd, v[cmd]) ELSE LidarKey(cmd, 0)
  BY DEF KeyOf
<1> HIDE DEF v
<1>3. /\ \A x : LidarKey("pcl_data_type", x) = IF x = 0 THEN <<"imu_data_en", 1>> ELSE <<"pcl_data_type", x>>
      /\ \A x : LidarKey("pattern_mode", x) = <<"pattern_mode", x>>
      /\ \A x : LidarKey("blind_spot_set", x) = <<"blind_spot_set", x>>
      /\ \A x : LidarKey("dual_emit_en", x) = <<"dual_emit_en", IF x = 0 THEN 0 ELSE 1>>
      /\ \A x : LidarKey("Attitude", x) = <<"install_attitude", "extrinsics">>
      /\ \A x : LidarKey("WorkMode", x) = <<"work_tgt_mode", 1>>
      /\ \A x : LidarKey("Imu", x) = <<"imu_data_en", 1>>
  BY DEF LidarKey, SetLivoxLidarPclDataType, SetLivoxLidarScanPattern, SetLivoxLidarBlindSpot,
         SetLivoxLidarDualEmit, SetLivoxLidarInstallAttitude, SetLivoxLidarWorkMode, kLivoxLidarNormal,
         EnableLivoxLidarImuData
<1>4. CASE cmd = s
  BY <1>4
<1>5. CASE cmd # s /\ cmd \in Setting
  BY <1>1, <1>2, <1>3, <1>5 DEF Setting
<1>6. CASE cmd \notin Setting
  <2>1. cmd \in {"Attitude", "WorkMode", "Imu"}
    BY <1>6 DEF Command
  <2>2. QED
    BY <1>1, <1>2, <1>3, <1>6, <2>1 DEF Setting
<1>7. QED
  BY <1>4, <1>5, <1>6

\* What a lidar has taken, it keeps: no other request writes another value there.
LEMMA SettledKept ==
  ASSUME SetupShape, NEW l \in Lidar, NEW cmd \in Command \ {"FwType", "HostCfg"},
         livox_config' = livox_config, refused \subseteq refused',
         value' = [value EXCEPT ![l] = Update(@, KeyOf(l, cmd)[1], KeyOf(l, cmd)[2])]
  PROVE  /\ \A k \in Lidar, s \in Setting : Settled(k, s) => Settled(k, s)'
         /\ Written(l, cmd)' /\ value' = [k \in Lidar |-> value'[k]]
<1> DEFINE w == KeyOf(l, cmd)
           new == Update(value[l], w[1], w[2])
<1>1. value = [k \in Lidar |-> value[k]] /\ value' = [value EXCEPT ![l] = new]
  BY DEF SetupShape
<1>2. /\ DOMAIN new = DOMAIN value[l] \cup {w[1]} /\ new[w[1]] = w[2]
      /\ \A k \in DOMAIN value[l] : k # w[1] => new[k] = value[l][k]
  BY DEF Update
<1>3. \A k, c : KeyOf(k, c)' = KeyOf(k, c)
  BY DEF KeyOf
<1> HIDE DEF new
<1>4. value'[l] = new /\ (\A k \in Lidar : k # l => value'[k] = value[k]) /\ value' = [k \in Lidar |-> value'[k]]
  BY <1>1
<1>5. Written(l, cmd)'
  <2>1. KeyOf(l, cmd)' = w
    BY <1>3
  <2> HIDE DEF w
  <2>2. QED
    BY <1>2, <1>4, <2>1 DEF Written
<1>6. ASSUME NEW k \in Lidar, NEW s \in Setting, Settled(k, s) PROVE Settled(k, s)'
  <2>1. CASE <<k, s>> \in refused
    BY <2>1 DEF Settled
  <2>2. CASE Written(k, s) /\ k # l
    BY <1>3, <1>4, <2>2 DEF Settled, Written
  <2>3. CASE Written(k, s) /\ k = l
    <3> DEFINE x == KeyOf(l, s)
    <3>1. x[1] \in DOMAIN value[l] /\ value[l][x[1]] = x[2] /\ KeyOf(l, s)' = x
      BY <1>3, <2>3 DEF Written
    <3>2. x[1] = w[1] => x[2] = w[2]
      BY KeysAgree
    <3> HIDE DEF x, w
    <3>3. x[1] \in DOMAIN new /\ new[x[1]] = x[2]
      BY <1>2, <3>1, <3>2
    <3>4. QED
      BY <1>4, <2>3, <3>1, <3>3 DEF Settled, Written
  <2>4. QED
    BY <1>6, <2>1, <2>2, <2>3 DEF Settled
<1>7. QED
  BY <1>4, <1>5, <1>6

LEMMA SettledSame ==
  ASSUME livox_config' = livox_config, refused \subseteq refused', value' = value
  PROVE  \A k, s : Settled(k, s) => Settled(k, s)'
BY DEF Settled, Written, KeyOf

-----------------------------------------------------------------------------
(* LidarSetup: the calls of the callback *)

LEMMA Joined ==
  ASSUME NEW T, NEW a \in Seq(T), NEW b \in Seq(T)
  PROVE  a \o b \in Seq(T) /\ ToSet(a \o b) = ToSet(a) \cup ToSet(b)
<1> DEFINE c == a \o b
<1>1. /\ c \in Seq(T) /\ Len(c) = Len(a) + Len(b) /\ Len(a) \in Nat /\ Len(b) \in Nat
      /\ \A i \in 1 .. Len(a) : c[i] = a[i]
      /\ \A i \in 1 .. Len(b) : c[Len(a) + i] = b[i]
      /\ DOMAIN c = 1 .. Len(a) + Len(b) /\ DOMAIN a = 1 .. Len(a) /\ DOMAIN b = 1 .. Len(b)
  OBVIOUS
<1> HIDE DEF c
<1>2. ASSUME NEW x \in ToSet(c) PROVE x \in ToSet(a) \cup ToSet(b)
  <2>1. PICK i \in DOMAIN c : x = c[i]
    BY <1>2 DEF ToSet
  <2>2. CASE i <= Len(a)
    BY <1>1, <2>1, <2>2 DEF ToSet
  <2>3. CASE i > Len(a)
    <3>1. i - Len(a) \in 1 .. Len(b) /\ i = Len(a) + (i - Len(a))
      BY <1>1, <2>1, <2>3
    <3>2. x = b[i - Len(a)]
      BY <1>1, <2>1, <3>1
    <3>3. QED
      BY <1>1, <3>1, <3>2 DEF ToSet
  <2>4. QED
    BY <1>1, <2>1, <2>2, <2>3
<1>3. ASSUME NEW x \in ToSet(a) PROVE x \in ToSet(c)
  BY <1>1, <1>3 DEF ToSet
<1>4. ASSUME NEW x \in ToSet(b) PROVE x \in ToSet(c)
  <2>1. PICK i \in 1 .. Len(b) : x = b[i]
    BY <1>1, <1>4 DEF ToSet
  <2>2. Len(a) + i \in DOMAIN c /\ c[Len(a) + i] = x
    BY <1>1, <2>1
  <2>3. QED
    BY <2>2 DEF ToSet
<1>5. QED
  BY <1>1, <1>2, <1>3, <1>4 DEF c

LEMMA SettingRun ==
  ASSUME NEW l
  PROVE  /\ SettingCalls(l) \in Seq({l} \X Configured(l))
         /\ \A s \in Configured(l) : <<l, s>> \in ToSet(SettingCalls(l))
<1> DEFINE T == {l} \X Configured(l)
           One(s) == IF s \in Configured(l) THEN <<<<l, s>>>> ELSE <<>>
<1>1. \A s \in Setting : One(s) \in Seq(T) /\ (s \in Configured(l) => <<l, s>> \in ToSet(One(s)))
  <2> TAKE s \in Setting
  <2>1. CASE s \in Configured(l)
    <3>1. <<l, s>> \in T
      BY <2>1
    <3> DEFINE e == <<l, s>>
    <3> HIDE DEF T, e
    <3>2. <<e>> \in Seq(T) /\ e \in ToSet(<<e>>)
      BY <3>1 DEF ToSet, e
    <3>3. QED
      BY <2>1, <3>2 DEF e
  <2>2. CASE s \notin Configured(l)
    BY <2>2
  <2>3. QED
    BY <2>1, <2>2
<1> DEFINE a == One("pcl_data_type")
           b == One("pattern_mode")
           c == One("blind_spot_set")
           d == One("dual_emit_en")
<1>2. a \in Seq(T) /\ b \in Seq(T) /\ c \in Seq(T) /\ d \in Seq(T)
  BY <1>1 DEF Setting
<1>3. Configured(l) \subseteq {"pcl_data_type", "pattern_mode", "blind_spot_set", "dual_emit_en"}
  BY DEF Configured, Setting
<1>4. \A s \in Configured(l) : <<l, s>> \in ToSet(a) \cup ToSet(b) \cup ToSet(c) \cup ToSet(d)
  BY <1>1, <1>3 DEF Setting
<1>5. SettingCalls(l) = a \o b \o c \o d
  BY DEF SettingCalls
<1> HIDE DEF a, b, c, d, T
<1>6. a \o b \in Seq(T) /\ ToSet(a \o b) = ToSet(a) \cup ToSet(b)
  BY <1>2, Joined
<1> DEFINE x == a \o b
           y == x \o c
<1>7. x \in Seq(T) /\ ToSet(x) = ToSet(a) \cup ToSet(b)
  BY <1>6
<1>8. SettingCalls(l) = y \o d
  BY <1>5
<1> HIDE DEF x
<1>9. y \in Seq(T) /\ ToSet(y) = ToSet(x) \cup ToSet(c)
  BY <1>2, <1>7, Joined
<1> HIDE DEF y
<1>10. y \o d \in Seq(T) /\ ToSet(y \o d) = ToSet(y) \cup ToSet(d)
  BY <1>2, <1>9, Joined
<1>11. QED
  BY <1>4, <1>7, <1>8, <1>9, <1>10 DEF T

LEMMA RunOf ==
  ASSUME NEW l \in Lidar, NEW p \in Seq({l} \X Configured(l)), NEW q \in Seq({l} \X (Command \ Setting)),
         l \in DOMAIN livox_config \/ p = <<>>, q # <<>>
  PROVE  IsRun(p \o q) /\ p \o q # <<>> /\ Calling(p \o q) = l
<1> DEFINE r == p \o q
           n == Len(p)
           m == Len(q)
<1>1. Configured(l) \subseteq Setting /\ Setting \subseteq Command
  BY DEF Configured, Command
<1>2. /\ \A i \in 1 .. n : p[i] \in {l} \X Configured(l)
      /\ \A i \in 1 .. m : q[i] \in {l} \X (Command \ Setting)
      /\ n \in Nat /\ m \in Nat \ {0}
  <2> DEFINE A == {l} \X Configured(l)
             B == {l} \X (Command \ Setting)
  <2>1. p \in Seq(A) /\ q \in Seq(B)
    OBVIOUS
  <2> HIDE DEF A, B
  <2>2. (\A i \in 1 .. n : p[i] \in A) /\ (\A i \in 1 .. m : q[i] \in B) /\ n \in Nat /\ m \in Nat \ {0}
    BY <2>1
  <2>3. QED
    BY <2>2 DEF A, B
<1>3. \A i \in 1 .. n : p[i] \in Lidar \X Command /\ p[i][1] = l /\ p[i][2] \in Setting /\ p[i][2] \in Configured(l)
  BY <1>1, <1>2
<1>4. \A i \in 1 .. m : q[i] \in Lidar \X Command /\ q[i][1] = l /\ q[i][2] \notin Setting
  BY <1>2
<1>5. /\ r \in Seq(Lidar \X Command) /\ Len(r) = n + m /\ DOMAIN r = 1 .. n + m
      /\ \A i \in 1 .. n : r[i] = p[i]
      /\ \A i \in 1 .. m : r[n + i] = q[i]
  <2> DEFINE T == Lidar \X Command
  <2>1. p \in Seq(T) /\ q \in Seq(T)
    <3> DEFINE A == {l} \X Configured(l)
               B == {l} \X (Command \ Setting)
    <3>1. A \subseteq T /\ B \subseteq T /\ p \in Seq(A) /\ q \in Seq(B)
      BY <1>1
    <3> HIDE DEF A, B, T
    <3>2. QED
      BY <3>1
  <2> HIDE DEF T
  <2>2. r \in Seq(T) /\ Len(r) = n + m /\ DOMAIN r = 1 .. n + m
        /\ (\A i \in 1 .. n : r[i] = p[i]) /\ \A i \in 1 .. m : r[n + i] = q[i]
    BY <2>1
  <2>3. QED
    BY <2>2 DEF T
<1> HIDE DEF r, n, m
<1>6. \A i \in DOMAIN r : \/ i \in 1 .. n /\ r[i] = p[i]
                          \/ i - n \in 1 .. m /\ r[i] = q[i - n]
  <2> TAKE i \in DOMAIN r
  <2>1. i \in 1 .. n + m
    BY <1>5
  <2>2. CASE i <= n
    BY <1>2, <1>5, <2>1, <2>2
  <2>3. CASE i > n
    <3>1. i - n \in 1 .. m /\ n + (i - n) = i
      BY <1>2, <2>1, <2>3
    <3>2. QED
      BY <1>5, <3>1
  <2>4. QED
    BY <1>2, <2>1, <2>2, <2>3
<1>7. r # <<>> /\ Head(r) = r[1] /\ 1 \in DOMAIN r /\ Len(r) \in DOMAIN r /\ Len(r) - n = m
  <2>1. n + m \in Nat \ {0} /\ 1 \in 1 .. n + m /\ n + m \in 1 .. n + m
    BY <1>2
  <2> DEFINE T == Lidar \X Command
  <2>2. r \in Seq(T)
    BY <1>5
  <2> HIDE DEF T
  <2>3. r # <<>> /\ Head(r) = r[1]
    BY <1>5, <2>1, <2>2
  <2>4. QED
    BY <1>2, <1>5, <2>1, <2>3
<1>8. \A i \in DOMAIN r : r[i][1] = l
  BY <1>3, <1>4, <1>6
<1>9. Calling(r) = l
  BY <1>7, <1>8 DEF Calling
<1>10. r[Len(r)][2] \notin Setting
  <2>1. \/ Len(r) \in 1 .. n
        \/ Len(r) - n \in 1 .. m /\ r[Len(r)] = q[Len(r) - n]
    BY <1>6, <1>7
  <2>2. Len(r) \notin 1 .. n
    BY <1>2, <1>5
  <2>3. QED
    BY <1>4, <2>1, <2>2
<1>11. \A i, j \in DOMAIN r : (i < j /\ r[j][2] \in Setting) => r[i][2] \in Setting
  <2> TAKE i, j \in DOMAIN r
  <2> HAVE i < j /\ r[j][2] \in Setting
  <2>1. j \in 1 .. n
    BY <1>4, <1>6
  <2>2. i \in 1 .. n
    BY <1>2, <1>5, <2>1
  <2>3. r[i] = p[i]
    BY <1>5, <2>2
  <2>4. QED
    BY <1>3, <2>2, <2>3
<1>12. \A i \in DOMAIN r : r[i][2] \in Setting => l \in DOMAIN livox_config /\ r[i][2] \in Configured(l)
  <2> TAKE i \in DOMAIN r
  <2> HAVE r[i][2] \in Setting
  <2>1. i \in 1 .. n /\ r[i] = p[i]
    BY <1>4, <1>6
  <2>2. p # <<>>
    BY <1>2, <2>1 DEF n
  <2>3. QED
    BY <1>3, <2>1, <2>2
<1>13. QED
  BY <1>5, <1>7, <1>8, <1>9, <1>10, <1>11, <1>12 DEF IsRun, r

\* LidarInfoChangeCallback: every setting of the lidar is to come.
LEMMA CallsRun ==
  ASSUME NEW l \in Lidar
  PROVE  /\ IsRun(Calls(l)) /\ Calls(l) # <<>> /\ Calling(Calls(l)) = l
         /\ l \in DOMAIN livox_config => \A s \in Configured(l) : <<l, s>> \in ToSet(Calls(l))
<1> DEFINE p == SettingCalls(l)
           q == <<<<l, "Attitude">>, <<l, "WorkMode">>, <<l, "Imu">>>>
           q2 == <<<<l, "WorkMode">>, <<l, "Imu">>>>
<1>1. /\ <<l, "Attitude">> \in {l} \X (Command \ Setting) /\ <<l, "WorkMode">> \in {l} \X (Command \ Setting)
      /\ <<l, "Imu">> \in {l} \X (Command \ Setting)
  BY DEF Command, Setting
<1>2. q \in Seq({l} \X (Command \ Setting)) /\ q # <<>> /\ q2 \in Seq({l} \X (Command \ Setting)) /\ q2 # <<>>
  <2> DEFINE T == {l} \X (Command \ Setting)
             a == <<l, "Attitude">>
             b == <<l, "WorkMode">>
             c == <<l, "Imu">>
  <2>1. a \in T /\ b \in T /\ c \in T
    BY <1>1
  <2> HIDE DEF T, a, b, c
  <2>2. <<a, b, c>> \in Seq(T) /\ <<a, b, c>> # <<>> /\ <<b, c>> \in Seq(T) /\ <<b, c>> # <<>>
    BY <2>1
  <2>3. QED
    BY <2>2 DEF T, a, b, c
<1>3. p \in Seq({l} \X Configured(l)) /\ \A s \in Configured(l) : <<l, s>> \in ToSet(p)
  BY SettingRun
<1>4. Calls(l) = IF l \in DOMAIN livox_config THEN p \o q ELSE q2
  BY DEF Calls
<1> HIDE DEF p, q, q2
<1>5. CASE l \in DOMAIN livox_config
  <2>1. IsRun(p \o q) /\ p \o q # <<>> /\ Calling(p \o q) = l
    BY <1>2, <1>3, <1>5, RunOf
  <2>2. ToSet(p) \subseteq ToSet(p \o q)
    <3> DEFINE T == {l} \X Command
    <3>1. p \in Seq(T) /\ q \in Seq(T)
      <4>1. {l} \X Configured(l) \subseteq T /\ {l} \X (Command \ Setting) \subseteq T
        BY DEF Configured, Command
      <4> DEFINE A == {l} \X Configured(l)
                 B == {l} \X (Command \ Setting)
      <4>2. A \subseteq T /\ B \subseteq T /\ p \in Seq(A) /\ q \in Seq(B)
        BY <1>2, <1>3, <4>1
      <4> HIDE DEF A, B, T
      <4>3. QED
        BY <4>2
    <3> HIDE DEF T
    <3>2. ToSet(p \o q) = ToSet(p) \cup ToSet(q)
      BY <3>1, Joined
    <3>3. QED
      BY <3>2
  <2>3. QED
    BY <1>3, <1>4, <1>5, <2>1, <2>2
<1>6. CASE l \notin DOMAIN livox_config
  <2>1. <<>> \in Seq({l} \X Configured(l)) /\ <<>> \o q2 = q2
    <3> DEFINE B == {l} \X (Command \ Setting)
    <3>1. q2 \in Seq(B)
      BY <1>2
    <3> HIDE DEF B
    <3>2. QED
      BY <3>1
  <2>2. IsRun(<<>> \o q2) /\ <<>> \o q2 # <<>> /\ Calling(<<>> \o q2) = l
    BY <1>2, <2>1, RunOf
  <2>3. QED
    BY <1>4, <1>6, <2>1, <2>2
<1>7. QED
  BY <1>5, <1>6

-----------------------------------------------------------------------------
(* LidarSetup: what leaves the driver's settings alone *)

LEMMA FirstCall ==
  ASSUME NEW r, IsRun(r), r # <<>>
  PROVE  /\ Head(r) = r[1] /\ 1 \in DOMAIN r /\ Head(r) \in ToSet(r) /\ Calling(r) \in Lidar
         /\ Head(r) \in Lidar \X Command
         /\ Head(r)[2] \in Setting => Calling(r) \in DOMAIN livox_config /\ Head(r)[2] \in Configured(Calling(r))
<1> DEFINE T == Lidar \X Command
<1>1. r \in Seq(T)
  BY DEF IsRun
<1> HIDE DEF T
<1>2. Head(r) = r[1] /\ 1 \in DOMAIN r /\ r[1] \in T
  BY <1>1
<1>3. Head(r) \in ToSet(r)
  BY <1>2 DEF ToSet
<1>4. Calling(r) \in Lidar
  BY <1>2 DEF Calling, T
<1>5. QED
  BY <1>2, <1>3, <1>4 DEF IsRun, T

LEMMA Kept ==
  ASSUME SetupInv, livox_config' = livox_config, set_bits' = set_bits, sampling' = sampling,
         config_mutex_' = config_mutex_,
         \A k \in Lidar, s \in Setting : Settled(k, s) => Settled(k, s)',
         \A k \in Lidar, s \in Setting : <<k, s>> \in BagToSet(pending') => <<k, s>> \in BagToSet(pending),
         \/ running' = running
         \/ \E t \in Thread, l \in Lidar : running[t] = <<>> /\ running' = [running EXCEPT ![t] = Calls(l)]
  PROVE  Asking' /\ Complete' /\ Promised' /\ AllSettled'
<1>1. \A t \in Thread : \/ running'[t] = running[t]
                        \/ running[t] = <<>> /\ \E l \in Lidar : running'[t] = Calls(l)
  BY DEF SetupInv, SetupShape
<1>2. \A k : Configured(k)' = Configured(k)
  BY DEF Configured
<1>3. \A r : IsRun(r) => IsRun(r)'
  BY <1>2 DEF IsRun, Calling
<1>4. \A t \in Thread : IsRun(running[t])'
  <2> TAKE t \in Thread
  <2>1. PICK r : r = running'[t]
    OBVIOUS
  <2>2. IsRun(r)
    <3>1. \A l \in Lidar : IsRun(Calls(l))
      BY CallsRun
    <3>2. IsRun(running[t])
      BY DEF SetupInv, Asking
    <3>3. QED
      BY <1>1, <2>1, <3>1, <3>2
  <2>3. IsRun(r)'
    BY <1>3, <2>2
  <2>4. QED
    BY <2>1, <2>3 DEF IsRun, Calling
<1>5. config_mutex_ \in Thread => running[config_mutex_] # <<>> /\ Head(running[config_mutex_])[2] \in Setting
  BY DEF SetupInv, Asking
<1>6. config_mutex_ \in Thread => running'[config_mutex_] = running[config_mutex_]
  BY <1>1, <1>5
<1>7. Asking'
  <2>1. \A l \in Lidar, s \in Setting : <<l, s>> \in BagToSet(pending') =>
          l \in DOMAIN livox_config' /\ s \in Configured(l)'
    BY <1>2 DEF SetupInv, Asking
  <2>2. QED
    BY <1>4, <1>5, <1>6, <2>1 DEF Asking
<1>8. ASSUME NEW t \in Thread, running'[t] # <<>>, Head(running'[t])[2] \in Setting,
             NEW l, l = Head(running'[t])[1], NEW s \in Configured(l)
      PROVE  <<l, s>> \in ToSet(running'[t]) \/ (config_mutex_ = t /\ (s \in set_bits[l] \/ Settled(l, s)'))
  <2>1. CASE running'[t] = running[t]
    <3>1. l = Calling(running[t])
      BY <1>8, <2>1 DEF Calling
    <3>2. l \in Lidar
      BY <1>8, <2>1, <3>1, FirstCall DEF SetupInv, Asking
    <3>3. \/ <<l, s>> \in ToSet(running[t])
          \/ config_mutex_ = t /\ (s \in set_bits[l] \/ Settled(l, s))
      BY <1>8, <2>1, <3>1 DEF SetupInv, Complete
    <3>4. s \in Setting
      BY DEF Configured
    <3>5. QED
      BY <2>1, <3>2, <3>3, <3>4
  <2>2. CASE \E k \in Lidar : running'[t] = Calls(k)
    <3>1. PICK k \in Lidar : running'[t] = Calls(k)
      BY <2>2
    <3>2. IsRun(Calls(k)) /\ Calls(k) # <<>> /\ Calling(Calls(k)) = k
      BY CallsRun
    <3>3. k = l
      BY <1>8, <3>1, <3>2 DEF Calling
    <3>4. l \in DOMAIN livox_config
      BY <1>8, <3>1, <3>2, <3>3, FirstCall
    <3>5. \A c \in Configured(l) : <<l, c>> \in ToSet(Calls(l))
      BY <3>1, <3>3, <3>4, CallsRun
    <3>6. QED
      BY <3>1, <3>3, <3>5
  <2>3. QED
    BY <1>1, <2>1, <2>2
<1>9. Complete'
  <2> SUFFICES ASSUME NEW t \in Thread, running'[t] # <<>>, Head(running'[t])[2] \in Setting,
                      NEW l, l = Head(running'[t])[1], NEW s \in Configured(l)'
               PROVE  <<l, s>> \in ToSet(running'[t]) \/ (config_mutex_' = t /\ (s \in set_bits'[l] \/ Settled(l, s)'))
    BY SMTT(30) DEF Complete, Calling, Settled, Written, KeyOf
  <2>1. s \in Configured(l)
    BY <1>2
  <2>2. QED
    BY <1>8, <2>1
<1>10. \A k \in Lidar : Asked(k) => Asked(k)'
  <2>1. Setting = Setting /\ \A k : Configured(k) \subseteq Setting
    BY DEF Configured
  <2>2. QED
    BY <1>2, <2>1 DEF Asked
<1>11. Promised'
  BY <1>5, <1>6, <1>10 DEF SetupInv, Promised, Calling
<1>12. AllSettled'
  <2>1. sampling \subseteq Lidar /\ \A k : Configured(k) \subseteq Setting
    BY DEF SetupInv, SetupRanges, Configured
  <2>2. QED
    BY <1>2, <2>1 DEF SetupInv, AllSettled
<1>13. QED
  BY <1>7, <1>9, <1>11, <1>12

-----------------------------------------------------------------------------
(* LidarSetup: the answer to a setting, and the callback that sends them *)

\* SetCallback, when no callback is at its settings.
LEMMA SettingDone ==
  ASSUME SetupInv, NEW l \in Lidar, NEW s \in Setting, <<l, s>> \in BagToSet(pending), config_mutex_ = None,
         livox_config' = livox_config, running' = running, config_mutex_' = config_mutex_,
         set_bits' = [set_bits EXCEPT ![l] = @ \ {s}],
         sampling' = IF set_bits'[l] = {} THEN sampling \cup {l} ELSE sampling,
         \A k \in Lidar, c \in Setting : Settled(k, c) => Settled(k, c)', Settled(l, s)',
         \A k \in Lidar, c \in Setting : <<k, c>> \in BagToSet(pending') => <<k, c>> \in BagToSet(pending)
  PROVE  Asking' /\ Complete' /\ Promised' /\ AllSettled'
<1>1. \A k : Configured(k)' = Configured(k) /\ Configured(k) \subseteq Setting
  BY DEF Configured
<1>2. None \notin Thread
  BY DEF None, Thread
<1>3. l \in DOMAIN livox_config /\ Asked(l)
  BY <1>2 DEF SetupInv, Asking, Promised
<1>4. /\ set_bits'[l] = set_bits[l] \ {s}
      /\ \A k : k # l => set_bits'[k] = set_bits[k]
  BY <1>3 DEF SetupInv, SetupShape
<1>5. Asking'
  <2>1. \A t \in Thread : IsRun(running[t])'
    BY <1>1 DEF SetupInv, Asking, IsRun, Calling
  <2>2. QED
    BY <1>1, <1>2, <2>1 DEF SetupInv, Asking
<1>6. Complete'
  <2> SUFFICES ASSUME NEW t \in Thread, running'[t] # <<>>, Head(running'[t])[2] \in Setting,
                      NEW k, k = Head(running'[t])[1], NEW c \in Configured(k)'
               PROVE  <<k, c>> \in ToSet(running'[t]) \/ (config_mutex_' = t /\ (c \in set_bits'[k] \/ Settled(k, c)'))
    BY SMTT(30) DEF Complete, Calling, Settled, Written, KeyOf
  <2>1. c \in Configured(k) /\ k = Calling(running[t])
    BY <1>1 DEF Calling
  <2>2. QED
    BY <1>2, <2>1 DEF SetupInv, Complete
<1>7. ASSUME NEW k \in Lidar, Asked(k) PROVE Asked(k)'
  <2> SUFFICES ASSUME NEW c \in Configured(k)' PROVE c \in set_bits'[k] \/ Settled(k, c)'
    BY DEF Asked, Settled, Written, KeyOf
  <2>1. c \in Configured(k) /\ c \in Setting /\ (c \in set_bits[k] \/ Settled(k, c))
    BY <1>1, <1>7 DEF Asked
  <2>2. QED
    BY <1>4, <2>1
<1>8. Promised'
  BY <1>2, <1>7 DEF SetupInv, Promised
<1>9. AllSettled'
  <2> SUFFICES ASSUME NEW k \in sampling', NEW c \in Configured(k)' PROVE k \in DOMAIN livox_config' /\ Settled(k, c)'
    <3>1. \A k \in sampling' : k \in DOMAIN livox_config'
      BY <1>3 DEF SetupInv, AllSettled
    <3>2. QED
      BY <3>1 DEF AllSettled, Settled, Written, KeyOf
  <2>1. c \in Configured(k) /\ c \in Setting
    BY <1>1
  <2>2. CASE k \in sampling
    BY <2>1, <2>2 DEF SetupInv, SetupRanges, AllSettled
  <2>3. CASE k = l /\ set_bits'[l] = {}
    BY <1>3, <1>7, <1>1, <2>1, <2>3 DEF Asked
  <2>4. QED
    BY <2>2, <2>3
<1>10. QED
  BY <1>5, <1>6, <1>8, <1>9

LEMMA TailRun ==
  ASSUME NEW r, IsRun(r), r # <<>>
  PROVE  /\ IsRun(Tail(r))
         /\ Tail(r) # <<>> => Calling(Tail(r)) = Calling(r)
         /\ Head(r)[2] \in Setting => Tail(r) # <<>>
         /\ ToSet(r) = {Head(r)} \cup ToSet(Tail(r))
         /\ Head(r)[2] \notin Setting => \A x \in ToSet(r) : x[2] \notin Setting
<1> DEFINE T == Lidar \X Command
           q == Tail(r)
<1>1. r \in Seq(T)
  BY DEF IsRun
<1> HIDE DEF T
<1>2. /\ Len(r) \in Nat \ {0} /\ DOMAIN r = 1 .. Len(r) /\ Head(r) = r[1]
      /\ q \in Seq(T) /\ Len(q) = Len(r) - 1 /\ DOMAIN q = 1 .. Len(r) - 1 /\ \A i \in 1 .. Len(r) - 1 : q[i] = r[i + 1]
  BY <1>1
<1>3. q # <<>> => Head(q) = q[1] /\ Len(q) >= 1
  BY <1>2
<1> HIDE DEF q
<1>4. q = <<>> => Len(r) = 1
  BY SMTT(30), <1>2
<1>5. Head(r)[2] \in Setting => q # <<>>
  BY <1>2, <1>4 DEF IsRun
<1>6. \A i \in DOMAIN q : i + 1 \in DOMAIN r /\ q[i] = r[i + 1]
  BY <1>2
<1>7. q # <<>> => Calling(q) = Calling(r)
  <2>1. q # <<>> => 1 \in DOMAIN q
    BY <1>2, <1>3
  <2>2. q # <<>> => Head(q)[1] = Calling(r)
    BY <1>3, <1>6, <2>1 DEF IsRun
  <2>3. QED
    BY <2>2 DEF Calling
<1>8. IsRun(q)
  <2>1. CASE q = <<>>
    BY <1>2, <2>1 DEF IsRun, T
  <2>2. CASE q # <<>>
    <3>1. \A i \in DOMAIN q : q[i][1] = Calling(q)
      BY <1>6, <1>7, <2>2 DEF IsRun
    <3>2. q[Len(q)][2] \notin Setting
      <4>1. Len(q) \in DOMAIN q /\ Len(q) + 1 = Len(r)
        BY <1>2, <1>3, <2>2
      <4>2. QED
        BY <1>6, <4>1 DEF IsRun
    <3>3. ASSUME NEW i \in DOMAIN q, NEW j \in DOMAIN q, i < j, q[j][2] \in Setting PROVE q[i][2] \in Setting
      <4>1. i + 1 < j + 1 /\ i + 1 \in DOMAIN r /\ j + 1 \in DOMAIN r
        BY <1>2, <1>6, <3>3
      <4>2. QED
        BY <1>6, <3>3, <4>1 DEF IsRun
    <3>4. \A i \in DOMAIN q : q[i][2] \in Setting => Calling(q) \in DOMAIN livox_config /\ q[i][2] \in Configured(Calling(q))
      BY <1>6, <1>7, <2>2 DEF IsRun
    <3>5. QED
      BY <1>2, <2>2, <3>1, <3>2, <3>3, <3>4 DEF IsRun, T
  <2>3. QED
    BY <2>1, <2>2
<1>9. ToSet(r) = {Head(r)} \cup ToSet(q)
  <2>1. ASSUME NEW x \in ToSet(r) PROVE x \in {Head(r)} \cup ToSet(q)
    <3>1. PICK i \in DOMAIN r : x = r[i]
      BY DEF ToSet
    <3>2. i = 1 \/ (i - 1 \in DOMAIN q /\ (i - 1) + 1 = i)
      BY <1>2
    <3>3. QED
      BY <1>2, <1>6, <3>1, <3>2 DEF ToSet
  <2>2. ASSUME NEW x \in {Head(r)} \cup ToSet(q) PROVE x \in ToSet(r)
    BY <1>2, <1>6 DEF ToSet
  <2>3. QED
    BY <2>1, <2>2
<1>10. Head(r)[2] \notin Setting => \A x \in ToSet(r) : x[2] \notin Setting
  <2> SUFFICES ASSUME NEW i \in DOMAIN r, r[i][2] \in Setting PROVE r[1][2] \in Setting
    BY <1>2 DEF ToSet
  <2>1. CASE i = 1
    BY <2>1
  <2>2. CASE i # 1
    <3>1. 1 < i /\ 1 \in DOMAIN r
      BY <1>2, <2>2
    <3>2. QED
      BY <3>1 DEF IsRun
  <2>3. QED
    BY <2>1, <2>2
<1>11. QED
  BY <1>5, <1>7, <1>8, <1>9, <1>10 DEF q

\* LidarInfoChangeCallback: the call at the head of a callback.
LEMMA CallSends ==
  ASSUME SetupInv, NEW t \in Thread, LidarInfoChangeCallback(t)
  PROVE  Asking' /\ Complete' /\ Promised' /\ AllSettled'
<1>1. PICK r : r = running[t]
  OBVIOUS
<1>2. PICK l : l = Calling(r)
  OBVIOUS
<1>3. PICK cmd : cmd = Head(r)[2]
  OBVIOUS
<1>4. PICK rest : rest = Tail(r)
  OBVIOUS
<1>5. /\ r # <<>> /\ (cmd \in Setting => config_mutex_ \in {None, t})
      /\ config_mutex_' = (IF cmd \notin Setting THEN config_mutex_ ELSE IF Head(rest)[2] \in Setting THEN t ELSE None)
      /\ set_bits' = (IF cmd \in Setting THEN [set_bits EXCEPT ![l] = @ \cup {cmd}] ELSE set_bits)
      /\ pending' = BagAdd(pending, <<l, cmd>>) /\ running' = [running EXCEPT ![t] = rest]
      /\ livox_config' = livox_config /\ sampling' = sampling /\ value' = value /\ refused' = refused
  BY <1>1, <1>2, <1>3, <1>4 DEF LidarInfoChangeCallback, Send, Calling, lidars
<1>6. IsRun(r)
  BY <1>1 DEF SetupInv, Asking
<1>7. /\ l \in Lidar /\ cmd \in Command /\ Head(r) = <<l, cmd>>
      /\ cmd \in Setting => l \in DOMAIN livox_config /\ cmd \in Configured(l)
  BY <1>2, <1>3, <1>5, <1>6, FirstCall DEF Calling
<1>8. /\ IsRun(rest) /\ (rest # <<>> => Calling(rest) = l) /\ (cmd \in Setting => rest # <<>>)
      /\ ToSet(r) = {<<l, cmd>>} \cup ToSet(rest)
      /\ cmd \notin Setting => \A x \in ToSet(r) : x[2] \notin Setting
  BY <1>2, <1>3, <1>4, <1>5, <1>6, <1>7, TailRun
<1>9. (rest # <<>> /\ Head(rest)[2] \notin Setting) => \A x \in ToSet(rest) : x[2] \notin Setting
  BY <1>8, TailRun
<1>10. \A k : Configured(k)' = Configured(k) /\ Configured(k) \subseteq Setting
  BY <1>5 DEF Configured
<1>11. running'[t] = rest /\ \A x \in Thread : x # t => running'[x] = running[x]
  BY <1>5 DEF SetupInv, SetupShape
<1>12. \A k, c : Settled(k, c) => Settled(k, c)'
  BY <1>5, SettledSame
<1>13. /\ cmd \in Setting => set_bits'[l] = set_bits[l] \cup {cmd}
       /\ \A k : k # l \/ cmd \notin Setting => set_bits'[k] = set_bits[k]
  BY <1>5, <1>7 DEF SetupInv, SetupShape
<1>14. BagToSet(pending') \subseteq BagToSet(pending) \cup {<<l, cmd>>}
  BY <1>5, BagSets
<1>15. None \notin Thread
  BY DEF None, Thread
<1>16. /\ config_mutex_ \in Thread => running[config_mutex_] # <<>> /\ Head(running[config_mutex_])[2] \in Setting
       /\ cmd \notin Setting => config_mutex_ # t /\ config_mutex_' = config_mutex_
  BY <1>1, <1>3, <1>5 DEF SetupInv, Asking
<1>17. \A x \in Thread : IsRun(running[x])'
  <2>1. \A q : IsRun(q) => IsRun(q)'
    BY <1>5, <1>10 DEF IsRun, Calling
  <2> TAKE x \in Thread
  <2>2. PICK q : q = running'[x]
    OBVIOUS
  <2>3. IsRun(q)
    BY <1>8, <1>11, <2>2 DEF SetupInv, Asking
  <2>4. IsRun(q)'
    BY <2>1, <2>3
  <2>5. QED
    BY <2>2, <2>4 DEF IsRun, Calling
<1>18. Asking'
  <2>1. ASSUME NEW k \in Lidar, NEW s \in Setting, <<k, s>> \in BagToSet(pending')
        PROVE  k \in DOMAIN livox_config' /\ s \in Configured(k)'
    <3>1. CASE <<k, s>> \in BagToSet(pending)
      BY <1>5, <1>10, <3>1 DEF SetupInv, Asking
    <3>2. CASE k = l /\ s = cmd
      BY <1>5, <1>7, <1>10, <3>2
    <3>3. QED
      BY <1>14, <2>1, <3>1, <3>2
  <2>2. config_mutex_' \in Thread => running'[config_mutex_'] # <<>> /\ Head(running'[config_mutex_'])[2] \in Setting
    <3>1. CASE cmd \notin Setting
      BY <1>11, <1>16, <3>1
    <3>2. CASE cmd \in Setting
      BY <1>5, <1>8, <1>11, <1>15, <3>2
    <3>3. QED
      BY <3>1, <3>2
  <2>3. QED
    BY <1>17, <2>1, <2>2 DEF Asking
<1>19. Complete'
  <2> SUFFICES ASSUME NEW x \in Thread, running'[x] # <<>>, Head(running'[x])[2] \in Setting,
                      NEW k, k = Head(running'[x])[1], NEW c \in Configured(k)'
               PROVE  <<k, c>> \in ToSet(running'[x]) \/ (config_mutex_' = x /\ (c \in set_bits'[k] \/ Settled(k, c)'))
    BY SMTT(30) DEF Complete, Calling, Settled, Written, KeyOf
  <2>1. c \in Configured(k)
    BY <1>10
  <2>2. CASE x = t
    <3>1. k = l /\ cmd \in Setting /\ config_mutex_' = t
      <4>1. Calling(rest) = l /\ k = l
        BY <1>8, <1>11, <2>2 DEF Calling
      <4>2. Head(rest) \in ToSet(rest) /\ Head(rest)[2] \in Setting
        BY <1>8, <1>11, <2>2, FirstCall
      <4>3. QED
        BY <1>5, <1>8, <4>1, <4>2
    <3>2. <<l, c>> \in ToSet(r) \/ (config_mutex_ = t /\ (c \in set_bits[l] \/ Settled(l, c)))
      BY <1>1, <1>2, <1>3, <1>5, <2>1, <3>1 DEF SetupInv, Complete
    <3>3. QED
      BY <1>8, <1>11, <1>12, <1>13, <2>2, <3>1, <3>2
  <2>3. CASE x # t
    <3>1. running'[x] = running[x] /\ k = Calling(running[x])
      BY <1>11, <2>3 DEF Calling
    <3>2. <<k, c>> \in ToSet(running[x]) \/ (config_mutex_ = x /\ (c \in set_bits[k] \/ Settled(k, c)))
      BY <2>1, <3>1 DEF SetupInv, Complete
    <3>3. config_mutex_ = x => cmd \notin Setting
      BY <1>5, <1>15, <2>3
    <3>4. QED
      BY <1>12, <1>13, <1>16, <3>1, <3>2, <3>3
  <2>4. QED
    BY <2>2, <2>3
<1>20. ASSUME NEW k \in Lidar, Asked(k) PROVE Asked(k)'
  <2> SUFFICES ASSUME NEW c \in Configured(k)' PROVE c \in set_bits'[k] \/ Settled(k, c)'
    BY DEF Asked, Settled, Written, KeyOf
  <2>1. c \in set_bits[k] \/ Settled(k, c)
    BY <1>10, <1>20 DEF Asked
  <2>2. QED
    BY <1>12, <1>13, <2>1
<1>21. Promised'
  <2> SUFFICES ASSUME NEW k \in Lidar, NEW s \in Setting, <<k, s>> \in BagToSet(pending')
               PROVE  Asked(k)' \/ (config_mutex_' \in Thread /\ Head(running'[config_mutex_'])[1] = k)
    BY DEF Promised, Calling, Asked, Settled, Written, KeyOf
  <2>1. CASE cmd \notin Setting
    <3>1. <<k, s>> \in BagToSet(pending)
      BY <1>14, <2>1
    <3>2. Asked(k) \/ (config_mutex_ \in Thread /\ Head(running[config_mutex_])[1] = k)
      BY <3>1 DEF SetupInv, Promised, Calling
    <3>3. QED
      BY <1>11, <1>16, <1>20, <2>1, <3>2
  <2>2. CASE cmd \in Setting /\ k # l
    <3>1. <<k, s>> \in BagToSet(pending)
      BY <1>14, <2>2
    <3>2. Asked(k) \/ (config_mutex_ \in Thread /\ Calling(running[config_mutex_]) = k)
      BY <3>1 DEF SetupInv, Promised
    <3>3. Asked(k)
      BY <1>1, <1>2, <1>5, <1>15, <2>2, <3>2
    <3>4. QED
      BY <1>20, <3>3
  <2>3. CASE cmd \in Setting /\ k = l /\ Head(rest)[2] \in Setting
    BY <1>5, <1>8, <1>11, <2>3 DEF Calling
  <2>4. CASE cmd \in Setting /\ k = l /\ Head(rest)[2] \notin Setting
    <3> SUFFICES ASSUME NEW c \in Configured(l)' PROVE c \in set_bits'[l] \/ Settled(l, c)'
      BY <2>4 DEF Asked, Settled, Written, KeyOf
    <3>1. c \in Configured(l) /\ c \in Setting
      BY <1>10
    <3>2. <<l, c>> \in ToSet(r) \/ (config_mutex_ = t /\ (c \in set_bits[l] \/ Settled(l, c)))
      BY <1>1, <1>2, <1>3, <1>5, <2>4, <3>1 DEF SetupInv, Complete
    <3>3. <<l, c>> \notin ToSet(rest)
      BY <1>8, <1>9, <2>4, <3>1
    <3>4. QED
      BY <1>8, <1>12, <1>13, <2>4, <3>2, <3>3
  <2>5. QED
    BY <2>1, <2>2, <2>3, <2>4
<1>22. AllSettled'
  <2>1. sampling \subseteq Lidar
    BY DEF SetupInv, SetupRanges
  <2>2. QED
    BY <1>5, <1>10, <1>12, <2>1 DEF SetupInv, AllSettled
<1>23. QED
  BY <1>18, <1>19, <1>21, <1>22

-----------------------------------------------------------------------------
(* LidarSetup: the steps *)

LEMMA InitSetup == SetupInit => SetupInv
<1> SUFFICES ASSUME SetupInit PROVE SetupInv
  OBVIOUS
<1>1. BagToSet(pending) = {} /\ BagToSet(pending)  \subseteq Lidar \X Command
  BY DEF SetupInit, EmptyBag, SetToBag, BagToSet
<1>2. None \notin Thread
  BY DEF None, Thread
<1>3. SetupShape
  BY <1>1 DEF SetupInit, SetupShape
<1>4. SetupRanges
  BY SetupAssumption DEF SetupInit, SetupRanges
<1>5. \A t \in Thread : running[t] = <<>>
  BY DEF SetupInit
<1>6. IsRun(<<>>)
  BY DEF IsRun
<1>7. Asking /\ Promised
  BY <1>1, <1>2, <1>5, <1>6 DEF Asking, Promised, SetupInit
<1>8. Complete /\ AllSettled
  BY <1>5 DEF Complete, AllSettled, SetupInit
<1>9. QED
  BY <1>3, <1>4, <1>7, <1>8 DEF SetupInv

LEMMA SdkInitSetup == SetupInv /\ SdkInit => SetupInv'
<1> SUFFICES ASSUME SetupInv, SdkInit PROVE SetupInv'
  OBVIOUS
<1>1. /\ UNCHANGED <<devices_, updated, count, driver, lidars, pending, trouble>>
      /\ main = "init" /\ main' \in {"failed", "fill"}
  BY DEF SdkInit
<1>2. \A k, s : Settled(k, s) => Settled(k, s)'
  BY <1>1, SettledSame DEF driver, lidars
<1>3. Asking' /\ Complete' /\ Promised' /\ AllSettled'
  BY <1>1, <1>2, Kept DEF driver
<1>4. SetupShape'
  BY <1>1 DEF SetupInv, SetupShape, driver, lidars
<1>5. SetupRanges'
  BY <1>1 DEF SetupInv, SetupShape, SetupRanges, driver, Configured
<1>6. QED
  BY <1>3, <1>4, <1>5 DEF SetupInv

\* SetLivoxLidarInfoChangeCallback: nothing was asked of a lidar before.
LEMMA RegisterSetup == SetupInv /\ SetLivoxLidarInfoChangeCallback => SetupInv'
<1> SUFFICES ASSUME SetupInv, SetLivoxLidarInfoChangeCallback PROVE SetupInv'
  OBVIOUS
<1>1. /\ main = "fill" /\ main' = "run" /\ livox_config' = ParseUserConfigs(user)
      /\ set_bits' = [l \in DOMAIN user |-> {}]
      /\ custom_lidars_cfg_map_' = custom_lidars_cfg_map_ /\ devices_' = devices_ /\ updated' = updated
      /\ count' = count /\ sampling' = sampling /\ running' = running /\ config_mutex_' = config_mutex_
      /\ user' = user /\ value' = value /\ refused' = refused /\ pending' = pending /\ trouble' = trouble
  BY DEF SetLivoxLidarInfoChangeCallback, lidars
<1>2. /\ running = [t \in Thread |-> <<>>] /\ config_mutex_ = None /\ sampling = {}
      /\ BagToSet(pending) \subseteq Lidar \X {"FwType", "HostCfg"}
  BY <1>1 DEF SetupInv, SetupShape
<1>3. DOMAIN livox_config' = DOMAIN user
  BY <1>1 DEF ParseUserConfigs
<1>4. None \notin Thread
  BY DEF None, Thread
<1>5. \A k \in Lidar, s \in Setting : <<k, s>> \notin BagToSet(pending)
  BY <1>2 DEF Setting
<1>6. \A t \in Thread : running'[t] = <<>>
  BY <1>1, <1>2
<1>7. Asking'
  <2>1. <<>> \in Seq(Lidar \X Command)
    OBVIOUS
  <2>2. \A t \in Thread : IsRun(running[t])'
    BY <1>6, <2>1 DEF IsRun
  <2>3. QED
    BY <1>1, <1>2, <1>4, <1>5, <2>2 DEF Asking
<1>8. Complete'
  BY <1>6 DEF Complete
<1>9. Promised'
  BY <1>1, <1>5 DEF Promised
<1>10. AllSettled'
  BY <1>1, <1>2 DEF AllSettled
<1>11. SetupShape'
  <2>1. set_bits' = [l \in DOMAIN livox_config' |-> set_bits'[l]]
    BY <1>1, <1>3
  <2>2. QED
    BY <1>1, <2>1 DEF SetupInv, SetupShape
<1>12. SetupRanges'
  BY <1>1 DEF SetupInv, SetupRanges
<1>13. QED
  BY <1>7, <1>8, <1>9, <1>10, <1>11, <1>12 DEF SetupInv

LEMMA UninitSetup == SetupInv /\ LivoxLidarSdkUninit => SetupInv'
<1> SUFFICES ASSUME SetupInv, LivoxLidarSdkUninit PROVE SetupInv'
  OBVIOUS
<1>1. /\ UNCHANGED <<count, driver, lidars, pending, trouble>>
      /\ main = "run" /\ main' = "stopped" /\ custom_lidars_cfg_map_' = <<>> /\ devices_' = <<>> /\ updated' = {}
  BY DEF LivoxLidarSdkUninit
<1>2. \A k, s : Settled(k, s) => Settled(k, s)'
  BY <1>1, SettledSame DEF driver, lidars
<1>3. Asking' /\ Complete' /\ Promised' /\ AllSettled'
  BY <1>1, <1>2, Kept DEF driver
<1>4. SetupShape'
  BY <1>1 DEF SetupInv, SetupShape, driver, lidars
<1>5. SetupRanges'
  BY <1>1 DEF SetupInv, SetupRanges, driver, Configured
<1>6. QED
  BY <1>3, <1>4, <1>5 DEF SetupInv

\* A search answer changes the SDK's own maps and asks for nothing but its own commands.
LEMMA SearchSetup ==
  ASSUME SetupInv, NEW l \in Lidar, AddLidar(l) \/ NewDevice(l) \/ UpdateLidarCfg(l)
  PROVE  SetupInv'
<1>1. /\ UNCHANGED <<main, updated, count, driver, lidars, trouble>> /\ main \in {"fill", "run"}
  BY DEF AddLidar, NewDevice, UpdateLidarCfg, Listening, sdk
<1>2. BagToSet(pending') \subseteq BagToSet(pending) \cup {<<l, "FwType">>, <<l, "HostCfg">>}
  <2>1. \/ pending' = pending \/ pending' = BagAdd(pending, <<l, "FwType">>)
        \/ pending' = BagAdd(pending, <<l, "HostCfg">>)
    BY DEF AddLidar, NewDevice, UpdateLidarCfg, Send
  <2>2. QED
    BY <2>1, BagSets
<1>3. DOMAIN devices_' \subseteq DOMAIN custom_lidars_cfg_map_'
  <2>1. CASE AddLidar(l)
    BY <2>1 DEF AddLidar, Update, SetupInv, SetupRanges
  <2>2. CASE NewDevice(l)
    <3>1. l \in DOMAIN custom_lidars_cfg_map_
      BY <2>2 DEF NewDevice, OnData
    <3>2. DOMAIN devices_' = DOMAIN devices_ \cup {l} /\ custom_lidars_cfg_map_' = custom_lidars_cfg_map_
      BY <2>2 DEF NewDevice, Update
    <3>3. QED
      BY <3>1, <3>2 DEF SetupInv, SetupRanges
  <2>3. CASE UpdateLidarCfg(l)
    BY <2>3 DEF UpdateLidarCfg, sdk, SetupInv, SetupRanges
  <2>4. QED
    BY <2>1, <2>2, <2>3
<1>4. \A k, s : Settled(k, s) => Settled(k, s)'
  BY <1>1, SettledSame DEF driver, lidars
<1>5. \A k \in Lidar, s \in Setting : <<k, s>> \in BagToSet(pending') => <<k, s>> \in BagToSet(pending)
  BY <1>2 DEF Setting
<1>6. Asking' /\ Complete' /\ Promised' /\ AllSettled'
  BY <1>1, <1>4, <1>5, Kept DEF driver
<1>7. /\ BagToSet(pending') \subseteq Lidar \X Command
      /\ main = "fill" => BagToSet(pending') \subseteq Lidar \X {"FwType", "HostCfg"}
  <2>1. <<l, "FwType">> \in Lidar \X {"FwType", "HostCfg"} /\ <<l, "HostCfg">> \in Lidar \X {"FwType", "HostCfg"}
    OBVIOUS
  <2>2. <<l, "FwType">> \in Lidar \X Command /\ <<l, "HostCfg">> \in Lidar \X Command
    BY DEF Command
  <2>3. QED
    BY <1>2, <2>1, <2>2 DEF SetupInv, SetupShape
<1>8. SetupShape'
  BY <1>1, <1>7 DEF SetupInv, SetupShape, driver, lidars
<1>9. SetupRanges'
  BY <1>1, <1>3 DEF SetupInv, SetupRanges, driver, Configured
<1>10. QED
  BY <1>6, <1>8, <1>9 DEF SetupInv

\* LivoxLidarInfoChange on a thread without a callback: the driver's may start.
LEMMA Reported ==
  ASSUME SetupInv, NEW l \in Lidar, NEW t \in Thread, running[t] = <<>>, main \in {"fill", "run"},
         LivoxLidarInfoChange(l, t)
  PROVE  /\ DOMAIN devices_' = DOMAIN devices_ /\ DOMAIN running' = Thread
         /\ main = "fill" => running' = running
         /\ \/ running' = running
            \/ \E x \in Thread, k \in Lidar : running[x] = <<>> /\ running' = [running EXCEPT ![x] = Calls(k)]
<1>1. DOMAIN devices_' = DOMAIN devices_
  BY DEF LivoxLidarInfoChange
<1>2. running' = running \/ (main = "run" /\ running' = [running EXCEPT ![t] = Calls(l)])
  BY DEF LivoxLidarInfoChange
<1>3. DOMAIN running = Thread
  BY DEF SetupInv, SetupShape
<1>4. DOMAIN running' = Thread
  BY <1>2, <1>3
<1>5. QED
  BY <1>1, <1>2, <1>4

LEMMA LoaderSetup == ASSUME SetupInv, NEW l \in Lidar, LoaderFound(l) PROVE SetupInv'
<1>1. /\ UNCHANGED <<main, custom_lidars_cfg_map_, updated, count, livox_config, set_bits, sampling, config_mutex_,
                     lidars, pending, trouble>>
      /\ main \in {"fill", "run"} /\ running["detection"] = <<>> /\ LivoxLidarInfoChange(l, "detection")
  BY DEF LoaderFound, Listening
<1>2. "detection" \in Thread
  BY DEF Thread
<1>3. /\ DOMAIN devices_' = DOMAIN devices_ /\ DOMAIN running' = Thread
      /\ main = "fill" => running' = running
      /\ \/ running' = running
         \/ \E x \in Thread, k \in Lidar : running[x] = <<>> /\ running' = [running EXCEPT ![x] = Calls(k)]
  BY <1>1, <1>2, Reported
<1>4. \A k, s : Settled(k, s) => Settled(k, s)'
  BY <1>1, SettledSame DEF lidars
<1>5. Asking' /\ Complete' /\ Promised' /\ AllSettled'
  BY <1>1, <1>3, <1>4, Kept
<1>6. SetupShape'
  BY <1>1, <1>3 DEF SetupInv, SetupShape, lidars
<1>7. SetupRanges'
  BY <1>1, <1>3 DEF SetupInv, SetupRanges, Configured
<1>8. QED
  BY <1>5, <1>6, <1>7 DEF SetupInv

LEMMA SendSetup == ASSUME SetupInv, NEW t \in Thread, LidarInfoChangeCallback(t) PROVE SetupInv'
<1>1. PICK r : r = running[t]
  OBVIOUS
<1>2. PICK l : l = Head(r)[1]
  OBVIOUS
<1>3. PICK cmd : cmd = Head(r)[2]
  OBVIOUS
<1>4. /\ UNCHANGED <<sdk, livox_config, sampling, lidars, trouble>> /\ r # <<>>
      /\ cmd \in Setting => config_mutex_ \in {None, t}
      /\ config_mutex_' \in {config_mutex_, t, None} /\ pending' = BagAdd(pending, <<l, cmd>>)
      /\ set_bits' = (IF cmd \in Setting THEN [set_bits EXCEPT ![l] = @ \cup {cmd}] ELSE set_bits)
      /\ \E q : running' = [running EXCEPT ![t] = q]
  BY <1>1, <1>2, <1>3 DEF LidarInfoChangeCallback, Send
<1>5. /\ l \in Lidar /\ cmd \in Command
      /\ cmd \in Setting => l \in DOMAIN livox_config /\ cmd \in Configured(l)
  BY <1>1, <1>2, <1>3, <1>4, FirstCall DEF SetupInv, Asking, Calling
<1>6. main \in {"run", "stopped"}
  BY <1>1, <1>4 DEF SetupInv, SetupShape
<1>7. BagToSet(pending') \subseteq Lidar \X Command
  BY SMTT(30), <1>4, <1>5, BagSets DEF SetupInv, SetupShape
<1>8. DOMAIN running' = Thread
  BY <1>4 DEF SetupInv, SetupShape
<1>9. set_bits' = [k \in DOMAIN livox_config' |-> set_bits'[k]]
  <2>1. DOMAIN set_bits = DOMAIN livox_config /\ set_bits = [k \in DOMAIN livox_config |-> set_bits[k]]
    BY DEF SetupInv, SetupShape
  <2>2. QED
    BY <1>4, <2>1
<1>10. SetupShape'
  BY <1>4, <1>6, <1>7, <1>8, <1>9 DEF SetupInv, SetupShape, sdk, lidars
<1>11. SetupRanges'
  <2>1. \A k \in DOMAIN set_bits' : set_bits'[k] \subseteq Configured(k)'
    <3>1. \A k : Configured(k)' = Configured(k)
      BY <1>4 DEF Configured
    <3>2. \A k \in DOMAIN set_bits : set_bits[k] \subseteq Configured(k)
      BY DEF SetupInv, SetupRanges
    <3>3. \A k \in DOMAIN set_bits' : k \in DOMAIN set_bits /\ (set_bits'[k] = set_bits[k] \/ (k = l /\ cmd \in Setting /\ set_bits'[k] = set_bits[k] \cup {cmd}))
      BY <1>4
    <3>4. QED
      BY <1>5, <3>1, <3>2, <3>3
  <2>2. config_mutex_' \in Thread \cup {None}
    BY <1>4 DEF SetupInv, SetupRanges
  <2>3. QED
    BY <1>4, <2>1, <2>2 DEF SetupInv, SetupRanges, sdk
<1>12. QED
  BY <1>10, <1>11, CallSends DEF SetupInv

\* The part of SetupShape and SetupRanges that the end of a command can change.
LEMMA EndedCommand ==
  ASSUME SetupInv, main' = main, main \in {"fill", "run"}, user' = user, livox_config' = livox_config,
         custom_lidars_cfg_map_' = custom_lidars_cfg_map_, DOMAIN devices_' = DOMAIN devices_,
         main = "fill" => running' = running /\ set_bits' = set_bits /\ sampling' = sampling /\ config_mutex_' = config_mutex_,
         DOMAIN running' = Thread, set_bits' = [k \in DOMAIN livox_config |-> set_bits'[k]],
         \A k \in DOMAIN set_bits : set_bits'[k] \subseteq set_bits[k],
         value' = [k \in Lidar |-> value'[k]], BagToSet(pending') \subseteq BagToSet(pending),
         updated' \cup sampling' \subseteq Lidar, count' \in 0 .. RetryLimit + 1,
         config_mutex_' = config_mutex_, trouble' \in 0 .. MaxTrouble
  PROVE  SetupShape' /\ SetupRanges'
<1>1. SetupShape'
  BY DEF SetupInv, SetupShape
<1>2. \A k \in DOMAIN set_bits' : set_bits'[k] \subseteq Configured(k)'
  <2>1. \A k : Configured(k)' = Configured(k)
    BY DEF Configured
  <2>2. DOMAIN set_bits' = DOMAIN set_bits
    BY DEF SetupInv, SetupShape
  <2>3. QED
    BY <2>1, <2>2 DEF SetupInv, SetupRanges
<1>3. SetupRanges'
  BY <1>2 DEF SetupInv, SetupRanges
<1>4. QED
  BY <1>1, <1>3

LEMMA RetryBound == RetryLimit \in Nat
<1>1. RetryLimit \in 0 .. 126
  BY SetupAssumption, Zenon
<1>2. QED
  BY <1>1

LEMMA CallbackSetup ==
  ASSUME SetupInv, NEW l \in Lidar, NEW cmd \in Command, NEW status \in {"ok", "refused", "timeout"},
         <<l, cmd>> \in BagToSet(pending), main \in {"fill", "run"},
         status # "timeout" => running["command"] = <<>>, Callback(l, cmd, status),
         value' = [k \in Lidar |-> value'[k]], trouble' \in 0 .. MaxTrouble,
         \A k \in Lidar, s \in Setting : Settled(k, s) => Settled(k, s)',
         (cmd \in Setting /\ status # "timeout") => Settled(l, cmd)'
  PROVE  SetupInv'
<1>1. main' = main /\ custom_lidars_cfg_map_' = custom_lidars_cfg_map_ /\ user' = user
  BY DEF Callback
<1>2. \/ cmd = "FwType" /\ QueryFwTypeCallback(l, status)
      \/ cmd = "HostCfg" /\ UpdateLidarCallback(l, status)
      \/ cmd \in Setting /\ SetCallback(l, cmd, status)
      \/ cmd \in {"Attitude", "WorkMode", "Imu"} /\ OtherCallback(l, cmd, status)
  BY DEF Callback, Command, Setting
<1>3. /\ DOMAIN running = Thread /\ DOMAIN set_bits = DOMAIN livox_config
      /\ set_bits = [k \in DOMAIN livox_config |-> set_bits[k]]
      /\ updated \subseteq Lidar /\ sampling \subseteq Lidar /\ count \in 0 .. RetryLimit + 1
  BY DEF SetupInv, SetupShape, SetupRanges
<1>4. RetryLimit \in Nat
  BY RetryBound
<1>5. ASSUME pending' = pending \/ Done(l, cmd)
      PROVE  BagToSet(pending') \subseteq BagToSet(pending)
    BY <1>5, BagSets DEF Done
<1>6. CASE cmd = "FwType" /\ QueryFwTypeCallback(l, status)
  <2>1. UNCHANGED <<updated, driver>> /\ (pending' = pending \/ Done(l, cmd))
    BY <1>6 DEF QueryFwTypeCallback, SendAgain
  <2>2. DOMAIN devices_' = DOMAIN devices_
    BY <1>6 DEF QueryFwTypeCallback, UpdateFwType
  <2>3. count' \in 0 .. RetryLimit + 1
    <3>1. count' = 0 \/ (~(count > RetryLimit) /\ count' = count + 1)
      BY <1>6 DEF QueryFwTypeCallback
    <3>2. 0 \in 0 .. RetryLimit + 1 /\ (~(count > RetryLimit) => count + 1 \in 0 .. RetryLimit + 1)
      BY <1>3, <1>4
    <3>3. QED
      BY <3>1, <3>2
  <2>4. BagToSet(pending') \subseteq BagToSet(pending)
    BY <1>5, <2>1
  <2>5. Asking' /\ Complete' /\ Promised' /\ AllSettled'
    BY <2>1, <2>4, Kept DEF driver
  <2>6. SetupShape' /\ SetupRanges'
    BY <1>1, <1>3, <2>1, <2>2, <2>3, <2>4, EndedCommand DEF driver
  <2>7. QED
    BY <2>5, <2>6 DEF SetupInv
<1>7. CASE cmd = "HostCfg" /\ UpdateLidarCallback(l, status)
  <2>1. /\ UNCHANGED <<count, livox_config, set_bits, sampling, config_mutex_>> /\ Done(l, cmd)
        /\ updated' \subseteq Lidar
    BY <1>3, <1>7 DEF UpdateLidarCallback
  <2>2. UNCHANGED <<devices_, running>> \/ (status # "timeout" /\ LivoxLidarInfoChange(l, "command"))
    BY <1>7 DEF UpdateLidarCallback, HapReports, Mid360Reports, Mid360sReports
  <2>3. BagToSet(pending') \subseteq BagToSet(pending)
    BY <1>5, <2>1
  <2>4. /\ DOMAIN devices_' = DOMAIN devices_ /\ DOMAIN running' = Thread
        /\ main = "fill" => running' = running
        /\ \/ running' = running
           \/ \E x \in Thread, k \in Lidar : running[x] = <<>> /\ running' = [running EXCEPT ![x] = Calls(k)]
    <3>1. CASE UNCHANGED <<devices_, running>>
      BY <1>3, <3>1
    <3>2. CASE status # "timeout" /\ LivoxLidarInfoChange(l, "command")
      <4>1. "command" \in Thread
        BY DEF Thread
      <4>2. QED
        BY <3>2, <4>1, Reported
    <3>3. QED
      BY <2>2, <3>1, <3>2
  <2>5. Asking' /\ Complete' /\ Promised' /\ AllSettled'
    BY <2>1, <2>3, <2>4, Kept
  <2>6. SetupShape' /\ SetupRanges'
    BY <1>1, <1>3, <2>1, <2>3, <2>4, EndedCommand
  <2>7. QED
    BY <2>5, <2>6 DEF SetupInv
<1>8. CASE cmd \in Setting /\ SetCallback(l, cmd, status)
  <2>1. UNCHANGED <<devices_, updated, count, livox_config, running, config_mutex_>> /\ (pending' = pending \/ Done(l, cmd))
    BY <1>8 DEF SetCallback, SendAgain
  <2>2. BagToSet(pending') \subseteq BagToSet(pending)
    BY <1>5, <2>1
  <2>3. CASE status = "timeout"
    <3>1. UNCHANGED <<set_bits, sampling>>
      BY <1>8, <2>3 DEF SetCallback
    <3>2. Asking' /\ Complete' /\ Promised' /\ AllSettled'
      BY <2>1, <2>2, <3>1, Kept
    <3>3. SetupShape' /\ SetupRanges'
      BY <1>1, <1>3, <2>1, <2>2, <3>1, EndedCommand
    <3>4. QED
      BY <3>2, <3>3 DEF SetupInv
  <2>4. CASE status # "timeout"
    <3>1. /\ config_mutex_ = None /\ set_bits' = [set_bits EXCEPT ![l] = @ \ {cmd}]
          /\ sampling' = IF set_bits'[l] = {} THEN sampling \cup {l} ELSE sampling
      BY <1>8, <2>4 DEF SetCallback
    <3>2. Asking' /\ Complete' /\ Promised' /\ AllSettled'
      BY <1>8, <2>1, <2>2, <2>4, <3>1, SettingDone
    <3>3. main # "fill"
      BY <1>8 DEF SetupInv, SetupShape, Setting
    <3>4. set_bits' = [k \in DOMAIN livox_config |-> set_bits'[k]] /\ \A k \in DOMAIN set_bits : set_bits'[k] \subseteq set_bits[k]
      BY <1>3, <3>1
    <3>5. SetupShape' /\ SetupRanges'
      BY <1>1, <1>3, <2>1, <2>2, <3>1, <3>3, <3>4, EndedCommand
    <3>6. QED
      BY <3>2, <3>5 DEF SetupInv
  <2>5. QED
    BY <2>3, <2>4
<1>9. CASE cmd \in {"Attitude", "WorkMode", "Imu"} /\ OtherCallback(l, cmd, status)
  <2>1. UNCHANGED <<devices_, updated, count, driver>> /\ (pending' = pending \/ Done(l, cmd))
    BY <1>9 DEF OtherCallback, SendAgain
  <2>2. BagToSet(pending') \subseteq BagToSet(pending)
    BY <1>5, <2>1
  <2>3. Asking' /\ Complete' /\ Promised' /\ AllSettled'
    BY <2>1, <2>2, Kept DEF driver
  <2>4. SetupShape' /\ SetupRanges'
    BY <1>1, <1>3, <2>1, <2>2, EndedCommand DEF driver
  <2>5. QED
    BY <2>3, <2>4 DEF SetupInv
<1>10. QED
  BY <1>2, <1>6, <1>7, <1>8, <1>9

\* Execute: a request that is not the driver's leaves the parameters alone.
LEMMA Executed ==
  ASSUME SetupInv, NEW l \in Lidar, NEW cmd \in Command, Execute(l, cmd), livox_config' = livox_config
  PROVE  /\ value' = [k \in Lidar |-> value'[k]] /\ refused' = refused
         /\ \A k \in Lidar, s \in Setting : Settled(k, s) => Settled(k, s)'
         /\ cmd \in Setting => Settled(l, cmd)'
<1>1. SetupShape /\ value = [k \in Lidar |-> value[k]]
  BY DEF SetupInv, SetupShape
<1>2. CASE cmd \in {"FwType", "HostCfg"}
  <2>1. value' = value /\ refused' = refused /\ cmd \notin Setting
    BY <1>2 DEF Execute, Setting
  <2>2. QED
    BY <1>1, <2>1, SettledSame
<1>3. CASE cmd \in Command \ {"FwType", "HostCfg"}
  <2>1. value' = [value EXCEPT ![l] = Update(@, KeyOf(l, cmd)[1], KeyOf(l, cmd)[2])] /\ refused' = refused
    BY <1>3 DEF Execute, KeyOf
  <2>2. /\ \A k \in Lidar, s \in Setting : Settled(k, s) => Settled(k, s)'
        /\ Written(l, cmd)' /\ value' = [k \in Lidar |-> value'[k]]
    BY <1>1, <1>3, <2>1, SettledKept
  <2>3. QED
    BY <2>1, <2>2 DEF Settled
<1>4. QED
  BY <1>2, <1>3

LEMMA SettingsStay == ASSUME NEW l, NEW cmd \in Command, NEW status, Callback(l, cmd, status) PROVE livox_config' = livox_config
<1>1. \/ QueryFwTypeCallback(l, status) \/ UpdateLidarCallback(l, status)
      \/ SetCallback(l, cmd, status) \/ OtherCallback(l, cmd, status)
  BY DEF Callback, Command, Setting
<1>2. QED
  BY <1>1 DEF QueryFwTypeCallback, UpdateLidarCallback, SetCallback, OtherCallback, driver

LEMMA AnswerSetup ==
  ASSUME SetupInv, NEW l \in Lidar, NEW cmd \in Command,
         Accepted(l, cmd) \/ Refused(l, cmd) \/ \E done \in BOOLEAN : TimedOut(l, cmd, done)
  PROVE  SetupInv'
<1>1. trouble \in 0 .. MaxTrouble /\ MaxTrouble \in Nat
  BY SetupAssumption DEF SetupInv, SetupRanges
<1>2. trouble < MaxTrouble => trouble + 1 \in 0 .. MaxTrouble
  BY <1>1
<1>3. value = [k \in Lidar |-> value[k]]
  BY DEF SetupInv, SetupShape
<1>4. CASE Accepted(l, cmd)
  <2>1. /\ Execute(l, cmd) /\ Callback(l, cmd, "ok") /\ trouble' = trouble /\ <<l, cmd>> \in BagToSet(pending)
        /\ main \in {"fill", "run"} /\ running["command"] = <<>>
    BY <1>4 DEF Accepted, Answered, Listening, BagIn
  <2>2. livox_config' = livox_config
    BY <2>1, SettingsStay
  <2>3. /\ value' = [k \in Lidar |-> value'[k]] /\ (cmd \in Setting => Settled(l, cmd)')
        /\ \A k \in Lidar, s \in Setting : Settled(k, s) => Settled(k, s)'
    BY <2>1, <2>2, Executed
  <2>4. QED
    BY <1>1, <2>1, <2>3, CallbackSetup
<1>5. CASE Refused(l, cmd)
  <2>1. /\ refused' = refused \cup {<<l, cmd>>} /\ value' = value /\ Callback(l, cmd, "refused")
        /\ trouble' = trouble + 1 /\ trouble < MaxTrouble /\ <<l, cmd>> \in BagToSet(pending)
        /\ main \in {"fill", "run"} /\ running["command"] = <<>>
    BY <1>5 DEF Refused, Answered, Listening, BagIn
  <2>2. livox_config' = livox_config
    BY <2>1, SettingsStay
  <2>3. \A k, s : Settled(k, s) => Settled(k, s)'
    BY <2>1, <2>2, SettledSame
  <2>4. Settled(l, cmd)'
    BY <2>1 DEF Settled
  <2>5. QED
    BY <1>2, <1>3, <2>1, <2>3, <2>4, CallbackSetup
<1>6. CASE \E done \in BOOLEAN : TimedOut(l, cmd, done)
  <2>1. PICK done \in BOOLEAN : TimedOut(l, cmd, done)
    BY <1>6
  <2>2. /\ Callback(l, cmd, "timeout") /\ trouble' = trouble + 1 /\ trouble < MaxTrouble
        /\ <<l, cmd>> \in BagToSet(pending) /\ main \in {"fill", "run"}
        /\ Execute(l, cmd) \/ (value' = value /\ refused' = refused)
    BY <2>1 DEF TimedOut, BagIn
  <2>3. livox_config' = livox_config
    BY <2>2, SettingsStay
  <2>4. value' = [k \in Lidar |-> value'[k]] /\ \A k \in Lidar, s \in Setting : Settled(k, s) => Settled(k, s)'
    <3>1. CASE Execute(l, cmd)
      BY <2>3, <3>1, Executed
    <3>2. CASE value' = value /\ refused' = refused
      BY <1>3, <2>3, <3>2, SettledSame
    <3>3. QED
      BY <2>2, <3>1, <3>2
  <2>5. QED
    BY <1>2, <2>2, <2>4, CallbackSetup
<1>7. QED
  BY <1>4, <1>5, <1>6

LEMMA NextSetup == SetupInv /\ [SetupNext]_setupVars => SetupInv'
<1> SUFFICES ASSUME SetupInv, [SetupNext]_setupVars PROVE SetupInv'
  OBVIOUS
<1>1. CASE SetupNext
  BY <1>1, SdkInitSetup, RegisterSetup, UninitSetup, SearchSetup, LoaderSetup, SendSetup, AnswerSetup DEF SetupNext
<1>2. CASE UNCHANGED setupVars
  <2>1. UNCHANGED <<main, custom_lidars_cfg_map_, devices_, updated, count, driver, lidars, pending, trouble>>
    BY <1>2 DEF setupVars, sdk
  <2>2. \A k, s : Settled(k, s) => Settled(k, s)'
    BY <2>1, SettledSame DEF driver, lidars
  <2>3. Asking' /\ Complete' /\ Promised' /\ AllSettled'
    BY <2>1, <2>2, Kept DEF driver
  <2>4. SetupShape' /\ SetupRanges'
    BY <2>1 DEF SetupInv, SetupShape, SetupRanges, driver, lidars, Configured
  <2>5. QED
    BY <2>3, <2>4 DEF SetupInv
<1>3. QED
  BY <1>1, <1>2

-----------------------------------------------------------------------------
(* LidarSetup: what the user asked for *)

LEMMA Int8Same == ASSUME NEW v \in -128 .. 127 PROVE Int8(v) = v
<1>1. v + 128 \in 0 .. 255
  OBVIOUS
<1>2. \A x \in 0 .. 255 : x % 256 = x
  OBVIOUS
<1>3. (v + 128) % 256 = v + 128
  BY <1>1, <1>2
<1>4. QED
  BY <1>3 DEF Int8

LEMMA WishesKept == SetupInv => SettingsAgreed
<1> SUFFICES ASSUME SetupInv, NEW l \in sampling, NEW s \in DOMAIN user[l],
                    user[l][s] \in (-128 .. 127) \ {-1}, <<l, s>> \notin refused
             PROVE  LET w == LidarKey(s, user[l][s]) IN w[1] \in DOMAIN value[l] /\ value[l][w[1]] = w[2]
  BY DEF SettingsAgreed
<1>1. /\ main \in {"run", "stopped"} /\ livox_config = ParseUserConfigs(user)
  BY DEF SetupInv, SetupShape
<1>2. l \in DOMAIN livox_config /\ \A c \in Configured(l) : Settled(l, c)
  BY DEF SetupInv, AllSettled
<1>3. DOMAIN livox_config = DOMAIN user
  BY <1>1 DEF ParseUserConfigs
<1>4. user \in UserConfigs /\ l \in DOMAIN user
  BY <1>2, <1>3 DEF SetupInv, SetupShape
<1>5. s \in Setting
  BY <1>4, SetupAssumption
<1>6. PICK v : v = user[l][s]
  OBVIOUS
<1>7. livox_config[l][s] = v
  <2>1. livox_config[l][s] = Int8(v)
    BY <1>1, <1>4, <1>5, <1>6 DEF ParseUserConfigs
  <2>2. Int8(v) = v
    BY <1>6, Int8Same
  <2>3. QED
    BY <2>1, <2>2
<1>8. s \in Configured(l)
  BY <1>5, <1>6, <1>7 DEF Configured
<1>9. Written(l, s)
  BY <1>2, <1>8 DEF Settled
<1>10. KeyOf(l, s) = LidarKey(s, v)
  BY <1>5, <1>7 DEF KeyOf
<1>11. QED
  BY <1>6, <1>9, <1>10 DEF Written

\* Whatever was lost, refused, repeated or answered late, and however the two IO threads
\* run the driver's callback beside the answers to it: a lidar that the driver shows as
\* sampling has the settings its user wrote, for every network and every list of wishes.
THEOREM SettingsKept == SetupSpec => []SettingsAgreed
<1>1. SetupInit => SetupInv
  BY InitSetup
<1>2. SetupInv /\ [SetupNext]_setupVars => SetupInv'
  BY NextSetup
<1>3. SetupInv => SettingsAgreed
  BY WishesKept
<1>4. QED
  BY <1>1, <1>2, <1>3, PTL DEF SetupSpec

\* A detected lidar is one the SDK has a configuration for, the bits of the driver are of
\* settings it sends, and no request under way is for anything but a lidar's command: the
\* queries counted and the troubles stay within their limits.
THEOREM SetupBounded == SetupSpec => []SetupTypeOK
<1>1. SetupInit => SetupInv
  BY InitSetup
<1>2. SetupInv /\ [SetupNext]_setupVars => SetupInv'
  BY NextSetup
<1>3. SetupInv => SetupTypeOK
  BY DEF SetupInv, SetupShape, SetupRanges, SetupTypeOK
<1>4. QED
  BY <1>1, <1>2, <1>3, PTL DEF SetupSpec

-----------------------------------------------------------------------------
(* Programs *)

\* A behavior of Programs is one of each program, most of them standing still.
LEMMA EachProgram == Spec => SetupSpec /\ UpgradeSpec /\ LogSpec /\ NodeSpec
<1>1. Init => SetupInit /\ UpgradeInit /\ LogInit /\ NodeInit
  BY DEF Init
<1>2. [Next]_programVars => /\ [SetupNext]_setupVars /\ [UpgradeNext]_upgradeVars
                            /\ [LogNext]_logVars /\ [NodeNext]_nodeVars
  <2> SUFFICES ASSUME [Next]_programVars
               PROVE  /\ [SetupNext]_setupVars /\ [UpgradeNext]_upgradeVars
                      /\ [LogNext]_logVars /\ [NodeNext]_nodeVars
    OBVIOUS
  <2>1. CASE Next
    BY <2>1 DEF Next
  <2>2. CASE UNCHANGED programVars
    BY <2>2 DEF programVars
  <2>3. QED
    BY <2>1, <2>2
<1>3. QED
  BY <1>1, <1>2, PTL DEF Spec, SetupSpec, UpgradeSpec, LogSpec, NodeSpec

\* Of the four programs together: every variable is of its type, no counter leaves its range.
THEOREM TypeCorrect == Spec => []TypeOK
<1>1. SetupTypeOK /\ UpgradeTypeOK /\ LogTypeOK /\ NodeTypeOK => TypeOK
  BY DEF TypeOK
<1>2. QED
  BY <1>1, EachProgram, SetupBounded, UpgradeBounded, LogBounded, NodeBounded, PTL
=============================================================================
