------------------------------ MODULE Upgrader ------------------------------
\* LivoxLidarUpgrader: the state machine that sends a firmware image to one lidar, block
\* by block, over the acknowledged commands of the SDK. The upgraders of several lidars
\* share nothing but the image.
\*
\* The state machine runs in the callbacks of its own commands, on cmd_io_thread, which reads
\* the answers, or on any I/O thread that finds a command timed out. A command can call back
\* twice, and two chains of commands continue where there was one:
\*  - when its datagram cannot be sent it calls back at once, and then it is registered: it
\*    times out as well;
\*  - GeneralCommandHandler registers a command after it is sent, HapCommandHandler before
\*    that too: an answer or a time-out in between does not stop the second one's.
EXTENDS Integers, Bags, BagsExt

CONSTANTS
  FirmwareLength, ReadLength,   \* of the image and of a block (1024 bytes)
  TryLimit, ProgressTryLimit,   \* kGeneralTryCountLimit (10), kGetProcessTryCountLimit (30)
  MaxFaults                     \* bound on lost, refused, unsent and doubly registered commands

ASSUME UpgraderAssumption ==
  /\ {FirmwareLength, ReadLength, TryLimit, ProgressTryLimit} \subseteq Nat \ {0}
  /\ TryLimit <= ProgressTryLimit
  /\ MaxFaults \in Nat

VARIABLES
  firmware_,     \* "whole", or "truncated": Open goes on with what it could read
  fsm_state_, read_offset_, try_count_,
  upgrade_thread_,  \* "created", "run"; "destroyed" once the destructor saw the end
  requests,      \* bag of registered commands [cmd, offset, sent, between]: sent if an answer
                 \* may come, between what may still call back before the second registration
  written,       \* offsets of the blocks the lidar has stored since it was told to start
  doubled,       \* a command has called back more than once
  faults

upgradeVars == <<firmware_, fsm_state_, read_offset_, try_count_, upgrade_thread_, requests,
                 written, doubled, faults>>

Blocks == {o \in 0 .. FirmwareLength - 1 : o % ReadLength = 0}

\* upgrade_event_table, with the command each handler sends.
Row(s, e, cmd, n) == [state |-> s, event |-> e, handler |-> cmd, next |-> n]
upgrade_event_table ==
  { Row("Idle", "RequestUpgrade", "StartUpgrade", "Request"),
    Row("Request", "RequestUpgrade", "StartUpgrade", "Request"),
    Row("Request", "XferFirmware", "XferFirmware", "XferFirmware"),
    Row("XferFirmware", "XferFirmware", "XferFirmware", "XferFirmware"),
    Row("XferFirmware", "CompleteXferFirmware", "CompleteXferFirmware", "CompleteXferFirmware"),
    Row("CompleteXferFirmware", "CompleteXferFirmware", "CompleteXferFirmware", "CompleteXferFirmware"),
    Row("CompleteXferFirmware", "GetUpgradeProgress", "GetUpgradeProgress", "GetUpgradeProgress"),
    Row("GetUpgradeProgress", "GetUpgradeProgress", "GetUpgradeProgress", "GetUpgradeProgress"),
    Row("GetUpgradeProgress", "Complete", "RequestReboot", "Complete"),
    Row("Complete", "Complete", "RequestReboot", "Complete"),
    Row("Complete", "Reinit", "none", "Idle") }

\* What the state machine is fed with again when a command gets no answer, and how often.
EventOf(cmd) == CASE cmd = "StartUpgrade" -> "RequestUpgrade" [] cmd = "RequestReboot" -> "Complete"
                  [] OTHER -> cmd
Limit(cmd) == IF cmd = "GetUpgradeProgress" THEN ProgressTryLimit ELSE TryLimit
LastEvent(cmd) == IF cmd = "RequestReboot" THEN "Reinit" ELSE "Err"

\* The state after an event no handler is left for: only Err, and the end of a reboot.
EndState(state, event) == IF event = "Err" THEN "Err" ELSE IF event = "Reinit" THEN "Idle" ELSE state

\* A bag of n times the same command.
Copies(q, n) == [x \in IF n = 0 THEN {} ELSE {q} |-> n]

\* What may overtake the second registration of a command (none of it, but for a HAP): its
\* time-out, and its answer unless the thread that sends it is the one that reads answers.
FromCmdThread == {"timeout"}
FromOtherThread == {"timeout", "answer"}

\* One command: fails datagrams cannot be sent, each a registered command and a call of
\* the response handler at once, until one is sent or the tries are used up.
Issue(cmd, offset, next, tries, left, cost, between) ==
  \E fails \in 0 .. MaxFaults - faults - cost :
    LET Request(sent) == [cmd |-> cmd, offset |-> offset, sent |-> sent,
                          between |-> IF sent THEN between ELSE {"timeout"}]
        given_up == tries + fails >= Limit(cmd)
        failed == left (+) Copies(Request(FALSE), fails)
    IN  /\ tries + fails <= Limit(cmd)
        /\ fsm_state_' = IF given_up THEN EndState(next, LastEvent(cmd)) ELSE next
        /\ try_count_' = IF given_up THEN 0 ELSE tries + fails
        /\ requests' = IF given_up THEN failed
                       ELSE BagAdd(failed, Request(TRUE))
        /\ faults' = faults + cost + fails

\* FsmEventHandler: the row of the table, if there is one. StartUpgrade begins at the
\* start of the image; XferFirmware sends nothing beyond its end.
FsmEventHandler(event, tries, offset, left, cost, between) ==
  LET state == IF event = "Err" THEN "Err" ELSE fsm_state_
      rows == {r \in upgrade_event_table : r.state = state /\ r.event = event}
      silent == /\ fsm_state_' = IF rows = {} THEN state ELSE (CHOOSE r \in rows : TRUE).next
                /\ try_count_' = tries /\ requests' = left /\ faults' = faults + cost
  IN  IF rows = {} THEN silent /\ read_offset_' = offset
      ELSE LET r == CHOOSE x \in rows : TRUE
           IN  /\ read_offset_' = IF r.handler = "StartUpgrade" THEN 0 ELSE offset
               /\ IF \/ r.handler = "none"
                     \/ r.handler = "XferFirmware" /\ offset >= FirmwareLength
                  THEN silent
                  ELSE Issue(r.handler, read_offset_', r.next, tries, left, cost, between)

\* A command was called back early, before its second registration, or could not be sent.
Twice(early, cost) == doubled' = (doubled \/ early \/ faults' > faults + cost)

\* The thread of StartUpgradeLivoxLidar.
StartUpgradeLivoxLidar ==
  /\ upgrade_thread_ = "created"
  /\ upgrade_thread_' = "run"
  /\ FsmEventHandler("RequestUpgrade", try_count_, read_offset_, requests, 0, FromOtherThread)
  /\ Twice(FALSE, 0)
  /\ UNCHANGED <<firmware_, written>>

\* The lidar stores a block, and refuses an image that is not complete and right.
Store(q) ==
  written' = CASE q.cmd = "StartUpgrade" -> {}
               [] q.cmd = "XferFirmware" -> written \cup {q.offset}
               [] OTHER -> written
Acceptable(q) == q.cmd = "CompleteXferFirmware" => written = Blocks /\ firmware_ = "whole"

\* The events of the response handlers for an answer without error. A block counts as
\* sent when it is acknowledged, whatever its offset was.
Advance(q) == IF q.cmd = "XferFirmware" THEN read_offset_ + ReadLength ELSE read_offset_
NextEvents(q) ==
  CASE q.cmd = "StartUpgrade" -> {"XferFirmware"}
    [] q.cmd = "XferFirmware" -> {IF Advance(q) < FirmwareLength THEN "XferFirmware"
                                  ELSE "CompleteXferFirmware"}
    [] q.cmd = "CompleteXferFirmware" -> {"GetUpgradeProgress"}
    [] q.cmd = "GetUpgradeProgress" -> {"GetUpgradeProgress", "Complete"}
    [] q.cmd = "RequestReboot" -> {"Reinit"}

\* Mutant of OffsetUnanswered: the offset is advanced when a block is sent.
OffsetUnansweredSent(q) == Advance(q)

\* The offset the handler goes on from when no answer came: the same.
OffsetUnanswered(q) == read_offset_

\* q calls back, by its answer or its time-out, which uses up cost faults; early: before its
\* second registration.
CallsBack(q, by, early, cost) ==
  /\ BagIn(q, requests) /\ upgrade_thread_ = "run"
  /\ by = "answer" => q.sent
  /\ early => by \in q.between
  /\ faults + cost <= MaxFaults

\* The commands left registered: q again if it was early, and then answerable says whether
\* an answer may yet come.
Left(q, early, answerable) ==
  LET others == BagRemove(requests, q)
  IN IF early THEN BagAdd(others, [q EXCEPT !.sent = answerable, !.between = {}]) ELSE others

Cost(b) == IF b THEN 1 ELSE 0

Succeeded(q, early) ==
  /\ CallsBack(q, "answer", early, Cost(early)) /\ Acceptable(q)
  /\ Store(q)
  /\ \E e \in NextEvents(q) :
       FsmEventHandler(e, 0, Advance(q), Left(q, early, FALSE), Cost(early), FromCmdThread)
  /\ Twice(early, Cost(early))
  /\ UNCHANGED <<firmware_, upgrade_thread_>>

\* A lidar that is busy or erasing is asked again.
Busy(q, early) ==
  LET cost == 1 + Cost(early)
  IN  /\ CallsBack(q, "answer", early, cost) /\ q.cmd = "StartUpgrade"
      /\ FsmEventHandler("RequestUpgrade", 0, read_offset_, Left(q, early, FALSE), cost,
                         FromCmdThread)
      /\ Twice(early, cost)
      /\ UNCHANGED <<firmware_, upgrade_thread_, written>>

Failed(q, early) ==
  LET cost == Cost(Acceptable(q)) + Cost(early)
  IN  /\ CallsBack(q, "answer", early, cost)
      /\ FsmEventHandler("Err", 0, read_offset_, Left(q, early, FALSE), cost, FromCmdThread)
      /\ Twice(early, cost)
      /\ UNCHANGED <<firmware_, upgrade_thread_, written>>

\* No answer in time: the lidar may have carried the command out (done). A command that was
\* never sent times out in any case. Any I/O thread may find the command.
TimedOutAfter(q, done, early) ==
  LET cost == Cost(q.sent) + Cost(early)
      tries == try_count_ + 1
      again == tries < Limit(q.cmd)
  IN  /\ CallsBack(q, "timeout", early, cost)
      /\ done => q.sent /\ ~early
      /\ IF done THEN Store(q) ELSE UNCHANGED written
      /\ \E thread \in {FromCmdThread, FromOtherThread} :
           FsmEventHandler(IF again THEN EventOf(q.cmd) ELSE LastEvent(q.cmd),
                           IF again THEN tries ELSE 0,
                           OffsetUnanswered(q), Left(q, early, q.sent), cost, thread)
      /\ Twice(early, cost)
      /\ UNCHANGED <<firmware_, upgrade_thread_>>

\* The destructor returns as soon as it sees Idle or Err, also the Idle of an upgrade that
\* the thread has not begun yet: it waits for the thread and the object is gone.
Destroy ==
  /\ upgrade_thread_ = "run" /\ fsm_state_ \in {"Idle", "Err"}
  /\ upgrade_thread_' = "destroyed"
  /\ UNCHANGED <<firmware_, fsm_state_, read_offset_, try_count_, requests, written, doubled, faults>>

UpgradeInit ==
  /\ firmware_ \in {"whole", "truncated"} /\ fsm_state_ = "Idle" /\ read_offset_ = 0
  /\ try_count_ = 0 /\ upgrade_thread_ = "created" /\ requests = EmptyBag /\ written = {}
  /\ doubled = FALSE /\ faults = 0

UpgradeNext ==
  \/ StartUpgradeLivoxLidar \/ Destroy
  \/ \E q \in BagToSet(requests), early \in BOOLEAN :
       \/ Succeeded(q, early) \/ Busy(q, early) \/ Failed(q, early)
       \/ \E done \in BOOLEAN : TimedOutAfter(q, done, early)

UpgradeSpec == UpgradeInit /\ [][UpgradeNext]_upgradeVars

UpgradeTypeOK ==
  /\ fsm_state_ \in {r.state : r \in upgrade_event_table} \cup {"Err"}
  /\ upgrade_thread_ \in {"created", "run", "destroyed"}
  /\ read_offset_ \in 0 .. (MaxFaults + 2) * (FirmwareLength + ReadLength)
  /\ try_count_ \in 0 .. ProgressTryLimit
  /\ written \subseteq Blocks /\ doubled \in BOOLEAN /\ faults \in 0 .. MaxFaults

\* The image is declared complete, and the lidar restarted, only when it has every block,
\* whatever was lost and repeated before. Not claimed once a command called back twice, for a
\* datagram that could not be sent or an answer or a time-out ahead of the second
\* registration: then two acknowledgements may stand for one block.
ImageComplete ==
  fsm_state_ \in {"CompleteXferFirmware", "GetUpgradeProgress", "Complete"} =>
    doubled \/ written = Blocks
=============================================================================
