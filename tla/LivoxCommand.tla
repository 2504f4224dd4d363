---------------------------- MODULE LivoxCommand ----------------------------
(***************************************************************************)
(* How the Livox SDK tracks the commands it sends to lidars.  A sender     *)
(* thread draws a sequence number, registers the command in commands_ if   *)
(* its lidar's handler does, sends the datagram and, on the general path,  *)
(* registers the command (for a HAP a second time).  The I/O threads take  *)
(* a command out of commands_ when an acknowledgement with its number      *)
(* arrives, or when its deadline passes, and then run its callback.        *)
(*                                                                         *)
(* Datagrams may be lost, delayed without bound, duplicated and reordered: *)
(* once a request is out, its acknowledgement may arrive at any time, any  *)
(* number of times, or never.  A deadline (one second) may pass at any     *)
(* point after the registration, also while the sender is still at work.   *)
(***************************************************************************)
EXTENDS Integers, FiniteSets, FiniteSetsExt

CONSTANTS MaxCommands,  (* bound: commands sent                             *)
          SeqMax,       (* the largest sequence number, UINT16_MAX          *)
          MaxSessions   (* bound: calls of LivoxLidarSdkInit                *)

ASSUME CommandAssumption ==
  MaxCommands \in Nat /\ SeqMax \in Nat \ {0} /\ MaxSessions \in Nat \ {0}

\* Commands are numbered in the order in which they draw their sequence numbers.
Command == 1 .. MaxCommands
SeqNum  == 1 .. SeqMax

Status == {"Success", "Timeout", "SendFailed"}

VARIABLES
  seq,        (* GenerateSeq's counter                                      *)
  drawn,      (* commands that have their sequence number: 1 .. drawn       *)
  seq_num,    (* [Command -> packet.seq_num], 0 before it is drawn          *)
  pc,         (* [Command -> place of the sending thread]                   *)
  commands_,  (* registered: partial function from numbers to commands      *)
  out,        (* commands whose request has left the host                   *)
  calls,      (* [Command -> [Status -> callbacks run]]                     *)
  up,         (* the SDK is initialised                                     *)
  sessions,   (* calls of LivoxLidarSdkInit so far                          *)
  answer,     (* history: [Command -> commands whose acknowledgement it got]*)
  readded,    (* history: commands whose second registration found the
                 first one gone                                             *)
  replaced    (* history: commands whose entry another command took over    *)

vars == <<seq, drawn, seq_num, pc, commands_, out, calls, up, sessions,
          answer, readded, replaced>>

Init ==
  /\ seq = 1 /\ drawn = 0
  /\ seq_num = [c \in Command |-> 0]
  /\ pc = [c \in Command |-> "new"]
  /\ commands_ = [s \in {} |-> 0]
  /\ out = {}
  /\ calls = [c \in Command |-> [st \in Status |-> 0]]
  /\ up = TRUE /\ sessions = 1
  /\ answer = [c \in Command |-> {}] /\ readded = {} /\ replaced = {}

-----------------------------------------------------------------------------

\* Mutant of GetSeq: the last number before the wrap is skipped.
GetSeqShort == IF seq >= SeqMax - 1 THEN 1 ELSE seq + 1

\* GenerateSeq::GetSeq: one compare-and-swap; 0 is never drawn.
GetSeq == IF seq = SeqMax THEN 1 ELSE seq + 1

\* Mutant of AddCommand: a number that is registered already is left alone.
AddCommandOnce(s, c) ==
  /\ commands_' = [t \in DOMAIN commands_ \cup {s} |->
                     IF t \in DOMAIN commands_ THEN commands_[t] ELSE c]
  /\ UNCHANGED replaced

\* AddCommand: commands_[seq_num] = command, whoever was there.
AddCommand(s, c) ==
  /\ commands_' = [t \in DOMAIN commands_ \cup {s} |-> IF t = s THEN c ELSE commands_[t]]
  /\ replaced' = IF s \in DOMAIN commands_ /\ commands_[s] # c
                   THEN replaced \cup {commands_[s]} ELSE replaced

\* Mutant of EraseCommand: the entry stays.
EraseCommandNot(s) == UNCHANGED commands_

\* The entry is erased under commands_mutex_ and its callback runs after the unlock; no
\* step of another thread depends on the moment in between.
EraseCommand(s) == commands_' = [t \in DOMAIN commands_ \ {s} |-> commands_[t]]

RunCallback(c, st) == calls' = [calls EXCEPT ![c][st] = @ + 1]

-----------------------------------------------------------------------------
(* Sender threads *)

\* GeneralCommandHandler::SendCommand for a lidar without a command handler draws a
\* number and returns kLivoxLidarStatusSendFailed; no callback will run.
SendRefused ==
  /\ drawn < MaxCommands
  /\ LET c == drawn + 1
     IN  /\ seq_num' = [seq_num EXCEPT ![c] = GetSeq]
         /\ pc' = [pc EXCEPT ![c] = "refused"]
  /\ seq' = GetSeq
  /\ drawn' = drawn + 1
  /\ UNCHANGED <<commands_, out, calls, up, sessions, answer, readded, replaced>>

\* The SendCommand of the HAP, and of every handler with a port given, registers the
\* command before it sends it.
SendBegin ==
  /\ up
  /\ drawn < MaxCommands
  /\ LET c == drawn + 1
     IN  /\ seq_num' = [seq_num EXCEPT ![c] = GetSeq]
         /\ pc' = [pc EXCEPT ![c] = "send"]
         /\ AddCommand(GetSeq, c)
  /\ seq' = GetSeq
  /\ drawn' = drawn + 1
  /\ UNCHANGED <<out, calls, up, sessions, answer, readded>>

\* On the general path the Mid-360 handlers send a command that is not registered: an
\* acknowledgement that comes before the registration is ignored.
SendUnregistered ==
  /\ up
  /\ drawn < MaxCommands
  /\ LET c == drawn + 1
     IN  /\ seq_num' = [seq_num EXCEPT ![c] = GetSeq]
         /\ pc' = [pc EXCEPT ![c] = "bare"]
  /\ seq' = GetSeq
  /\ drawn' = drawn + 1
  /\ UNCHANGED <<commands_, out, calls, up, sessions, answer, readded, replaced>>

\* SetCustomLidar and SetViewLidar send without GeneralCommandHandler and are done; the
\* general path registers the command, a second time if the handler has done so.
AfterSend(place) == IF place = "bare" THEN {"add"} ELSE {"again", "done"}

\* sendto().
SendTo(c) ==
  /\ pc[c] \in {"send", "bare"}
  /\ out' = out \cup {c}
  /\ \E next \in AfterSend(pc[c]) : pc' = [pc EXCEPT ![c] = next]
  /\ UNCHANGED <<seq, drawn, seq_num, commands_, calls, up, sessions, answer, readded, replaced>>

\* sendto() fails: the callback runs in the sending thread; the entry stays, or is
\* still made.
SendToFailed(c) ==
  /\ pc[c] \in {"send", "bare"}
  /\ RunCallback(c, "SendFailed")
  /\ \E next \in AfterSend(pc[c]) : pc' = [pc EXCEPT ![c] = next]
  /\ UNCHANGED <<seq, drawn, seq_num, commands_, out, up, sessions, answer, readded, replaced>>

\* The AddCommand of the general path, after the send.
SendAgain(c) ==
  /\ pc[c] \in {"again", "add"}
  /\ AddCommand(seq_num[c], c)
  /\ readded' = IF pc[c] = "again" /\ ~(seq_num[c] \in DOMAIN commands_ /\ commands_[seq_num[c]] = c)
                  THEN readded \cup {c} ELSE readded
  /\ pc' = [pc EXCEPT ![c] = "done"]
  /\ UNCHANGED <<seq, drawn, seq_num, out, calls, up, sessions, answer>>

-----------------------------------------------------------------------------
(* I/O threads *)

\* Handler: an acknowledgement of command c.  Whichever command is registered under
\* its number is erased and called back; if there is none the packet is ignored.
OnAck(c) ==
  /\ up
  /\ c \in out
  /\ LET s == seq_num[c]
     IN  /\ s \in DOMAIN commands_
         /\ EraseCommand(s)
         /\ RunCallback(commands_[s], "Success")
         /\ answer' = [answer EXCEPT ![commands_[s]] = @ \cup {c}]
  /\ UNCHANGED <<seq, drawn, seq_num, pc, out, up, sessions, readded, replaced>>

\* CommandsHandle: a deadline has passed.  The code erases all expired commands in one
\* pass and then calls them back one by one; here each is a step of its own.
OnTimeout(s) ==
  /\ up
  /\ s \in DOMAIN commands_
  /\ EraseCommand(s)
  /\ RunCallback(commands_[s], "Timeout")
  /\ UNCHANGED <<seq, drawn, seq_num, pc, out, up, sessions, answer, readded, replaced>>

-----------------------------------------------------------------------------
(* LivoxLidarSdkUninit and LivoxLidarSdkInit *)

\* Destory() stops the I/O threads but leaves commands_ as it is: the block that
\* seems to reset it declares local variables.
Destory ==
  /\ up
  /\ up' = FALSE
  /\ UNCHANGED <<seq, drawn, seq_num, pc, commands_, out, calls, sessions, answer,
                 readded, replaced>>

SdkInit ==
  /\ ~up
  /\ sessions < MaxSessions
  /\ up' = TRUE
  /\ sessions' = sessions + 1
  /\ UNCHANGED <<seq, drawn, seq_num, pc, commands_, out, calls, answer, readded, replaced>>

-----------------------------------------------------------------------------
Sender(c) == SendTo(c) \/ SendToFailed(c) \/ SendAgain(c)

Next ==
  \/ SendRefused \/ SendBegin \/ SendUnregistered \/ Destory \/ SdkInit
  \/ \E c \in Command : Sender(c) \/ OnAck(c)
  \/ \E s \in SeqNum : OnTimeout(s)

\* A sender finishes its call, and CheckTimer, which runs every 50 ms, finds every
\* deadline that has passed.  No acknowledgement need ever come.
Fairness ==
  /\ \A c \in Command : WF_vars(Sender(c))
  /\ \A s \in SeqNum : WF_vars(OnTimeout(s))

Spec == Init /\ [][Next]_vars /\ Fairness

-----------------------------------------------------------------------------
(* Properties *)

Callbacks(c) == calls[c]["Success"] + calls[c]["Timeout"] + calls[c]["SendFailed"]

\* The type invariant: only numbers from 1 .. SeqMax are in use, 0 never is.
TypeOK ==
  /\ seq \in SeqNum /\ drawn \in 0 .. MaxCommands
  /\ seq_num \in [Command -> {0} \cup SeqNum]
  /\ pc \in [Command -> {"new", "refused", "send", "again", "bare", "add", "done"}]
  /\ DOMAIN commands_ \subseteq SeqNum
  /\ \A s \in DOMAIN commands_ : commands_[s] \in 1 .. drawn
  /\ out \subseteq 1 .. drawn
  /\ calls \in [Command -> [Status -> Nat]]
  /\ up \in BOOLEAN /\ sessions \in 1 .. MaxSessions
  /\ answer \in [Command -> SUBSET Command]
  /\ readded \subseteq Command /\ replaced \subseteq Command

\* A callback runs once, and once more for each of two reasons: the second
\* registration came after the first was answered or had timed out, or sendto() failed
\* and the entry it leaves behind is answered or times out.
CallbackBound ==
  \A c \in Command :
    Callbacks(c) <= 1 + (IF c \in readded THEN 1 ELSE 0) + calls[c]["SendFailed"]

\* A command is answered only by its own acknowledgement, or by that of a command
\* whole rounds of sequence numbers away: one whose acknowledgement is that late, or
\* whose number a sender that slow registered again.
OwnAnswer == \A c \in Command : \A d \in answer[c] : (c - d) % SeqMax = 0

\* The inductive strengthening: numbers are drawn in turn, a command is registered
\* under the number it drew, and being registered counts as a callback to come.
Registered(c) == \E s \in DOMAIN commands_ : commands_[s] = c

NumberedInTurn ==
  /\ seq = (drawn % SeqMax) + 1
  /\ \A c \in 1 .. drawn : seq_num[c] = (c % SeqMax) + 1

OwnEntry == \A s \in DOMAIN commands_ : seq_num[commands_[s]] = s

Untouched ==
  \A c \in Command :
    /\ c > drawn => pc[c] = "new" /\ c \notin readded
    /\ pc[c] = "new" => c > drawn
    /\ pc[c] \in {"new", "refused", "bare", "add"} =>
         Callbacks(c) = calls[c]["SendFailed"] /\ ~Registered(c)
    /\ pc[c] \in {"new", "refused", "bare", "send"} => calls[c]["SendFailed"] = 0
    /\ pc[c] \in {"send", "again", "bare", "add"} => c \notin readded

CallsToCome ==
  \A c \in Command :
    Callbacks(c) + (IF Registered(c) THEN 1 ELSE 0)
      <= 1 + (IF c \in readded THEN 1 ELSE 0) + calls[c]["SendFailed"]

\* The whole inductive invariant of the command table.
IInv == TypeOK /\ NumberedInTurn /\ OwnEntry /\ Untouched /\ CallsToCome /\ OwnAnswer

\* No command stays without a callback while the SDK is up, unless a command sent a
\* round of sequence numbers later took its entry.
CalledBack ==
  \A c \in Command :
    (pc[c] \notin {"new", "refused"})
      ~> (Callbacks(c) > 0 \/ c \in replaced \/ ~up)
=============================================================================
