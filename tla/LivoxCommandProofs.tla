------------------------- MODULE LivoxCommandProofs -------------------------
(***************************************************************************)
(* The command table of the SDK, for every number of commands, every range *)
(* of sequence numbers and every number of sessions.  IInv is inductive:   *)
(* CallbackBound alone is not, since it does not say that a registered     *)
(* command still has a callback to come (CallsToCome), and OwnAnswer needs *)
(* to know under which number a command is registered (NumberedInTurn,     *)
(* OwnEntry).                                                              *)
(***************************************************************************)
EXTENDS LivoxCommand, NumberLemmas, TLAPS

-----------------------------------------------------------------------------
(* What the helpers of the actions do *)

\* RunCallback counts one callback of one command and changes nothing else.
LEMMA OneCallback ==
  ASSUME TypeOK, NEW c \in Command, NEW st \in Status, RunCallback(c, st)
  PROVE  /\ calls' \in [Command -> [Status -> Nat]]
         /\ Callbacks(c)' = Callbacks(c) + 1
         /\ calls'[c]["SendFailed"] =
              calls[c]["SendFailed"] + (IF st = "SendFailed" THEN 1 ELSE 0)
         /\ \A d \in Command \ {c} : calls'[d] = calls[d]
<1>1. calls \in [Command -> [Status -> Nat]]
  BY DEF TypeOK
<1>2. calls' = [calls EXCEPT ![c][st] = @ + 1]
  BY DEF RunCallback
<1>3. calls' \in [Command -> [Status -> Nat]]
  BY <1>1, <1>2
<1>4. \A t \in Status : calls'[c][t] = calls[c][t] + (IF t = st THEN 1 ELSE 0)
  BY <1>1, <1>2
<1>5. \A d \in Command \ {c} : calls'[d] = calls[d]
  BY <1>1, <1>2
<1>6. Callbacks(c)' = Callbacks(c) + 1
  <2>1. \A t \in Status : calls[c][t] \in Nat /\ calls'[c][t] \in Nat
    BY <1>1, <1>3
  <2>2. st \in {"Success", "Timeout", "SendFailed"}
    BY DEF Status
  <2>3. QED
    BY <1>4, <2>1, <2>2 DEF Callbacks, Status
<1>7. QED
  BY <1>3, <1>4, <1>5, <1>6 DEF Status

\* Callbacks are counted in natural numbers.
LEMMA CountType ==
  ASSUME TypeOK, NEW c \in Command
  PROVE  Callbacks(c) \in Nat /\ calls[c]["SendFailed"] \in Nat
         /\ Callbacks(c) >= calls[c]["SendFailed"]
<1>1. \A t \in Status : calls[c][t] \in Nat
  BY DEF TypeOK
<1>2. QED
  BY <1>1 DEF Callbacks, Status

\* Erasing the entry of a command leaves it unregistered and the others as they were.
LEMMA Erased ==
  ASSUME OwnEntry, NEW s \in DOMAIN commands_, NEW e, e = commands_[s],
         EraseCommand(s)
  PROVE  /\ DOMAIN commands_' = DOMAIN commands_ \ {s}
         /\ \A t \in DOMAIN commands_' : commands_'[t] = commands_[t]
         /\ ~Registered(e)'
         /\ \A d : Registered(d)' => Registered(d)
<1>1. /\ DOMAIN commands_' = DOMAIN commands_ \ {s}
      /\ \A t \in DOMAIN commands_' : commands_'[t] = commands_[t]
  BY DEF EraseCommand
<1>2. ~(\E t \in DOMAIN commands_' : commands_'[t] = e)
  BY <1>1 DEF OwnEntry
<1>3. QED
  BY <1>1, <1>2 DEF Registered

\* Registering a command adds it and no other.
LEMMA Added ==
  ASSUME NEW s, NEW c, AddCommand(s, c)
  PROVE  /\ DOMAIN commands_' = DOMAIN commands_ \cup {s}
         /\ commands_'[s] = c
         /\ \A t \in DOMAIN commands_' \ {s} : commands_'[t] = commands_[t]
         /\ \A d : d # c /\ Registered(d)' => Registered(d)
<1>1. /\ DOMAIN commands_' = DOMAIN commands_ \cup {s}
      /\ commands_'[s] = c
      /\ \A t \in DOMAIN commands_' \ {s} : commands_'[t] = commands_[t]
  BY DEF AddCommand
<1>2. QED
  BY <1>1 DEF Registered

-----------------------------------------------------------------------------
(* Invariance *)

\* Nothing has been drawn, registered or called back when the program starts.
LEMMA InitInv == Init => IInv
<1> SUFFICES ASSUME Init PROVE IInv
  OBVIOUS
<1> USE CommandAssumption DEF Init
<1>1. TypeOK
  BY DEF TypeOK, SeqNum, Status
<1>2. NumberedInTurn
  <2>1. 0 % SeqMax = 0
    OBVIOUS
  <2>2. QED
    BY <2>1 DEF NumberedInTurn
<1>3. OwnEntry
  BY DEF OwnEntry
<1>4. \A c \in Command : Callbacks(c) = 0 /\ calls[c]["SendFailed"] = 0 /\ ~Registered(c)
  BY DEF Callbacks, Registered, Status
<1>5. Untouched
  BY <1>4 DEF Untouched, Command
<1>6. CallsToCome
  BY <1>4 DEF CallsToCome
<1>7. OwnAnswer
  BY DEF OwnAnswer
<1>8. QED
  BY <1>1, <1>2, <1>3, <1>5, <1>6, <1>7 DEF IInv

\* The number GetSeq draws is the one that is next in turn.
LEMMA DrawnNumber ==
  ASSUME TypeOK, NumberedInTurn
  PROVE  GetSeq = ((drawn + 1) % SeqMax) + 1 /\ GetSeq \in SeqNum
<1>1. seq = (drawn % SeqMax) + 1 /\ seq \in SeqNum /\ drawn \in Nat /\ SeqMax \in Nat \ {0}
  BY CommandAssumption DEF TypeOK, NumberedInTurn
<1>2. (drawn + 1) % SeqMax = IF drawn % SeqMax = SeqMax - 1 THEN 0 ELSE (drawn % SeqMax) + 1
  BY <1>1, NextRemainder
<1>3. drawn % SeqMax \in 0 .. SeqMax - 1
  BY <1>1, DivMod
<1>4. QED
  BY <1>1, <1>2, <1>3 DEF GetSeq, SeqNum

\* What SendRefused, SendUnregistered and SendBegin have in common: command c draws the next number.
LEMMA Drawing ==
  ASSUME IInv, NEW c, c = drawn + 1, NEW place \in {"refused", "bare", "send"},
         drawn < MaxCommands, drawn' = drawn + 1, seq' = GetSeq,
         seq_num' = [seq_num EXCEPT ![c] = GetSeq], pc' = [pc EXCEPT ![c] = place]
  PROVE  /\ c \in Command /\ drawn' \in 0 .. MaxCommands /\ GetSeq \in SeqNum
         /\ seq_num' \in [Command -> {0} \cup SeqNum]
         /\ seq_num'[c] = GetSeq /\ \A d \in Command \ {c} : seq_num'[d] = seq_num[d]
         /\ pc' \in [Command -> {"new", "refused", "send", "again", "bare", "add", "done"}]
         /\ pc'[c] = place /\ \A d \in Command \ {c} : pc'[d] = pc[d]
         /\ \A d : d \in 1 .. drawn' <=> d \in 1 .. drawn \/ d = c
         /\ \A d \in Command \ {c} : d > drawn' <=> d > drawn
         /\ 1 .. drawn \subseteq Command \ {c}
         /\ c > drawn /\ ~(c > drawn')
         /\ NumberedInTurn'
<1>0. TypeOK /\ NumberedInTurn
  BY DEF IInv
<1>1. drawn \in 0 .. MaxCommands /\ MaxCommands \in Nat
  BY <1>0, CommandAssumption DEF TypeOK
<1>2. c \in Command /\ drawn' \in 0 .. MaxCommands /\ c > drawn /\ ~(c > drawn')
  BY <1>1 DEF Command
<1>3. GetSeq = (c % SeqMax) + 1 /\ GetSeq \in SeqNum
  BY <1>0, DrawnNumber
<1>4. /\ seq_num' \in [Command -> {0} \cup SeqNum]
      /\ seq_num'[c] = GetSeq /\ \A d \in Command \ {c} : seq_num'[d] = seq_num[d]
  BY <1>0, <1>2, <1>3 DEF TypeOK
<1>5. /\ pc' \in [Command -> {"new", "refused", "send", "again", "bare", "add", "done"}]
      /\ pc'[c] = place /\ \A d \in Command \ {c} : pc'[d] = pc[d]
  BY <1>0, <1>2 DEF TypeOK
<1>6. /\ \A d : d \in 1 .. drawn' <=> d \in 1 .. drawn \/ d = c
      /\ \A d \in Command \ {c} : d > drawn' <=> d > drawn
      /\ 1 .. drawn \subseteq Command \ {c}
  BY <1>1 DEF Command
<1>7. NumberedInTurn'
  <2>1. \A d \in 1 .. drawn : seq_num'[d] = (d % SeqMax) + 1
    BY <1>0, <1>4, <1>6 DEF NumberedInTurn
  <2>2. \A d \in 1 .. drawn' : seq_num'[d] = (d % SeqMax) + 1
    BY <1>3, <1>4, <1>6, <2>1
  <2>3. seq' = (drawn' % SeqMax) + 1
    BY <1>3
  <2>4. QED
    BY <2>2, <2>3 DEF NumberedInTurn
<1>8. QED
  BY <1>2, <1>3, <1>4, <1>5, <1>6, <1>7

\* A command that is refused, or sent without being registered, only uses up a number.
LEMMA UnregisteredInv == ASSUME IInv, SendRefused \/ SendUnregistered PROVE IInv'
<1> DEFINE c == drawn + 1
<1>0. TypeOK /\ NumberedInTurn /\ OwnEntry /\ Untouched /\ CallsToCome /\ OwnAnswer
  BY DEF IInv
<1>1. /\ drawn < MaxCommands /\ drawn' = drawn + 1 /\ seq' = GetSeq
      /\ seq_num' = [seq_num EXCEPT ![c] = GetSeq] /\ (pc' = [pc EXCEPT ![c] = "refused"] \/ pc' = [pc EXCEPT ![c] = "bare"])
  BY DEF SendRefused, SendUnregistered
<1>2. UNCHANGED <<commands_, out, calls, up, sessions, answer, readded, replaced>>
  BY DEF SendRefused, SendUnregistered
<1> HIDE DEF c
<1>3. /\ c \in Command /\ drawn' \in 0 .. MaxCommands /\ GetSeq \in SeqNum
      /\ seq_num' \in [Command -> {0} \cup SeqNum]
      /\ seq_num'[c] = GetSeq /\ \A d \in Command \ {c} : seq_num'[d] = seq_num[d]
      /\ pc' \in [Command -> {"new", "refused", "send", "again", "bare", "add", "done"}]
      /\ pc'[c] \in {"refused", "bare"} /\ \A d \in Command \ {c} : pc'[d] = pc[d]
      /\ \A d : d \in 1 .. drawn' <=> d \in 1 .. drawn \/ d = c
      /\ \A d \in Command \ {c} : d > drawn' <=> d > drawn
      /\ 1 .. drawn \subseteq Command \ {c}
      /\ c > drawn /\ ~(c > drawn')
      /\ NumberedInTurn'
  BY <1>1, Drawing DEF c
<1>4. TypeOK'
  BY <1>0, <1>1, <1>2, <1>3 DEF TypeOK
<1>5. \A d : Registered(d)' <=> Registered(d)
  BY <1>2 DEF Registered
<1>6. \A d \in Command : Callbacks(d)' = Callbacks(d)
  BY <1>2 DEF Callbacks
<1>7. OwnEntry'
  <2>1. \A s \in DOMAIN commands_ : commands_[s] \in Command \ {c}
    BY <1>0, <1>3 DEF TypeOK
  <2>2. QED
    BY <1>0, <1>2, <1>3, <2>1 DEF OwnEntry
<1>7a. Callbacks(c) = calls[c]["SendFailed"] /\ calls[c]["SendFailed"] = 0 /\ ~Registered(c) /\ c \notin readded
  BY <1>0, <1>3 DEF Untouched
<1>8. Untouched'
  BY <1>0, <1>2, <1>3, <1>5, <1>6, <1>7a DEF Untouched
<1>9. CallsToCome'
  BY <1>0, <1>2, <1>5, <1>6 DEF CallsToCome
<1>10. OwnAnswer'
  BY <1>0, <1>2 DEF OwnAnswer
<1>11. QED
  BY <1>3, <1>4, <1>7, <1>8, <1>9, <1>10 DEF IInv

\* A command that is sent has its first registration and no callback yet.
LEMMA SendBeginInv == ASSUME IInv, SendBegin PROVE IInv'
<1> DEFINE c == drawn + 1
<1>0. TypeOK /\ NumberedInTurn /\ OwnEntry /\ Untouched /\ CallsToCome /\ OwnAnswer
  BY DEF IInv
<1>1. /\ drawn < MaxCommands /\ drawn' = drawn + 1 /\ seq' = GetSeq
      /\ seq_num' = [seq_num EXCEPT ![c] = GetSeq] /\ pc' = [pc EXCEPT ![c] = "send"]
      /\ AddCommand(GetSeq, c)
  BY DEF SendBegin
<1>2. UNCHANGED <<out, calls, up, sessions, answer, readded>>
  BY DEF SendBegin
<1> HIDE DEF c
<1>3. /\ c \in Command /\ drawn' \in 0 .. MaxCommands /\ GetSeq \in SeqNum
      /\ seq_num' \in [Command -> {0} \cup SeqNum]
      /\ seq_num'[c] = GetSeq /\ \A d \in Command \ {c} : seq_num'[d] = seq_num[d]
      /\ pc' \in [Command -> {"new", "refused", "send", "again", "bare", "add", "done"}]
      /\ pc'[c] = "send" /\ \A d \in Command \ {c} : pc'[d] = pc[d]
      /\ \A d : d \in 1 .. drawn' <=> d \in 1 .. drawn \/ d = c
      /\ \A d \in Command \ {c} : d > drawn' <=> d > drawn
      /\ 1 .. drawn \subseteq Command \ {c}
      /\ c > drawn /\ ~(c > drawn')
      /\ NumberedInTurn'
  BY <1>1, Drawing DEF c
<1>4. /\ DOMAIN commands_' = DOMAIN commands_ \cup {GetSeq}
      /\ commands_'[GetSeq] = c
      /\ \A t \in DOMAIN commands_' \ {GetSeq} : commands_'[t] = commands_[t]
      /\ \A d : d # c /\ Registered(d)' => Registered(d)
  BY <1>1, Added
<1>5. \A s \in DOMAIN commands_ : commands_[s] \in 1 .. drawn /\ commands_[s] \in Command \ {c}
  BY <1>0, <1>3 DEF TypeOK
<1>6. TypeOK'
  <2>1. replaced' \subseteq Command
    BY <1>0, <1>1, <1>5 DEF AddCommand, TypeOK
  <2>2. /\ DOMAIN commands_' \subseteq SeqNum
        /\ \A s \in DOMAIN commands_' : commands_'[s] \in 1 .. drawn'
    BY <1>0, <1>3, <1>4, <1>5 DEF TypeOK
  <2>3. QED
    BY <1>0, <1>1, <1>2, <1>3, <2>1, <2>2 DEF TypeOK
<1>7. OwnEntry'
  BY <1>0, <1>3, <1>4, <1>5 DEF OwnEntry
<1>8. \A d \in Command : /\ Callbacks(d)' = Callbacks(d) /\ calls'[d] = calls[d]
                         /\ Callbacks(d) \in Nat /\ calls[d]["SendFailed"] \in Nat
                         /\ Callbacks(d) >= calls[d]["SendFailed"]
  <2>1. \A d \in Command : Callbacks(d)' = Callbacks(d) /\ calls'[d] = calls[d]
    BY <1>2 DEF Callbacks
  <2>2. QED
    BY <1>0, <2>1, CountType
<1>9. Callbacks(c) = 0 /\ calls[c]["SendFailed"] = 0 /\ c \notin readded
  <2>1. c > drawn /\ c \in Command
    BY <1>3
  <2>2. QED
    BY <1>0, <2>1 DEF Untouched
<1>10. Untouched'
  BY <1>0, <1>2, <1>3, <1>4, <1>8, <1>9 DEF Untouched
<1>11. CallsToCome'
  <2> SUFFICES ASSUME NEW d \in Command
               PROVE  Callbacks(d)' + (IF Registered(d)' THEN 1 ELSE 0)
                        <= 1 + (IF d \in readded' THEN 1 ELSE 0) + calls'[d]["SendFailed"]
    BY DEF CallsToCome
  <2>1. CASE d = c
    BY <1>2, <1>8, <1>9, <2>1
  <2>2. CASE d # c
    <3>1. Callbacks(d) + (IF Registered(d) THEN 1 ELSE 0)
            <= 1 + (IF d \in readded THEN 1 ELSE 0) + calls[d]["SendFailed"]
      BY <1>0 DEF CallsToCome
    <3>2. QED
      BY <1>2, <1>4, <1>8, <2>2, <3>1
  <2>3. QED
    BY <2>1, <2>2
<1>12. OwnAnswer'
  BY <1>0, <1>2 DEF OwnAnswer
<1>13. QED
  BY <1>3, <1>6, <1>7, <1>10, <1>11, <1>12 DEF IInv

\* A sender that has a place other than "new" has drawn its number.
LEMMA HasNumber ==
  ASSUME TypeOK, Untouched, NEW c \in Command, pc[c] # "new"
  PROVE  c \in 1 .. drawn
BY CommandAssumption DEF TypeOK, Untouched, Command

\* sendto() only moves the sender on.
LEMMA SendToInv == ASSUME IInv, NEW c \in Command, SendTo(c) PROVE IInv'
<1>0. TypeOK /\ NumberedInTurn /\ OwnEntry /\ Untouched /\ CallsToCome /\ OwnAnswer
  BY DEF IInv
<1>1. /\ pc[c] \in {"send", "bare"} /\ out' = out \cup {c}
      /\ UNCHANGED <<seq, drawn, seq_num, commands_, calls, up, sessions, answer, readded, replaced>>
  BY DEF SendTo
<1>2. PICK next \in AfterSend(pc[c]) : pc' = [pc EXCEPT ![c] = next]
  BY DEF SendTo
<1>2a. next \in {"again", "done"} \/ (pc[c] = "bare" /\ next = "add")
  BY <1>2 DEF AfterSend
<1>3. /\ pc' \in [Command -> {"new", "refused", "send", "again", "bare", "add", "done"}]
      /\ pc'[c] = next /\ \A d \in Command \ {c} : pc'[d] = pc[d]
  BY <1>0, <1>2, <1>2a DEF TypeOK
<1>4. c \in 1 .. drawn
  BY <1>0, <1>1, HasNumber
<1>5. TypeOK'
  BY <1>0, <1>1, <1>3, <1>4 DEF TypeOK
<1>6. (NumberedInTurn /\ OwnEntry /\ CallsToCome /\ OwnAnswer)'
  BY <1>0, <1>1 DEF NumberedInTurn, OwnEntry, CallsToCome, OwnAnswer, Registered, Callbacks
<1>7. \A d \in Command : (Callbacks(d)' = Callbacks(d)) /\ (Registered(d)' <=> Registered(d))
  BY <1>1 DEF Callbacks, Registered
<1>8. ~(c > drawn) /\ c \notin readded
  BY <1>0, <1>1 DEF Untouched
<1>9. Untouched'
  BY <1>0, <1>1, <1>2a, <1>3, <1>7, <1>8 DEF Untouched
<1>10. QED
  BY <1>5, <1>6, <1>9 DEF IInv

\* A failing sendto() also runs the callback, which is counted on both sides.
LEMMA SendToFailedInv == ASSUME IInv, NEW c \in Command, SendToFailed(c) PROVE IInv'
<1>0. TypeOK /\ NumberedInTurn /\ OwnEntry /\ Untouched /\ CallsToCome /\ OwnAnswer
  BY DEF IInv
<1>1. /\ pc[c] \in {"send", "bare"} /\ RunCallback(c, "SendFailed")
      /\ UNCHANGED <<seq, drawn, seq_num, commands_, out, up, sessions, answer, readded, replaced>>
  BY DEF SendToFailed
<1>2. PICK next \in AfterSend(pc[c]) : pc' = [pc EXCEPT ![c] = next]
  BY DEF SendToFailed
<1>2a. next \in {"again", "done"} \/ (pc[c] = "bare" /\ next = "add")
  BY <1>2 DEF AfterSend
<1>3. /\ pc' \in [Command -> {"new", "refused", "send", "again", "bare", "add", "done"}]
      /\ pc'[c] = next /\ \A d \in Command \ {c} : pc'[d] = pc[d]
  BY <1>0, <1>2, <1>2a DEF TypeOK
<1>4. /\ calls' \in [Command -> [Status -> Nat]]
      /\ Callbacks(c)' = Callbacks(c) + 1
      /\ calls'[c]["SendFailed"] = calls[c]["SendFailed"] + 1
      /\ \A d \in Command \ {c} : calls'[d] = calls[d]
  <2>1. "SendFailed" \in Status
    BY DEF Status
  <2>2. QED
    BY <1>0, <1>1, <2>1, OneCallback
<1>5. \A d \in Command \ {c} : Callbacks(d)' = Callbacks(d)
  BY <1>4 DEF Callbacks
<1>6. \A d : Registered(d)' <=> Registered(d)
  BY <1>1 DEF Registered
<1>7. \A d \in Command : Callbacks(d) \in Nat /\ calls[d]["SendFailed"] \in Nat
  BY <1>0, CountType
<1>8. TypeOK'
  BY <1>0, <1>1, <1>3, <1>4 DEF TypeOK
<1>9. (NumberedInTurn /\ OwnEntry /\ OwnAnswer)'
  BY <1>0, <1>1 DEF NumberedInTurn, OwnEntry, OwnAnswer
<1>10. ~(c > drawn) /\ c \notin readded
  BY <1>0, <1>1 DEF Untouched
<1>11. Untouched'
  BY <1>0, <1>1, <1>2a, <1>3, <1>4, <1>5, <1>6, <1>7, <1>10 DEF Untouched
<1>12. CallsToCome'
  BY <1>0, <1>1, <1>4, <1>5, <1>6, <1>7 DEF CallsToCome
<1>13. QED
  BY <1>8, <1>9, <1>11, <1>12 DEF IInv

\* The second registration adds a callback to come only when the first is gone; the only
\* one of a command sent unregistered adds its first.
LEMMA SendAgainInv == ASSUME IInv, NEW c \in Command, SendAgain(c) PROVE IInv'
<1> DEFINE s == seq_num[c]
<1>0. TypeOK /\ NumberedInTurn /\ OwnEntry /\ Untouched /\ CallsToCome /\ OwnAnswer
  BY DEF IInv
<1>1. /\ pc[c] \in {"again", "add"} /\ AddCommand(s, c)
      /\ readded' = IF pc[c] = "again" /\ ~(s \in DOMAIN commands_ /\ commands_[s] = c)
                      THEN readded \cup {c} ELSE readded
      /\ pc' = [pc EXCEPT ![c] = "done"]
      /\ UNCHANGED <<seq, drawn, seq_num, out, calls, up, sessions, answer>>
  BY DEF SendAgain
<1>2. c \in 1 .. drawn
  BY <1>0, <1>1, HasNumber
<1>3. s \in SeqNum
  <2>1. drawn \in Nat /\ SeqMax \in Nat \ {0} /\ c \in Nat
    BY <1>0, <1>2, CommandAssumption DEF TypeOK
  <2>2. s = (c % SeqMax) + 1
    BY <1>0, <1>2 DEF NumberedInTurn
  <2>3. c % SeqMax \in 0 .. SeqMax - 1
    BY <2>1, DivMod
  <2>4. QED
    BY <2>1, <2>2, <2>3 DEF SeqNum
<1>4. Registered(c) <=> s \in DOMAIN commands_ /\ commands_[s] = c
  BY <1>0 DEF Registered, OwnEntry
<1>5. seq_num'[c] = s
  BY <1>1
<1> HIDE DEF s
<1>6. /\ DOMAIN commands_' = DOMAIN commands_ \cup {s}
      /\ commands_'[s] = c
      /\ \A t \in DOMAIN commands_' \ {s} : commands_'[t] = commands_[t]
      /\ \A d : d # c /\ Registered(d)' => Registered(d)
  BY <1>1, Added
<1>7. /\ pc' \in [Command -> {"new", "refused", "send", "again", "bare", "add", "done"}]
      /\ pc'[c] = "done" /\ \A d \in Command \ {c} : pc'[d] = pc[d]
  BY <1>0, <1>1 DEF TypeOK
<1>8. TypeOK'
  <2>1. \A t \in DOMAIN commands_ : commands_[t] \in Command
    BY <1>0, CommandAssumption DEF TypeOK, Command
  <2>2. replaced' \subseteq Command /\ readded' \subseteq Command
    BY <1>0, <1>1, <2>1 DEF AddCommand, TypeOK
  <2>3. /\ DOMAIN commands_' \subseteq SeqNum
        /\ \A t \in DOMAIN commands_' : commands_'[t] \in 1 .. drawn'
    BY <1>0, <1>1, <1>2, <1>3, <1>6 DEF TypeOK
  <2>4. QED
    BY <1>0, <1>1, <1>7, <2>2, <2>3 DEF TypeOK
<1>9. NumberedInTurn' /\ OwnAnswer'
  BY <1>0, <1>1 DEF NumberedInTurn, OwnAnswer
<1>10. OwnEntry'
  BY <1>0, <1>1, <1>5, <1>6 DEF OwnEntry
<1>11. \A d \in Command : Callbacks(d)' = Callbacks(d) /\ calls'[d] = calls[d]
  BY <1>1 DEF Callbacks
<1>12. \A d \in Command : Callbacks(d) \in Nat /\ calls[d]["SendFailed"] \in Nat
  BY <1>0, CountType
<1>13. ~(c > drawn) /\ c \notin readded
  BY <1>0, <1>1 DEF Untouched
<1>14. \A d \in Command \ {c} : d \in readded' <=> d \in readded
  BY <1>1
<1>15. Untouched'
  BY <1>0, <1>1, <1>6, <1>7, <1>11, <1>13, <1>14 DEF Untouched
<1>16. CallsToCome'
  <2> SUFFICES ASSUME NEW d \in Command
               PROVE  Callbacks(d)' + (IF Registered(d)' THEN 1 ELSE 0)
                        <= 1 + (IF d \in readded' THEN 1 ELSE 0) + calls'[d]["SendFailed"]
    BY DEF CallsToCome
  <2>1. Callbacks(d) + (IF Registered(d) THEN 1 ELSE 0)
          <= 1 + (IF d \in readded THEN 1 ELSE 0) + calls[d]["SendFailed"]
    BY <1>0 DEF CallsToCome
  <2>2. CASE d = c /\ Registered(c)
    BY <1>1, <1>4, <1>11, <1>12, <1>13, <2>1, <2>2
  <2>3. CASE d = c /\ ~Registered(c) /\ pc[c] = "again"
    BY <1>1, <1>4, <1>11, <1>12, <1>13, <2>1, <2>3
  <2>4. CASE d = c /\ pc[c] = "add"
    <3>1. Callbacks(c) = calls[c]["SendFailed"]
      BY <1>0, <2>4 DEF Untouched
    <3>2. QED
      BY <1>1, <1>11, <1>12, <1>13, <2>4, <3>1
  <2>5. CASE d # c
    BY <1>6, <1>11, <1>12, <1>14, <2>1, <2>5
  <2>6. QED
    BY <1>1, <2>2, <2>3, <2>4, <2>5
<1>17. QED
  BY <1>8, <1>9, <1>10, <1>15, <1>16 DEF IInv

\* What OnAck and OnTimeout have in common: command e is erased and called back.
LEMMA Answered ==
  ASSUME IInv, NEW s \in DOMAIN commands_, NEW e, e = commands_[s],
         NEW st \in {"Success", "Timeout"}, EraseCommand(s), RunCallback(e, st),
         answer' \in [Command -> SUBSET Command],
         UNCHANGED <<seq, drawn, seq_num, pc, out, up, sessions, readded, replaced>>
  PROVE  TypeOK' /\ NumberedInTurn' /\ OwnEntry' /\ Untouched' /\ CallsToCome'
<1>0. TypeOK /\ NumberedInTurn /\ OwnEntry /\ Untouched /\ CallsToCome
  BY DEF IInv
<1>1. e \in Command
  BY <1>0, CommandAssumption DEF TypeOK, Command
<1>2. /\ DOMAIN commands_' = DOMAIN commands_ \ {s}
      /\ \A t \in DOMAIN commands_' : commands_'[t] = commands_[t]
      /\ ~Registered(e)'
      /\ \A d : Registered(d)' => Registered(d)
  BY <1>0, Erased
<1>3. /\ calls' \in [Command -> [Status -> Nat]]
      /\ Callbacks(e)' = Callbacks(e) + 1
      /\ calls'[e]["SendFailed"] = calls[e]["SendFailed"] + (IF st = "SendFailed" THEN 1 ELSE 0)
      /\ \A d \in Command \ {e} : calls'[d] = calls[d]
  <2>1. st \in Status
    BY DEF Status
  <2>2. QED
    BY <1>0, <1>1, <2>1, OneCallback
<1>4. calls'[e]["SendFailed"] = calls[e]["SendFailed"]
  <2>1. calls[e]["SendFailed"] \in Nat
    BY <1>0, <1>1, CountType
  <2>2. st # "SendFailed"
    OBVIOUS
  <2>3. QED
    BY <1>3, <2>1, <2>2
<1>5. \A d \in Command \ {e} : Callbacks(d)' = Callbacks(d)
  BY <1>3 DEF Callbacks
<1>6. \A d \in Command : Callbacks(d) \in Nat /\ calls[d]["SendFailed"] \in Nat
  BY <1>0, CountType
<1>7. Registered(e)
  BY DEF Registered
<1>8. TypeOK'
  BY <1>0, <1>2, <1>3 DEF TypeOK
<1>9. NumberedInTurn'
  BY <1>0 DEF NumberedInTurn
<1>10. OwnEntry'
  BY <1>0, <1>2 DEF OwnEntry
<1>11. Untouched'
  BY <1>0, <1>1, <1>2, <1>3, <1>4, <1>5, <1>7 DEF Untouched
<1>12. CallsToCome'
  <2> SUFFICES ASSUME NEW d \in Command
               PROVE  Callbacks(d)' + (IF Registered(d)' THEN 1 ELSE 0)
                        <= 1 + (IF d \in readded' THEN 1 ELSE 0) + calls'[d]["SendFailed"]
    BY DEF CallsToCome
  <2>1. Callbacks(d) + (IF Registered(d) THEN 1 ELSE 0)
          <= 1 + (IF d \in readded THEN 1 ELSE 0) + calls[d]["SendFailed"]
    BY <1>0 DEF CallsToCome
  <2>2. CASE d = e
    BY <1>2, <1>3, <1>4, <1>6, <1>7, <2>1, <2>2
  <2>3. CASE d # e
    BY <1>2, <1>3, <1>5, <1>6, <2>1, <2>3
  <2>4. QED
    BY <2>2, <2>3
<1>13. QED
  BY <1>8, <1>9, <1>10, <1>11, <1>12

\* An acknowledgement finds a command with the same number, so whole rounds away.
LEMMA OnAckInv == ASSUME IInv, NEW c \in Command, OnAck(c) PROVE IInv'
<1> DEFINE s == seq_num[c]
<1> DEFINE e == commands_[s]
<1>0. TypeOK /\ NumberedInTurn /\ OwnEntry /\ OwnAnswer
  BY DEF IInv
<1>1. /\ c \in out /\ s \in DOMAIN commands_
      /\ EraseCommand(s) /\ RunCallback(e, "Success")
      /\ answer' = [answer EXCEPT ![e] = @ \cup {c}]
      /\ UNCHANGED <<seq, drawn, seq_num, pc, out, up, sessions, readded, replaced>>
  BY DEF OnAck
<1>2. c \in 1 .. drawn /\ e \in 1 .. drawn /\ drawn \in Nat /\ e \in Command
  BY <1>0, <1>1, CommandAssumption DEF TypeOK, Command
<1>3. seq_num[e] = seq_num[c]
  BY <1>0, <1>1 DEF OwnEntry
<1>4. e % SeqMax = c % SeqMax
  <2>1. (e % SeqMax) + 1 = (c % SeqMax) + 1
    BY <1>0, <1>2, <1>3 DEF NumberedInTurn
  <2> HIDE DEF e
  <2>2. e \in Int /\ c \in Int /\ SeqMax \in Nat \ {0}
    BY <1>2, CommandAssumption
  <2>3. e % SeqMax \in 0 .. SeqMax - 1 /\ c % SeqMax \in 0 .. SeqMax - 1
    BY <2>2, DivMod
  <2>4. QED
    BY <2>1, <2>2, <2>3
<1> HIDE DEF e
<1>5. (e - c) % SeqMax = 0
  <2>1. e \in Nat /\ c \in Nat /\ SeqMax \in Nat \ {0}
    BY <1>2, CommandAssumption
  <2>2. QED
    BY <1>4, <2>1, SameRemainder
<1>6. answer' \in [Command -> SUBSET Command]
  BY <1>0, <1>1, <1>2 DEF TypeOK
<1>7. TypeOK' /\ NumberedInTurn' /\ OwnEntry' /\ Untouched' /\ CallsToCome'
  BY <1>1, <1>6, Answered DEF e
<1>8. OwnAnswer'
  BY <1>0, <1>1, <1>2, <1>5 DEF OwnAnswer, TypeOK
<1>9. QED
  BY <1>7, <1>8 DEF IInv

\* A deadline erases and calls back like an acknowledgement, and answers nothing.
LEMMA OnTimeoutInv == ASSUME IInv, NEW s \in SeqNum, OnTimeout(s) PROVE IInv'
<1> DEFINE e == commands_[s]
<1>1. /\ s \in DOMAIN commands_ /\ EraseCommand(s) /\ RunCallback(e, "Timeout")
      /\ UNCHANGED <<seq, drawn, seq_num, pc, out, up, sessions, readded, replaced>>
      /\ answer' = answer
  BY DEF OnTimeout
<1>2. answer' \in [Command -> SUBSET Command]
  BY <1>1 DEF IInv, TypeOK
<1> HIDE DEF e
<1>3. TypeOK' /\ NumberedInTurn' /\ OwnEntry' /\ Untouched' /\ CallsToCome'
  BY <1>1, <1>2, Answered DEF e
<1>4. OwnAnswer'
  BY <1>1 DEF IInv, OwnAnswer
<1>5. QED
  BY <1>3, <1>4 DEF IInv

\* Ending and starting the SDK, and stuttering, leave the table alone.
LEMMA SessionInv == ASSUME IInv, Destory \/ SdkInit \/ UNCHANGED vars PROVE IInv'
<1>1. UNCHANGED <<seq, drawn, seq_num, pc, commands_, out, calls, answer, readded, replaced>>
  BY DEF Destory, SdkInit, vars
<1>2. up' \in BOOLEAN /\ sessions' \in 1 .. MaxSessions
  <2>1. up \in BOOLEAN /\ sessions \in 1 .. MaxSessions
    BY DEF IInv, TypeOK
  <2>2. CASE Destory
    BY <2>1, <2>2 DEF Destory
  <2>3. CASE SdkInit
    BY <2>1, <2>3, CommandAssumption DEF SdkInit
  <2>4. CASE UNCHANGED vars
    BY <2>1, <2>4 DEF vars
  <2>5. QED
    BY <2>2, <2>3, <2>4
<1>3. TypeOK'
  BY <1>1, <1>2 DEF IInv, TypeOK
<1>4. (NumberedInTurn /\ OwnEntry /\ OwnAnswer)'
  BY <1>1 DEF IInv, NumberedInTurn, OwnEntry, OwnAnswer
<1>5. (Untouched /\ CallsToCome)'
  BY <1>1 DEF IInv, Untouched, CallsToCome, Registered, Callbacks
<1>6. QED
  BY <1>3, <1>4, <1>5 DEF IInv

\* IInv holds in every reachable state of the command table: numbers go round, entries
\* stand under their own numbers, and registrations account for the callbacks.
THEOREM Invariance == Spec => []IInv
<1>1. IInv /\ [Next]_vars => IInv'
  <2> SUFFICES ASSUME IInv, [Next]_vars PROVE IInv'
    OBVIOUS
  <2>1. CASE SendRefused \/ SendUnregistered
    BY <2>1, UnregisteredInv
  <2>2. CASE SendBegin
    BY <2>2, SendBeginInv
  <2>3. CASE Destory \/ SdkInit \/ UNCHANGED vars
    BY <2>3, SessionInv
  <2>4. ASSUME NEW c \in Command, Sender(c) \/ OnAck(c) PROVE IInv'
    BY <2>4, SendToInv, SendToFailedInv, SendAgainInv, OnAckInv DEF Sender
  <2>5. ASSUME NEW s \in SeqNum, OnTimeout(s) PROVE IInv'
    BY <2>5, OnTimeoutInv
  <2>6. QED
    BY <2>1, <2>2, <2>3, <2>4, <2>5 DEF Next
<1>2. QED
  BY <1>1, InitInv, PTL DEF Spec

\* SDK callbacks run at most once plus once for each of the two known reasons.
THEOREM CallbacksBounded == Spec => []CallbackBound
<1>1. IInv => CallbackBound
  <2> SUFFICES ASSUME IInv, NEW c \in Command
               PROVE  Callbacks(c) <= 1 + (IF c \in readded THEN 1 ELSE 0) + calls[c]["SendFailed"]
    BY DEF CallbackBound
  <2>1. Callbacks(c) \in Nat /\ calls[c]["SendFailed"] \in Nat
    BY CountType DEF IInv
  <2>2. Callbacks(c) + (IF Registered(c) THEN 1 ELSE 0)
          <= 1 + (IF c \in readded THEN 1 ELSE 0) + calls[c]["SendFailed"]
    BY DEF IInv, CallsToCome
  <2>3. QED
    BY <2>1, <2>2
<1>2. QED
  BY <1>1, Invariance, PTL

\* A callback gets the acknowledgement of its own command or of one whole rounds away.
THEOREM OwnAnswers == Spec => []OwnAnswer
<1>1. IInv => OwnAnswer
  BY DEF IInv
<1>2. QED
  BY <1>1, Invariance, PTL
=============================================================================
