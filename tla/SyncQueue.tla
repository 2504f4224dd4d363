----------------------------- MODULE SyncQueue -----------------------------
(***************************************************************************)
(* rs_driver/utility/sync_queue.hpp: the lock-free ring shared by one      *)
(* producer thread and one consumer thread.  Every load or store of an     *)
(* atomic that the other thread may change is a step of its own.  The      *)
(* producer's load of tail_ is merged with its load of head_, because only *)
(* the producer writes tail_.                                              *)
(*                                                                         *)
(* clear() is called by the producer.  The driver calls it on overflow     *)
(* only, so the actions that model it are part of NextClear and not of     *)
(* Next: Spec is the protocol of the two free queues and of a packet queue *)
(* that never overflows.                                                   *)
(***************************************************************************)
EXTENDS Integers, Sequences

CONSTANTS Capacity,  (* template parameter Capacity: one slot stays empty   *)
          Value,     (* the values pushed (shared_ptr to a buffer)          *)
          NoValue,   (* a default-constructed value (null shared_ptr)       *)
          MaxCount   (* popBatch's max_count                                *)

ASSUME CapacityAssumption == Capacity \in Nat /\ Capacity >= 2
ASSUME MaxCountAssumption == MaxCount \in Nat \ {0}
ASSUME NoValueAssumption  == NoValue \notin Value

VARIABLES
  buffer_, head_, tail_,     (* the ring                                    *)
  ppc, pvalue, ptail,        (* producer: place, value, current_tail        *)
  cpc, chead, count, copied, (* consumer: place, current_head, real_count,  *)
                             (* values copied out so far                    *)
  result                     (* what the consumer's last call returned      *)

ring     == <<buffer_, head_, tail_>>
producer == <<ppc, pvalue, ptail>>
consumer == <<cpc, chead, count, copied, result>>
vars     == <<ring, producer, consumer>>

Index == 0 .. (Capacity - 1)

Init ==
  /\ buffer_ = [i \in Index |-> NoValue]
  /\ head_ = 0
  /\ tail_ = 0
  /\ ppc = "idle" /\ pvalue = NoValue /\ ptail = 0
  /\ cpc = "idle" /\ chead = 0 /\ count = 0 /\ copied = <<>>
  /\ result = <<>>

\* Mutant of Advance: the index does not wrap.
AdvanceNoWrap(i, k) == i + k

\* (current + k) % Capacity
Advance(i, k) == (i + k) % Capacity

\* size() and popBatch's "available": slots from h up to t, around the ring.
Available(h, t) == IF t >= h THEN t - h ELSE Capacity - h + t

-----------------------------------------------------------------------------
(* push, by the producer *)

\* The full check.  The queue is full when the slot after tail_ is head_.
PushFull(v) ==
  /\ ppc = "idle"
  /\ Advance(tail_, 1) = head_
  /\ pvalue' = v
  /\ ppc' = "refused"
  /\ UNCHANGED <<ring, ptail, consumer>>

\* Mutant of PushLoad: the full check is forgotten.
PushLoadUnchecked(v) ==
  /\ ppc = "idle"
  /\ pvalue' = v
  /\ ptail' = tail_
  /\ ppc' = "write"
  /\ UNCHANGED <<ring, consumer>>

PushLoad(v) ==
  /\ ppc = "idle"
  /\ Advance(tail_, 1) # head_
  /\ pvalue' = v
  /\ ptail' = tail_
  /\ ppc' = "write"
  /\ UNCHANGED <<ring, consumer>>

PushWrite ==
  /\ ppc = "write"
  /\ buffer_' = [buffer_ EXCEPT ![ptail] = pvalue]
  /\ ppc' = "publish"
  /\ UNCHANGED <<head_, tail_, pvalue, ptail, consumer>>

PushPublish ==
  /\ ppc = "publish"
  /\ tail_' = Advance(ptail, 1)
  /\ ppc' = "idle"
  /\ UNCHANGED <<buffer_, head_, pvalue, ptail, consumer>>

\* push returned -1: the caller keeps or drops the value.
PushRefused ==
  /\ ppc = "refused"
  /\ ppc' = "idle"
  /\ UNCHANGED <<ring, pvalue, ptail, consumer>>

-----------------------------------------------------------------------------
(* pop, popWait and popBatch, by the consumer *)

\* All three start by loading head_.
PopLoadHead ==
  /\ cpc = "idle"
  /\ chead' = head_
  /\ cpc' = "loaded"
  /\ UNCHANGED <<ring, producer, count, copied, result>>

\* An empty ring: pop returns the default value, popWait and popBatch give up
\* after their time limit (a retry before it is a new PopLoadHead).
PopEmpty ==
  /\ cpc = "loaded"
  /\ chead = tail_
  /\ result' = <<>>
  /\ cpc' = "idle"
  /\ UNCHANGED <<ring, producer, chead, count, copied>>

\* pop and popWait take exactly one value ...
PopOne ==
  /\ cpc = "loaded"
  /\ chead # tail_
  /\ count' = 1
  /\ copied' = <<>>
  /\ cpc' = "copy"
  /\ UNCHANGED <<ring, producer, chead, result>>

\* ... popBatch leaves its waiting loop and loads head_ and tail_ once more.
BatchReady ==
  /\ cpc = "loaded"
  /\ chead # tail_
  /\ cpc' = "reloadhead"
  /\ UNCHANGED <<ring, producer, chead, count, copied, result>>

BatchReloadHead ==
  /\ cpc = "reloadhead"
  /\ chead' = head_
  /\ cpc' = "reloadtail"
  /\ UNCHANGED <<ring, producer, count, copied, result>>

BatchCount ==
  /\ cpc = "reloadtail"
  /\ LET available == Available(chead, tail_)
     IN  count' = IF MaxCount < available THEN MaxCount ELSE available
  /\ copied' = <<>>
  /\ cpc' = "copy"
  /\ UNCHANGED <<ring, producer, chead, result>>

CopyOne ==
  /\ cpc = "copy"
  /\ Len(copied) < count
  /\ copied' = Append(copied, buffer_[Advance(chead, Len(copied))])
  /\ UNCHANGED <<ring, producer, cpc, chead, count, result>>

\* Mutant of PopAdvance: one slot too many is released.
PopAdvanceTooFar ==
  /\ cpc = "copy"
  /\ Len(copied) = count
  /\ head_' = Advance(chead, count + 1)
  /\ result' = copied
  /\ cpc' = "idle"
  /\ UNCHANGED <<buffer_, tail_, producer, chead, count, copied>>

\* Mutant of PopAdvance: a batch releases one slot only, as pop does.
PopAdvanceByOne ==
  /\ cpc = "copy"
  /\ Len(copied) = count
  /\ head_' = Advance(chead, 1)
  /\ result' = copied
  /\ cpc' = "idle"
  /\ UNCHANGED <<buffer_, tail_, producer, chead, count, copied>>

PopAdvance ==
  /\ cpc = "copy"
  /\ Len(copied) = count
  /\ head_' = Advance(chead, count)
  /\ result' = copied
  /\ cpc' = "idle"
  /\ UNCHANGED <<buffer_, tail_, producer, chead, count, copied>>

-----------------------------------------------------------------------------
(* clear, by the producer after a refused push: two relaxed stores *)

ClearHead ==
  /\ ppc = "refused"
  /\ head_' = 0
  /\ ppc' = "clear"
  /\ UNCHANGED <<buffer_, tail_, pvalue, ptail, consumer>>

ClearTail ==
  /\ ppc = "clear"
  /\ tail_' = 0
  /\ ppc' = "idle"
  /\ UNCHANGED <<buffer_, head_, pvalue, ptail, consumer>>

-----------------------------------------------------------------------------
Push == (\E v \in Value : PushFull(v) \/ PushLoad(v)) \/ PushWrite \/ PushPublish
Pop  == \/ PopLoadHead \/ PopEmpty \/ PopOne \/ BatchReady \/ BatchReloadHead
        \/ BatchCount \/ CopyOne \/ PopAdvance

Next == Push \/ PushRefused \/ Pop

Spec == Init /\ [][Next]_vars

-----------------------------------------------------------------------------
(* Properties *)

ProducerPlaces == {"idle", "write", "publish", "refused", "clear"}
ConsumerPlaces == {"idle", "loaded", "reloadhead", "reloadtail", "copy"}

\* The type invariant.
TypeOK ==
  /\ buffer_ \in [Index -> Value \cup {NoValue}]
  /\ head_ \in Index
  /\ tail_ \in Index
  /\ ppc \in ProducerPlaces
  /\ pvalue \in Value \cup {NoValue}
  /\ ptail \in Index
  /\ cpc \in ConsumerPlaces
  /\ chead \in Index
  /\ count \in Nat
  /\ copied \in Seq(Value \cup {NoValue})
  /\ result \in Seq(Value \cup {NoValue})

\* No data race on a slot: while push stores into buffer_[current_tail], none of
\* the slots that a pop in progress has claimed (current_head up to current_head
\* + real_count - 1, sync_queue.hpp:144-149) is that slot.
SlotExclusion ==
  (ppc \in {"write", "publish"} /\ cpc = "copy") =>
    \A k \in 0 .. (count - 1) : Advance(chead, k) # ptail

\* A pop returns only values that were pushed, never the default-constructed
\* content of a slot nobody filled: internalProcessPacket dereferences what it
\* gets without a null check.
NeverUnfilled == \A k \in DOMAIN result : result[k] \in Value

\* The values between head_ and tail_, oldest first.
Contents == [k \in 1 .. Available(head_, tail_) |-> buffer_[Advance(head_, k - 1)]]

Fifo == INSTANCE BoundedFifo WITH Bound <- Capacity - 1, Value <- Value,
                                  queue <- Contents, batch <- result

\* The ring implements a bounded first-in first-out queue of Capacity - 1 values
\* for one producer and one consumer: nothing is lost, repeated or reordered.
ImplementsFifo == Fifo!FifoSpec

\* The inductive strengthening behind the properties above.
InFlight ==
  /\ ppc \in {"write", "publish"} =>
       /\ ptail = tail_
       /\ Advance(tail_, 1) # head_
       /\ pvalue \in Value
  /\ ppc = "publish" => buffer_[ptail] = pvalue
  /\ ppc # "clear"
  /\ cpc \in {"loaded", "reloadtail"} => chead = head_
  /\ cpc = "copy" =>
       /\ chead = head_
       /\ count <= Available(head_, tail_)
       /\ Len(copied) <= count
       /\ \A k \in 1 .. Len(copied) : copied[k] = buffer_[Advance(head_, k - 1)]
  /\ \A k \in 1 .. Available(head_, tail_) : buffer_[Advance(head_, k - 1)] \in Value

\* The whole inductive invariant: what each thread checked stays true until it acts on it.
IInv == TypeOK /\ InFlight /\ NeverUnfilled
=============================================================================
