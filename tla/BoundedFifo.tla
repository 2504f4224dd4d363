---------------------------- MODULE BoundedFifo ----------------------------
(***************************************************************************)
(* What a SyncQueue promises to its two threads: a first-in first-out      *)
(* queue of bounded length.  A push either appends one value or is refused *)
(* because the queue is at its bound; a pop takes a prefix, in order, and  *)
(* hands exactly those values to the caller.                               *)
(***************************************************************************)
EXTENDS Integers, Sequences

CONSTANTS Bound,   (* the largest number of queued values                  *)
          Value    (* the values that can be queued                        *)

VARIABLES queue,   (* the queued values, oldest first                      *)
          batch    (* what the last completed pop returned                 *)

fifoVars == <<queue, batch>>

FifoInit ==
  /\ queue = <<>>
  /\ batch = <<>>

Put(v) ==
  /\ Len(queue) < Bound
  /\ queue' = Append(queue, v)
  /\ UNCHANGED batch

Take(n) ==
  /\ n \in 0 .. Len(queue)
  /\ batch' = SubSeq(queue, 1, n)
  /\ queue' = SubSeq(queue, n + 1, Len(queue))

FifoNext ==
  \/ \E v \in Value : Put(v)
  \/ \E n \in 0 .. Len(queue) : Take(n)

FifoSpec == FifoInit /\ [][FifoNext]_fifoVars
=============================================================================
