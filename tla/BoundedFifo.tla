---------------------------- MODULE BoundedFifo ----------------------------
(***************************************************************************)
(* What the bounded buffer of ConditionVariables promises: a FIFO queue of *)
(* at most Capacity items.  Get hands the head of the queue to one taker;  *)
(* nothing is inserted once the queue has been closed, and what is in it   *)
(* when it is closed can still be taken.                                   *)
(***************************************************************************)
EXTENDS Naturals, Sequences

CONSTANTS Capacity, Values, Takers

VARIABLES queue,    \* the items, oldest first
          closed,   \* no more items are accepted
          taken     \* taken[t]: the last item taker t removed

fifoVars == <<queue, closed, taken>>

FifoInit ==
    /\ queue = <<>>
    /\ closed = FALSE
    /\ taken \in [Takers -> Values]

Put(v) ==
    /\ ~closed
    /\ Len(queue) < Capacity
    /\ queue' = Append(queue, v)
    /\ UNCHANGED <<closed, taken>>

Get(t) ==
    /\ queue # <<>>
    /\ queue' = Tail(queue)
    /\ taken' = [taken EXCEPT ![t] = Head(queue)]
    /\ UNCHANGED closed

Close ==
    /\ closed' = TRUE
    /\ UNCHANGED <<queue, taken>>

FifoNext == (\E v \in Values : Put(v)) \/ (\E t \in Takers : Get(t)) \/ Close

FifoSpec == FifoInit /\ [][FifoNext]_fifoVars
=============================================================================
