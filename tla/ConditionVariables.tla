------------------------- MODULE ConditionVariables -------------------------
(***************************************************************************)
(* The producer/consumer program of src/src/ConditionVariables: a ring     *)
(* buffer under a critical section, two condition variables, and a main    *)
(* thread that asks every thread to stop and joins them.                   *)
(*                                                                         *)
(* One action per stretch of code between two points at which another      *)
(* thread can interfere.  BufferLock is explicit: a thread owns it in the  *)
(* "check" state only.  The Wake calls are made after the lock is left, as *)
(* in the code, so they are steps of their own.                            *)
(***************************************************************************)
EXTENDS Integers, Sequences

CONSTANTS
    Producers,     \* producer threads
    Consumers,     \* consumer threads
    Main,          \* the thread of main()
    NoThread,      \* the owner of a critical section nobody is in
    BUFFER_SIZE,   \* slots of Buffer
    Wrap           \* 2^32 of the code's LONG and ULONG counters

ASSUME ThreadsAssumption ==
    /\ Producers \cap Consumers = {}
    /\ Consumers # {}
    /\ Main \notin Producers \cup Consumers
    /\ NoThread \notin Producers \cup Consumers \cup {Main}
ASSUME BufferSizeAssumption == BUFFER_SIZE \in Nat \ {0}
ASSUME WrapAssumption == Wrap \in Nat /\ BUFFER_SIZE < Wrap

Workers == Producers \cup Consumers
Counter == 0 .. Wrap - 1
Slots   == 0 .. BUFFER_SIZE - 1

VARIABLES
    Buffer, LastItemProduced, QueueSize, QueueStartOffset,
    TotalItemsProduced, TotalItemsConsumed, StopRequested,
    BufferLock,        \* the thread inside the critical section
    BufferNotEmpty,    \* consumers asleep on this condition variable
    BufferNotFull,     \* producers asleep on this condition variable
    pc,                \* where each thread is
    Item               \* each worker's local Item

queueVars == <<Buffer, QueueSize, QueueStartOffset, TotalItemsProduced, TotalItemsConsumed>>
cvVars    == <<BufferNotEmpty, BufferNotFull>>
vars      == <<queueVars, cvVars, LastItemProduced, StopRequested, BufferLock, pc, Item>>

Init ==
    /\ Buffer = [i \in Slots |-> 0]
    /\ LastItemProduced = 0
    /\ QueueSize = 0
    /\ QueueStartOffset = 0
    /\ TotalItemsProduced = 0
    /\ TotalItemsConsumed = 0
    /\ StopRequested = FALSE
    /\ BufferLock = NoThread
    /\ BufferNotEmpty = {}
    /\ BufferNotFull = {}
    /\ pc = [t \in Workers \cup {Main} |->
                IF t \in Producers THEN "produce" ELSE IF t \in Consumers THEN "enter" ELSE "getchar"]
    /\ Item = [t \in Workers |-> 0]

Goto(t, l) == pc' = [pc EXCEPT ![t] = l]

-----------------------------------------------------------------------------
(* The primitives of the critical section and the condition variables.     *)

EnterCriticalSection(t) ==
    /\ pc[t] = "enter"
    /\ BufferLock = NoThread
    /\ BufferLock' = t
    /\ Goto(t, "check")
    /\ UNCHANGED <<queueVars, cvVars, LastItemProduced, StopRequested, Item>>

LeaveCriticalSection(t) == BufferLock' = NoThread

(* WakeConditionVariable: one sleeper, if there is one, goes on to          *)
(* re-enter the critical section.                                           *)
WakeProducer(t, next) ==
    \/ /\ BufferNotFull = {}
       /\ Goto(t, next)
       /\ UNCHANGED BufferNotFull
    \/ \E s \in BufferNotFull :
          /\ BufferNotFull' = BufferNotFull \ {s}
          /\ pc' = [pc EXCEPT ![t] = next, ![s] = "enter"]

WakeConsumer(t, next) ==
    \/ /\ BufferNotEmpty = {}
       /\ Goto(t, next)
       /\ UNCHANGED BufferNotEmpty
    \/ \E s \in BufferNotEmpty :
          /\ BufferNotEmpty' = BufferNotEmpty \ {s}
          /\ pc' = [pc EXCEPT ![t] = next, ![s] = "enter"]

(* A condition variable may wake a thread nobody signalled.                 *)
SpuriousWake(t) ==
    /\ t \in BufferNotEmpty \cup BufferNotFull
    /\ BufferNotEmpty' = BufferNotEmpty \ {t}
    /\ BufferNotFull' = BufferNotFull \ {t}
    /\ Goto(t, "enter")
    /\ UNCHANGED <<queueVars, LastItemProduced, StopRequested, BufferLock, Item>>

-----------------------------------------------------------------------------
(* ProducerThreadProc                                                       *)

ProduceItem(p) ==
    /\ pc[p] = "produce"
    /\ LastItemProduced' = (LastItemProduced + 1) % Wrap
    /\ Item' = [Item EXCEPT ![p] = LastItemProduced']
    /\ Goto(p, "enter")
    /\ UNCHANGED <<queueVars, cvVars, StopRequested, BufferLock>>

(* Seeded fault: the stop flag is not tested before sleeping.               *)
SleepOnNotFull_IgnoresStop(p) ==
    /\ pc[p] = "check"
    /\ QueueSize = BUFFER_SIZE
    /\ BufferNotFull' = BufferNotFull \cup {p}
    /\ LeaveCriticalSection(p)
    /\ Goto(p, "asleep")
    /\ UNCHANGED <<queueVars, BufferNotEmpty, LastItemProduced, StopRequested, Item>>

SleepOnNotFull(p) ==
    /\ pc[p] = "check"
    /\ QueueSize = BUFFER_SIZE /\ ~StopRequested
    /\ BufferNotFull' = BufferNotFull \cup {p}
    /\ LeaveCriticalSection(p)
    /\ Goto(p, "asleep")
    /\ UNCHANGED <<queueVars, BufferNotEmpty, LastItemProduced, StopRequested, Item>>

(* Seeded fault: the item dropped on exit is counted as produced.           *)
ProducerExit_CountsItem(p) ==
    /\ pc[p] = "check"
    /\ StopRequested
    /\ TotalItemsProduced' = (TotalItemsProduced + 1) % Wrap
    /\ LeaveCriticalSection(p)
    /\ Goto(p, "done")
    /\ UNCHANGED <<Buffer, QueueSize, QueueStartOffset, TotalItemsConsumed, cvVars,
                   LastItemProduced, StopRequested, Item>>

(* Seeded fault: the break leaves the inner loop only.                      *)
ProducerExit_BreaksInner(p) ==
    /\ pc[p] = "check"
    /\ StopRequested
    /\ LeaveCriticalSection(p)
    /\ Goto(p, "enter")
    /\ UNCHANGED <<queueVars, cvVars, LastItemProduced, StopRequested, Item>>

(* The item in hand is dropped: it was numbered but never inserted.         *)
ProducerExit(p) ==
    /\ pc[p] = "check"
    /\ StopRequested
    /\ LeaveCriticalSection(p)
    /\ Goto(p, "done")
    /\ UNCHANGED <<queueVars, cvVars, LastItemProduced, StopRequested, Item>>

(* The body of Insert, with the slot it writes and the place it goes to.    *)
InsertAt(p, slot, next) ==
    /\ pc[p] = "check"
    /\ ~(QueueSize = BUFFER_SIZE /\ ~StopRequested) /\ ~StopRequested
    /\ Buffer' = [Buffer EXCEPT ![slot] = Item[p]]
    /\ QueueSize' = QueueSize + 1
    /\ TotalItemsProduced' = (TotalItemsProduced + 1) % Wrap
    /\ LeaveCriticalSection(p)
    /\ Goto(p, next)
    /\ UNCHANGED <<QueueStartOffset, TotalItemsConsumed, cvVars, LastItemProduced, StopRequested, Item>>

(* Seeded fault: no WakeConditionVariable after the insertion.              *)
Insert_NoWake(p) == InsertAt(p, (QueueStartOffset + QueueSize) % BUFFER_SIZE, "produce")

(* Seeded fault: the insertion writes one slot too far.                     *)
Insert_OffByOne(p) == InsertAt(p, (QueueStartOffset + QueueSize + 1) % BUFFER_SIZE, "wake")

Insert(p) == InsertAt(p, (QueueStartOffset + QueueSize) % BUFFER_SIZE, "wake")

ProducerWake(p) ==
    /\ pc[p] = "wake"
    /\ WakeConsumer(p, "produce")
    /\ UNCHANGED <<queueVars, BufferNotFull, LastItemProduced, StopRequested, BufferLock, Item>>

ProducerThreadProc(p) ==
    \/ ProduceItem(p) \/ EnterCriticalSection(p) \/ SleepOnNotFull(p)
    \/ ProducerExit(p) \/ Insert(p) \/ ProducerWake(p)

-----------------------------------------------------------------------------
(* ConsumerThreadProc                                                       *)

SleepOnNotEmpty(c) ==
    /\ pc[c] = "check"
    /\ QueueSize = 0 /\ ~StopRequested
    /\ BufferNotEmpty' = BufferNotEmpty \cup {c}
    /\ LeaveCriticalSection(c)
    /\ Goto(c, "asleep")
    /\ UNCHANGED <<queueVars, BufferNotFull, LastItemProduced, StopRequested, Item>>

(* Seeded fault: a consumer leaves items behind when asked to stop.         *)
ConsumerExit_NoDrain(c) ==
    /\ pc[c] = "check"
    /\ StopRequested
    /\ LeaveCriticalSection(c)
    /\ Goto(c, "done")
    /\ UNCHANGED <<queueVars, cvVars, LastItemProduced, StopRequested, Item>>

ConsumerExit(c) ==
    /\ pc[c] = "check"
    /\ StopRequested /\ QueueSize = 0
    /\ LeaveCriticalSection(c)
    /\ Goto(c, "done")
    /\ UNCHANGED <<queueVars, cvVars, LastItemProduced, StopRequested, Item>>

RemoveNext(c, nextOffset) ==
    /\ pc[c] = "check"
    /\ ~(QueueSize = 0 /\ ~StopRequested) /\ ~(StopRequested /\ QueueSize = 0)
    /\ Item' = [Item EXCEPT ![c] = Buffer[QueueStartOffset]]
    /\ QueueSize' = QueueSize - 1
    /\ QueueStartOffset' = nextOffset
    /\ TotalItemsConsumed' = (TotalItemsConsumed + 1) % Wrap
    /\ LeaveCriticalSection(c)
    /\ Goto(c, "wake")
    /\ UNCHANGED <<Buffer, TotalItemsProduced, cvVars, LastItemProduced, StopRequested>>

(* Seeded fault: the offset wraps one slot too late.                        *)
Remove_WrapsLate(c) ==
    RemoveNext(c, IF QueueStartOffset = BUFFER_SIZE THEN 0 ELSE QueueStartOffset + 1)

(* Seeded fault: off by one, the last item is left and looked for again.    *)
Remove_LeavesLast(c) ==
    \/ /\ QueueSize > 1
       /\ RemoveNext(c, IF QueueStartOffset + 1 = BUFFER_SIZE THEN 0
                        ELSE QueueStartOffset + 1)
    \/ /\ pc[c] = "check" /\ QueueSize = 1
       /\ LeaveCriticalSection(c)
       /\ Goto(c, "enter")
       /\ UNCHANGED <<queueVars, cvVars, LastItemProduced, StopRequested, Item>>

Remove(c) ==
    RemoveNext(c, IF QueueStartOffset + 1 = BUFFER_SIZE THEN 0 ELSE QueueStartOffset + 1)

ConsumerWake(c) ==
    /\ pc[c] = "wake"
    /\ WakeProducer(c, "enter")
    /\ UNCHANGED <<queueVars, BufferNotEmpty, LastItemProduced, StopRequested, BufferLock, Item>>

ConsumerThreadProc(c) ==
    \/ EnterCriticalSection(c) \/ SleepOnNotEmpty(c) \/ ConsumerExit(c)
    \/ Remove(c) \/ ConsumerWake(c)

-----------------------------------------------------------------------------
(* main: stop on a key press, wake everybody, join everybody.               *)

RequestStop ==
    /\ pc[Main] = "getchar"
    /\ BufferLock = NoThread     \* EnterCriticalSection ... LeaveCriticalSection
    /\ StopRequested' = TRUE
    /\ Goto(Main, "wakeNotFull")
    /\ UNCHANGED <<queueVars, cvVars, LastItemProduced, BufferLock, Item>>

WakeAllNotFull ==
    /\ pc[Main] = "wakeNotFull"
    /\ BufferNotFull' = {}
    /\ pc' = [t \in DOMAIN pc |->
                IF t \in BufferNotFull THEN "enter" ELSE IF t = Main THEN "wakeNotEmpty" ELSE pc[t]]
    /\ UNCHANGED <<queueVars, BufferNotEmpty, LastItemProduced, StopRequested, BufferLock, Item>>

WakeAllNotEmpty ==
    /\ pc[Main] = "wakeNotEmpty"
    /\ BufferNotEmpty' = {}
    /\ pc' = [t \in DOMAIN pc |->
                IF t \in BufferNotEmpty THEN "enter" ELSE IF t = Main THEN "join" ELSE pc[t]]
    /\ UNCHANGED <<queueVars, BufferNotFull, LastItemProduced, StopRequested, BufferLock, Item>>

JoinAll ==
    /\ pc[Main] = "join"
    /\ \A t \in Workers : pc[t] = "done"
    /\ Goto(Main, "done")
    /\ UNCHANGED <<queueVars, cvVars, LastItemProduced, StopRequested, BufferLock, Item>>

MainThread == RequestStop \/ WakeAllNotFull \/ WakeAllNotEmpty \/ JoinAll

Terminated == pc[Main] = "done" /\ UNCHANGED vars

-----------------------------------------------------------------------------
Next ==
    \/ \E p \in Producers : ProducerThreadProc(p)
    \/ \E c \in Consumers : ConsumerThreadProc(c)
    \/ \E t \in Workers : SpuriousWake(t)
    \/ MainThread
    \/ Terminated

Spec == Init /\ [][Next]_vars

(* Every thread the scheduler can run is eventually run.  Nobody has to     *)
(* press the key, no spurious wake-up has to come, and the critical section *)
(* is not fair: a thread that waits for it is promised nothing while others *)
(* keep taking it.                                                          *)
Fairness ==
    /\ \A p \in Producers : WF_vars(ProducerThreadProc(p))
    /\ \A c \in Consumers : WF_vars(ConsumerThreadProc(c))
    /\ WF_vars(WakeAllNotFull) /\ WF_vars(WakeAllNotEmpty) /\ WF_vars(JoinAll)

(* Spurious wake-ups come, but not for ever: each takes the unfair critical *)
(* section away from a waiting thread.                                      *)
FinitelySpurious == <>[][\A t \in Workers : ~SpuriousWake(t)]_vars

FairSpec == Spec /\ Fairness /\ FinitelySpurious

-----------------------------------------------------------------------------
(* Properties                                                               *)

(* Every variable has its C type; the ring indices stay inside Buffer.      *)
TypeOK ==
    /\ Buffer \in [Slots -> Counter]
    /\ LastItemProduced \in Counter
    /\ QueueSize \in 0 .. BUFFER_SIZE
    /\ QueueStartOffset \in Slots
    /\ TotalItemsProduced \in Counter
    /\ TotalItemsConsumed \in Counter
    /\ StopRequested \in BOOLEAN
    /\ BufferLock \in Workers \cup {NoThread}
    /\ BufferNotEmpty \in SUBSET Consumers
    /\ BufferNotFull \in SUBSET Producers
    /\ pc \in [Workers \cup {Main} ->
                 {"produce", "enter", "check", "asleep", "wake", "done",
                  "getchar", "wakeNotFull", "wakeNotEmpty", "join"}]
    /\ Item \in [Workers -> Counter]

(* The two totals main prints differ by exactly what is still in the        *)
(* buffer, although each is read and written by different threads and both  *)
(* wrap around.                                                             *)
Accounting ==
    (TotalItemsProduced - TotalItemsConsumed) % Wrap = QueueSize % Wrap

(* Main never reaches its final printf with an item still queued: the       *)
(* consumers drain what was inserted before the stop.                       *)
DrainedAtExit ==
    pc[Main] = "done" => QueueSize = 0 /\ TotalItemsProduced = TotalItemsConsumed

(* The signal after LeaveCriticalSection is never lost: while an item is    *)
(* queued and a consumer sleeps, somebody is on the way who will take an    *)
(* item or wake a sleeper (main itself, once it has asked for the stop);    *)
(* likewise for a free slot and a sleeping producer.                        *)
NoLostWakeup ==
    /\ QueueSize > 0 /\ BufferNotEmpty # {} =>
          \/ \E p \in Producers : pc[p] = "wake"
          \/ \E c \in Consumers : pc[c] \in {"enter", "check", "wake"}
          \/ pc[Main] \in {"wakeNotFull", "wakeNotEmpty"}
    /\ QueueSize < BUFFER_SIZE /\ BufferNotFull # {} =>
          \/ \E c \in Consumers : pc[c] = "wake"
          \/ \E p \in Producers : pc[p] \in {"produce", "enter", "check", "wake"}
          \/ pc[Main] = "wakeNotFull"

(* After the stop request no sleeper is forgotten: whoever sleeps will be   *)
(* woken by a WakeAll main has still to make.                               *)
NobodySleepsThroughStop ==
    /\ pc[Main] \in {"wakeNotEmpty", "join", "done"} => BufferNotFull = {}
    /\ pc[Main] \in {"join", "done"} => BufferNotEmpty = {}

(* The ring buffer read as a queue, oldest item first.                      *)
Contents == [i \in 1 .. QueueSize |-> Buffer[(QueueStartOffset + i - 1) % BUFFER_SIZE]]

Fifo == INSTANCE BoundedFifo WITH
            Capacity <- BUFFER_SIZE, Values <- Counter, Takers <- Consumers,
            queue <- Contents, closed <- StopRequested,
            taken <- [c \in Consumers |-> Item[c]]

(* The ring buffer under its lock is a bounded FIFO queue: no item is lost, *)
(* duplicated, reordered or inserted after the stop.                        *)
ImplementsFifo == Fifo!FifoSpec

(* A stop request is always obeyed: every thread ends and main returns.     *)
StopTerminates == StopRequested ~> pc[Main] = "done"

(* A queued item does not wait for ever: as long as the queue is not empty  *)
(* another item is consumed.                                                *)
ItemsAreConsumed ==
    \A n \in Counter : (QueueSize > 0 /\ TotalItemsConsumed = n) ~> (TotalItemsConsumed # n)
=============================================================================
