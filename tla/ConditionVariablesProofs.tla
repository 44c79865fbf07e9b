---------------------- MODULE ConditionVariablesProofs ----------------------
(***************************************************************************)
(* The bounded buffer for any number of producers and consumers, any       *)
(* buffer size and any counter width: the invariants of ConditionVariables *)
(* and its refinement of BoundedFifo.                                      *)
(***************************************************************************)
EXTENDS ConditionVariables, TLAPS


(* A thread is in the critical section exactly when it owns BufferLock, and *)
(* asleep exactly when it is queued on its condition variable.              *)
LockInv ==
    /\ \A t \in Workers : pc[t] = "check" <=> BufferLock = t
    /\ \A c \in Consumers : pc[c] = "asleep" <=> c \in BufferNotEmpty
    /\ \A p \in Producers : pc[p] = "asleep" <=> p \in BufferNotFull

(* The states each kind of thread can be in.                                *)
RoleInv ==
    /\ \A p \in Producers : pc[p] \in {"produce", "enter", "check", "asleep", "wake", "done"}
    /\ \A c \in Consumers : pc[c] \in {"enter", "check", "asleep", "wake", "done"}
    /\ pc[Main] \in {"getchar", "wakeNotFull", "wakeNotEmpty", "join", "done"}

(* Accounting with the wrap-around spelled out.                             *)
CountInv ==
    \/ TotalItemsProduced = TotalItemsConsumed + QueueSize
    \/ TotalItemsProduced = TotalItemsConsumed + QueueSize - Wrap

(* A worker that has ended saw the stop request; a consumer that has ended  *)
(* also saw an empty queue, which stays empty.                              *)
StopInv ==
    /\ StopRequested <=> pc[Main] # "getchar"
    /\ \A t \in Workers : pc[t] = "done" => StopRequested
    /\ \A c \in Consumers : pc[c] = "done" => QueueSize = 0
    /\ pc[Main] = "done" => \A t \in Workers : pc[t] = "done"

IInv == TypeOK /\ LockInv /\ RoleInv /\ CountInv /\ StopInv
           /\ NoLostWakeup /\ NobodySleepsThroughStop

-----------------------------------------------------------------------------
(* Remainders of a number that exceeds the modulus at most once.            *)
LEMMA ModLow ==
    ASSUME NEW n \in Nat \ {0}, NEW k \in Nat, k < n PROVE k % n = k
  BY Z3

LEMMA ModHigh ==
    ASSUME NEW n \in Nat \ {0}, NEW k \in Nat, n <= k, k < 2 * n PROVE k % n = k - n
  BY Z3

LEMMA ModNeg ==
    ASSUME NEW n \in Nat \ {0}, NEW k \in Int, -n <= k, k < 0 PROVE k % n = k + n
  BY Z3

(* Incrementing a counter leaves it a counter: one more, or back at 0.      *)
LEMMA CounterStep ==
    ASSUME NEW n \in Counter
    PROVE  /\ (n + 1) % Wrap \in Counter
           /\ (n + 1) % Wrap = n + 1 \/ (n + 1) % Wrap = n + 1 - Wrap
  <1>1. Wrap \in Nat \ {0}
    BY WrapAssumption, BufferSizeAssumption
  <1>2. CASE n + 1 < Wrap
    BY <1>1, <1>2, ModLow, n + 1 \in Nat DEF Counter
  <1>3. CASE n + 1 = Wrap
    <2>1. (n + 1) % Wrap = n + 1 - Wrap
      BY <1>1, <1>3, ModHigh, n + 1 \in Nat DEF Counter
    <2> QED BY <1>1, <1>3, <2>1 DEF Counter
  <1> QED BY <1>1, <1>2, <1>3 DEF Counter

LEMMA WrapOnce ==
    ASSUME NEW k \in Nat, k < 2 * BUFFER_SIZE
    PROVE  k % BUFFER_SIZE = IF k < BUFFER_SIZE THEN k ELSE k - BUFFER_SIZE
  <1>1. CASE k < BUFFER_SIZE
    BY <1>1, ModLow, BufferSizeAssumption
  <1>2. CASE ~(k < BUFFER_SIZE)
    <2>1. BUFFER_SIZE <= k
      BY <1>2, BufferSizeAssumption
    <2> QED BY <1>2, <2>1, ModHigh, BufferSizeAssumption
  <1> QED BY <1>1, <1>2

LEMMA InsertSlot ==
    ASSUME NEW o \in Slots, NEW q \in 0 .. BUFFER_SIZE
    PROVE  (o + q) % BUFFER_SIZE = IF o + q < BUFFER_SIZE THEN o + q ELSE o + q - BUFFER_SIZE
  <1>1. o + q \in Nat /\ o + q < 2 * BUFFER_SIZE
    BY BufferSizeAssumption DEF Slots
  <1>2. PICK k \in Nat : k = o + q
    BY <1>1
  <1>3. k % BUFFER_SIZE = IF k < BUFFER_SIZE THEN k ELSE k - BUFFER_SIZE
    BY <1>1, <1>2, WrapOnce
  <1> QED BY <1>2, <1>3, BufferSizeAssumption DEF Slots

-----------------------------------------------------------------------------
LEMMA InitIInv == Init => IInv
  <1> SUFFICES ASSUME Init PROVE IInv
    OBVIOUS
  <1> USE DEF Init
  <1>1. 0 \in Counter /\ 0 \in Slots /\ 0 \in 0 .. BUFFER_SIZE
    BY WrapAssumption, BufferSizeAssumption DEF Counter, Slots
  <1>2. TypeOK
    BY <1>1 DEF TypeOK, Workers
  <1>3. LockInv
    BY ThreadsAssumption DEF LockInv, Workers
  <1>4. RoleInv
    BY ThreadsAssumption DEF RoleInv, Workers
  <1>5. CountInv
    BY DEF CountInv
  <1>6. StopInv
    BY ThreadsAssumption DEF StopInv, Workers
  <1>7. NoLostWakeup /\ NobodySleepsThroughStop
    BY ThreadsAssumption DEF NoLostWakeup, NobodySleepsThroughStop, Workers
  <1> QED BY <1>2, <1>3, <1>4, <1>5, <1>6, <1>7 DEF IInv

(* What an action does to the queue keeps its types and its accounting.     *)
LEMMA StepType == IInv /\ [Next]_vars => TypeOK'
  <1> SUFFICES ASSUME IInv, [Next]_vars PROVE TypeOK'
    OBVIOUS
  <1> USE DEF IInv, TypeOK, Workers, Goto, queueVars, cvVars, LeaveCriticalSection
  <1>1. ASSUME NEW p \in Producers, ProduceItem(p) PROVE TypeOK'
    <2>1. LastItemProduced' \in Counter
      BY <1>1, CounterStep DEF ProduceItem
    <2> QED BY <1>1, <2>1 DEF ProduceItem
  <1>2. ASSUME NEW t \in Workers, EnterCriticalSection(t) PROVE TypeOK'
    BY <1>2 DEF EnterCriticalSection
  <1>3. ASSUME NEW p \in Producers, SleepOnNotFull(p) PROVE TypeOK'
    BY <1>3 DEF SleepOnNotFull
  <1>4. ASSUME NEW p \in Producers, ProducerExit(p) PROVE TypeOK'
    BY <1>4 DEF ProducerExit
  <1>5. ASSUME NEW p \in Producers, Insert(p) PROVE TypeOK'
    <2>1. TotalItemsProduced' \in Counter
      BY <1>5, CounterStep DEF Insert, InsertAt
    <2>2. QueueSize' \in 0 .. BUFFER_SIZE
      BY <1>5, BufferSizeAssumption DEF Insert, InsertAt
    <2> QED BY <1>5, <2>1, <2>2 DEF Insert, InsertAt
  <1>6. ASSUME NEW p \in Producers, ProducerWake(p) PROVE TypeOK'
    BY <1>6 DEF ProducerWake, WakeConsumer
  <1>7. ASSUME NEW c \in Consumers, SleepOnNotEmpty(c) PROVE TypeOK'
    BY <1>7 DEF SleepOnNotEmpty
  <1>8. ASSUME NEW c \in Consumers, ConsumerExit(c) PROVE TypeOK'
    BY <1>8 DEF ConsumerExit
  <1>9. ASSUME NEW c \in Consumers, Remove(c) PROVE TypeOK'
    <2>1. TotalItemsConsumed' \in Counter
      BY <1>9, CounterStep DEF Remove, RemoveNext
    <2>2. QueueSize' \in 0 .. BUFFER_SIZE /\ QueueStartOffset' \in Slots
      BY <1>9, BufferSizeAssumption DEF Remove, RemoveNext, Slots
    <2> QED BY <1>9, <2>1, <2>2 DEF Remove, RemoveNext
  <1>10. ASSUME NEW c \in Consumers, ConsumerWake(c) PROVE TypeOK'
    BY <1>10 DEF ConsumerWake, WakeProducer
  <1>11. ASSUME NEW t \in Workers, SpuriousWake(t) PROVE TypeOK'
    BY <1>11 DEF SpuriousWake
  <1>12. CASE MainThread
    BY <1>12 DEF MainThread, RequestStop, WakeAllNotFull, WakeAllNotEmpty, JoinAll
  <1>13. CASE Terminated \/ UNCHANGED vars
    BY <1>13 DEF Terminated, vars
  <1> QED
    BY <1>1, <1>2, <1>3, <1>4, <1>5, <1>6, <1>7, <1>8, <1>9, <1>10, <1>11, <1>12, <1>13
       DEF Next, ProducerThreadProc, ConsumerThreadProc

(* The lock and the sets of sleepers agree with where the threads are.      *)
LEMMA StepLock == IInv /\ TypeOK' /\ [Next]_vars => LockInv'
  <1> SUFFICES ASSUME IInv, TypeOK', [Next]_vars PROVE LockInv'
    OBVIOUS
  <1> USE ThreadsAssumption DEF IInv, TypeOK, Workers, Goto, queueVars, cvVars, LeaveCriticalSection, LockInv, RoleInv
  <1>1. ASSUME NEW p \in Producers, ProduceItem(p) PROVE LockInv'
    BY <1>1 DEF ProduceItem
  <1>2. ASSUME NEW t \in Workers, EnterCriticalSection(t) PROVE LockInv'
    BY <1>2 DEF EnterCriticalSection
  <1>3. ASSUME NEW p \in Producers, SleepOnNotFull(p) PROVE LockInv'
    BY <1>3 DEF SleepOnNotFull
  <1>4. ASSUME NEW p \in Producers, ProducerExit(p) PROVE LockInv'
    BY <1>4 DEF ProducerExit
  <1>5. ASSUME NEW p \in Producers, Insert(p) PROVE LockInv'
    BY <1>5 DEF Insert, InsertAt
  <1>6. ASSUME NEW p \in Producers, ProducerWake(p) PROVE LockInv'
    BY <1>6 DEF ProducerWake, WakeConsumer
  <1>7. ASSUME NEW c \in Consumers, SleepOnNotEmpty(c) PROVE LockInv'
    BY <1>7 DEF SleepOnNotEmpty
  <1>8. ASSUME NEW c \in Consumers, ConsumerExit(c) PROVE LockInv'
    BY <1>8 DEF ConsumerExit
  <1>9. ASSUME NEW c \in Consumers, Remove(c) PROVE LockInv'
    BY <1>9 DEF Remove, RemoveNext
  <1>10. ASSUME NEW c \in Consumers, ConsumerWake(c) PROVE LockInv'
    BY <1>10 DEF ConsumerWake, WakeProducer
  <1>11. ASSUME NEW t \in Workers, SpuriousWake(t) PROVE LockInv'
    BY <1>11 DEF SpuriousWake
  <1>12. CASE RequestStop
    BY <1>12 DEF RequestStop
  <1>13. CASE WakeAllNotFull
    BY <1>13 DEF WakeAllNotFull
  <1>14. CASE WakeAllNotEmpty
    BY <1>14 DEF WakeAllNotEmpty
  <1>15. CASE JoinAll
    BY <1>15 DEF JoinAll
  <1>16. CASE Terminated \/ UNCHANGED vars
    BY <1>16 DEF Terminated, vars
  <1> QED
    BY <1>1, <1>2, <1>3, <1>4, <1>5, <1>6, <1>7, <1>8,
       <1>9, <1>10, <1>11, <1>12, <1>13, <1>14, <1>15, <1>16
       DEF Next, ProducerThreadProc, ConsumerThreadProc, MainThread

(* Every thread stays in the states of its own procedure.                   *)
LEMMA StepRole == IInv /\ TypeOK' /\ [Next]_vars => RoleInv'
  <1> SUFFICES ASSUME IInv, TypeOK', [Next]_vars PROVE RoleInv'
    OBVIOUS
  <1> USE ThreadsAssumption DEF IInv, TypeOK, Workers, Goto, queueVars, cvVars, LeaveCriticalSection, LockInv, RoleInv
  <1>1. ASSUME NEW p \in Producers, ProduceItem(p) PROVE RoleInv'
    BY <1>1 DEF ProduceItem
  <1>2. ASSUME NEW t \in Workers, EnterCriticalSection(t) PROVE RoleInv'
    BY <1>2 DEF EnterCriticalSection
  <1>3. ASSUME NEW p \in Producers, SleepOnNotFull(p) PROVE RoleInv'
    BY <1>3 DEF SleepOnNotFull
  <1>4. ASSUME NEW p \in Producers, ProducerExit(p) PROVE RoleInv'
    BY <1>4 DEF ProducerExit
  <1>5. ASSUME NEW p \in Producers, Insert(p) PROVE RoleInv'
    BY <1>5 DEF Insert, InsertAt
  <1>6. ASSUME NEW p \in Producers, ProducerWake(p) PROVE RoleInv'
    BY <1>6 DEF ProducerWake, WakeConsumer
  <1>7. ASSUME NEW c \in Consumers, SleepOnNotEmpty(c) PROVE RoleInv'
    BY <1>7 DEF SleepOnNotEmpty
  <1>8. ASSUME NEW c \in Consumers, ConsumerExit(c) PROVE RoleInv'
    BY <1>8 DEF ConsumerExit
  <1>9. ASSUME NEW c \in Consumers, Remove(c) PROVE RoleInv'
    BY <1>9 DEF Remove, RemoveNext
  <1>10. ASSUME NEW c \in Consumers, ConsumerWake(c) PROVE RoleInv'
    BY <1>10 DEF ConsumerWake, WakeProducer
  <1>11. ASSUME NEW t \in Workers, SpuriousWake(t) PROVE RoleInv'
    BY <1>11 DEF SpuriousWake
  <1>12. CASE RequestStop
    BY <1>12 DEF RequestStop
  <1>13. CASE WakeAllNotFull
    BY <1>13 DEF WakeAllNotFull
  <1>14. CASE WakeAllNotEmpty
    BY <1>14 DEF WakeAllNotEmpty
  <1>15. CASE JoinAll
    BY <1>15 DEF JoinAll
  <1>16. CASE Terminated \/ UNCHANGED vars
    BY <1>16 DEF Terminated, vars
  <1> QED
    BY <1>1, <1>2, <1>3, <1>4, <1>5, <1>6, <1>7, <1>8,
       <1>9, <1>10, <1>11, <1>12, <1>13, <1>14, <1>15, <1>16
       DEF Next, ProducerThreadProc, ConsumerThreadProc, MainThread

(* Threads end only after the stop, consumers only on an empty queue.       *)
LEMMA StepStop == IInv /\ TypeOK' /\ [Next]_vars => StopInv'
  <1> SUFFICES ASSUME IInv, TypeOK', [Next]_vars PROVE StopInv'
    OBVIOUS
  <1> USE ThreadsAssumption DEF IInv, TypeOK, Workers, Goto, queueVars, cvVars, LeaveCriticalSection, LockInv, RoleInv, StopInv
  <1>1. ASSUME NEW p \in Producers, ProduceItem(p) PROVE StopInv'
    BY <1>1 DEF ProduceItem
  <1>2. ASSUME NEW t \in Workers, EnterCriticalSection(t) PROVE StopInv'
    BY <1>2 DEF EnterCriticalSection
  <1>3. ASSUME NEW p \in Producers, SleepOnNotFull(p) PROVE StopInv'
    BY <1>3 DEF SleepOnNotFull
  <1>4. ASSUME NEW p \in Producers, ProducerExit(p) PROVE StopInv'
    BY <1>4 DEF ProducerExit
  <1>5. ASSUME NEW p \in Producers, Insert(p) PROVE StopInv'
    BY <1>5 DEF Insert, InsertAt
  <1>6. ASSUME NEW p \in Producers, ProducerWake(p) PROVE StopInv'
    BY <1>6 DEF ProducerWake, WakeConsumer
  <1>7. ASSUME NEW c \in Consumers, SleepOnNotEmpty(c) PROVE StopInv'
    BY <1>7 DEF SleepOnNotEmpty
  <1>8. ASSUME NEW c \in Consumers, ConsumerExit(c) PROVE StopInv'
    BY <1>8 DEF ConsumerExit
  <1>9. ASSUME NEW c \in Consumers, Remove(c) PROVE StopInv'
    BY <1>9 DEF Remove, RemoveNext
  <1>10. ASSUME NEW c \in Consumers, ConsumerWake(c) PROVE StopInv'
    BY <1>10 DEF ConsumerWake, WakeProducer
  <1>11. ASSUME NEW t \in Workers, SpuriousWake(t) PROVE StopInv'
    BY <1>11 DEF SpuriousWake
  <1>12. CASE RequestStop
    BY <1>12 DEF RequestStop
  <1>13. CASE WakeAllNotFull
    BY <1>13 DEF WakeAllNotFull
  <1>14. CASE WakeAllNotEmpty
    BY <1>14 DEF WakeAllNotEmpty
  <1>15. CASE JoinAll
    BY <1>15 DEF JoinAll
  <1>16. CASE Terminated \/ UNCHANGED vars
    BY <1>16 DEF Terminated, vars
  <1> QED
    BY <1>1, <1>2, <1>3, <1>4, <1>5, <1>6, <1>7, <1>8,
       <1>9, <1>10, <1>11, <1>12, <1>13, <1>14, <1>15, <1>16
       DEF Next, ProducerThreadProc, ConsumerThreadProc, MainThread

(* Nobody falls asleep once the stop flag is set.                           *)
LEMMA StepSleep == IInv /\ TypeOK' /\ [Next]_vars => NobodySleepsThroughStop'
  <1> SUFFICES ASSUME IInv, TypeOK', [Next]_vars PROVE NobodySleepsThroughStop'
    OBVIOUS
  <1> USE ThreadsAssumption DEF IInv, TypeOK, Workers, Goto, queueVars, cvVars, LeaveCriticalSection, LockInv, RoleInv, StopInv, NobodySleepsThroughStop
  <1>1. ASSUME NEW p \in Producers, ProduceItem(p) PROVE NobodySleepsThroughStop'
    BY <1>1 DEF ProduceItem
  <1>2. ASSUME NEW t \in Workers, EnterCriticalSection(t) PROVE NobodySleepsThroughStop'
    BY <1>2 DEF EnterCriticalSection
  <1>3. ASSUME NEW p \in Producers, SleepOnNotFull(p) PROVE NobodySleepsThroughStop'
    BY <1>3 DEF SleepOnNotFull
  <1>4. ASSUME NEW p \in Producers, ProducerExit(p) PROVE NobodySleepsThroughStop'
    BY <1>4 DEF ProducerExit
  <1>5. ASSUME NEW p \in Producers, Insert(p) PROVE NobodySleepsThroughStop'
    BY <1>5 DEF Insert, InsertAt
  <1>6. ASSUME NEW p \in Producers, ProducerWake(p) PROVE NobodySleepsThroughStop'
    BY <1>6 DEF ProducerWake, WakeConsumer
  <1>7. ASSUME NEW c \in Consumers, SleepOnNotEmpty(c) PROVE NobodySleepsThroughStop'
    BY <1>7 DEF SleepOnNotEmpty
  <1>8. ASSUME NEW c \in Consumers, ConsumerExit(c) PROVE NobodySleepsThroughStop'
    BY <1>8 DEF ConsumerExit
  <1>9. ASSUME NEW c \in Consumers, Remove(c) PROVE NobodySleepsThroughStop'
    BY <1>9 DEF Remove, RemoveNext
  <1>10. ASSUME NEW c \in Consumers, ConsumerWake(c) PROVE NobodySleepsThroughStop'
    BY <1>10 DEF ConsumerWake, WakeProducer
  <1>11. ASSUME NEW t \in Workers, SpuriousWake(t) PROVE NobodySleepsThroughStop'
    BY <1>11 DEF SpuriousWake
  <1>12. CASE RequestStop
    BY <1>12 DEF RequestStop
  <1>13. CASE WakeAllNotFull
    BY <1>13 DEF WakeAllNotFull
  <1>14. CASE WakeAllNotEmpty
    BY <1>14 DEF WakeAllNotEmpty
  <1>15. CASE JoinAll
    BY <1>15 DEF JoinAll
  <1>16. CASE Terminated \/ UNCHANGED vars
    BY <1>16 DEF Terminated, vars
  <1> QED
    BY <1>1, <1>2, <1>3, <1>4, <1>5, <1>6, <1>7, <1>8,
       <1>9, <1>10, <1>11, <1>12, <1>13, <1>14, <1>15, <1>16
       DEF Next, ProducerThreadProc, ConsumerThreadProc, MainThread

(* A thread that leaves the critical section with work to do signals it.    *)
LEMMA StepWake == IInv /\ TypeOK' /\ [Next]_vars => NoLostWakeup'
  <1> SUFFICES ASSUME IInv, TypeOK', [Next]_vars PROVE NoLostWakeup'
    OBVIOUS
  <1> USE ThreadsAssumption DEF IInv, TypeOK, Workers, Goto, queueVars, cvVars, LeaveCriticalSection, LockInv, RoleInv, StopInv, NoLostWakeup
  <1>1. ASSUME NEW p \in Producers, ProduceItem(p) PROVE NoLostWakeup'
    BY <1>1 DEF ProduceItem
  <1>2. ASSUME NEW t \in Workers, EnterCriticalSection(t) PROVE NoLostWakeup'
    BY <1>2 DEF EnterCriticalSection
  <1>3. ASSUME NEW p \in Producers, SleepOnNotFull(p) PROVE NoLostWakeup'
    BY <1>3 DEF SleepOnNotFull
  <1>4. ASSUME NEW p \in Producers, ProducerExit(p) PROVE NoLostWakeup'
    BY <1>4 DEF ProducerExit, NobodySleepsThroughStop
  <1>5. ASSUME NEW p \in Producers, Insert(p) PROVE NoLostWakeup'
    BY <1>5 DEF Insert, InsertAt
  <1>6. ASSUME NEW p \in Producers, ProducerWake(p) PROVE NoLostWakeup'
    BY <1>6 DEF ProducerWake, WakeConsumer
  <1>7. ASSUME NEW c \in Consumers, SleepOnNotEmpty(c) PROVE NoLostWakeup'
    BY <1>7 DEF SleepOnNotEmpty
  <1>8. ASSUME NEW c \in Consumers, ConsumerExit(c) PROVE NoLostWakeup'
    BY <1>8 DEF ConsumerExit
  <1>9. ASSUME NEW c \in Consumers, Remove(c) PROVE NoLostWakeup'
    BY <1>9 DEF Remove, RemoveNext
  <1>10. ASSUME NEW c \in Consumers, ConsumerWake(c) PROVE NoLostWakeup'
    BY <1>10 DEF ConsumerWake, WakeProducer
  <1>11. ASSUME NEW t \in Workers, SpuriousWake(t) PROVE NoLostWakeup'
    BY <1>11 DEF SpuriousWake
  <1>12. CASE RequestStop
    BY <1>12 DEF RequestStop
  <1>13. CASE WakeAllNotFull
    BY <1>13 DEF WakeAllNotFull
  <1>14. CASE WakeAllNotEmpty
    BY <1>14 DEF WakeAllNotEmpty
  <1>15. CASE JoinAll
    BY <1>15 DEF JoinAll
  <1>16. CASE Terminated \/ UNCHANGED vars
    BY <1>16 DEF Terminated, vars
  <1> QED
    BY <1>1, <1>2, <1>3, <1>4, <1>5, <1>6, <1>7, <1>8,
       <1>9, <1>10, <1>11, <1>12, <1>13, <1>14, <1>15, <1>16
       DEF Next, ProducerThreadProc, ConsumerThreadProc, MainThread

(* Both counters move with the queue.                                       *)
LEMMA StepCount == IInv /\ TypeOK' /\ [Next]_vars => CountInv'
  <1> SUFFICES ASSUME IInv, TypeOK', [Next]_vars PROVE CountInv'
    OBVIOUS
  <1> USE ThreadsAssumption DEF IInv, TypeOK, Workers, Goto, queueVars, cvVars, LeaveCriticalSection, CountInv
  <1>1. ASSUME NEW p \in Producers, ProduceItem(p) PROVE CountInv'
    BY <1>1 DEF ProduceItem
  <1>2. ASSUME NEW t \in Workers, EnterCriticalSection(t) PROVE CountInv'
    BY <1>2 DEF EnterCriticalSection
  <1>3. ASSUME NEW p \in Producers, SleepOnNotFull(p) PROVE CountInv'
    BY <1>3 DEF SleepOnNotFull
  <1>4. ASSUME NEW p \in Producers, ProducerExit(p) PROVE CountInv'
    BY <1>4 DEF ProducerExit
  <1>5. ASSUME NEW p \in Producers, Insert(p) PROVE CountInv'
    <2>1. TotalItemsProduced' = TotalItemsProduced + 1 \/ TotalItemsProduced' = TotalItemsProduced + 1 - Wrap
      BY <1>5, CounterStep DEF Insert, InsertAt
    <2> QED BY <1>5, <2>1, WrapAssumption, BufferSizeAssumption DEF Insert, InsertAt, Counter
  <1>6. ASSUME NEW p \in Producers, ProducerWake(p) PROVE CountInv'
    BY <1>6 DEF ProducerWake, WakeConsumer
  <1>7. ASSUME NEW c \in Consumers, SleepOnNotEmpty(c) PROVE CountInv'
    BY <1>7 DEF SleepOnNotEmpty
  <1>8. ASSUME NEW c \in Consumers, ConsumerExit(c) PROVE CountInv'
    BY <1>8 DEF ConsumerExit
  <1>9. ASSUME NEW c \in Consumers, Remove(c) PROVE CountInv'
    <2>1. TotalItemsConsumed' = TotalItemsConsumed + 1 \/ TotalItemsConsumed' = TotalItemsConsumed + 1 - Wrap
      BY <1>9, CounterStep DEF Remove, RemoveNext
    <2> QED BY <1>9, <2>1, WrapAssumption, BufferSizeAssumption DEF Remove, RemoveNext, Counter
  <1>10. ASSUME NEW c \in Consumers, ConsumerWake(c) PROVE CountInv'
    BY <1>10 DEF ConsumerWake, WakeProducer
  <1>11. ASSUME NEW t \in Workers, SpuriousWake(t) PROVE CountInv'
    BY <1>11 DEF SpuriousWake
  <1>12. CASE RequestStop
    BY <1>12 DEF RequestStop
  <1>13. CASE WakeAllNotFull
    BY <1>13 DEF WakeAllNotFull
  <1>14. CASE WakeAllNotEmpty
    BY <1>14 DEF WakeAllNotEmpty
  <1>15. CASE JoinAll
    BY <1>15 DEF JoinAll
  <1>16. CASE Terminated \/ UNCHANGED vars
    BY <1>16 DEF Terminated, vars
  <1> QED
    BY <1>1, <1>2, <1>3, <1>4, <1>5, <1>6, <1>7, <1>8,
       <1>9, <1>10, <1>11, <1>12, <1>13, <1>14, <1>15, <1>16
       DEF Next, ProducerThreadProc, ConsumerThreadProc, MainThread

-----------------------------------------------------------------------------
(* The inductive invariant holds in every reachable state.                  *)
LEMMA Invariance == Spec => []IInv
  <1>1. Init => IInv
    BY InitIInv
  <1>2. IInv /\ [Next]_vars => IInv'
    BY StepType, StepLock, StepRole, StepStop, StepSleep, StepWake, StepCount DEF IInv
  <1> QED BY <1>1, <1>2, PTL DEF Spec

(* The ring indices, the queue size and the counters keep their C types,    *)
(* whatever the number of threads, the buffer size and the counter width.   *)
THEOREM TypeCorrect == Spec => []TypeOK
  <1>1. IInv => TypeOK
    BY DEF IInv
  <1> QED BY <1>1, Invariance, PTL

(* The totals differ by what is queued, across any number of wrap-arounds.  *)
THEOREM AccountingCorrect == Spec => []Accounting
  <1>1. IInv => Accounting
    <2> SUFFICES ASSUME IInv PROVE Accounting
      OBVIOUS
    <2> USE DEF IInv, TypeOK, CountInv, Counter
    <2>1. Wrap \in Nat \ {0} /\ QueueSize \in Nat /\ QueueSize < Wrap
      BY WrapAssumption, BufferSizeAssumption
    <2>2. QueueSize % Wrap = QueueSize
      BY <2>1, ModLow
    <2>3. CASE TotalItemsProduced = TotalItemsConsumed + QueueSize
      <3>1. TotalItemsProduced - TotalItemsConsumed = QueueSize
        BY <2>1, <2>3
      <3> QED BY <3>1 DEF Accounting
    <2>4. CASE TotalItemsProduced = TotalItemsConsumed + QueueSize - Wrap
      <3> DEFINE d == TotalItemsProduced - TotalItemsConsumed
      <3>1. d \in Int /\ -Wrap <= d /\ d < 0 /\ d + Wrap = QueueSize
        BY <2>1, <2>4
      <3> HIDE DEF d
      <3>2. d % Wrap = d + Wrap
        BY <3>1, <2>1, ModNeg
      <3>3. d % Wrap = QueueSize % Wrap
        BY <3>1, <3>2, <2>2
      <3> QED BY <3>3 DEF Accounting, d
    <2> QED BY <2>3, <2>4
  <1> QED BY <1>1, Invariance, PTL

(* No signal is lost between LeaveCriticalSection and                       *)
(* WakeConditionVariable.                                                   *)
THEOREM WakeupsCorrect == Spec => []NoLostWakeup
  <1>1. IInv => NoLostWakeup
    BY DEF IInv
  <1> QED BY <1>1, Invariance, PTL

(* The two WakeAll calls of main leave no thread asleep.                    *)
THEOREM StopWakesEverybody == Spec => []NobodySleepsThroughStop
  <1>1. IInv => NobodySleepsThroughStop
    BY DEF IInv
  <1> QED BY <1>1, Invariance, PTL

(* When main prints the totals the buffer is empty and they are equal.      *)
THEOREM ExitDrained == Spec => []DrainedAtExit
  <1>1. IInv => DrainedAtExit
    <2> SUFFICES ASSUME IInv, pc[Main] = "done"
                 PROVE  QueueSize = 0 /\ TotalItemsProduced = TotalItemsConsumed
      BY DEF DrainedAtExit
    <2>1. PICK c \in Consumers : TRUE
      BY ThreadsAssumption
    <2>2. QueueSize = 0
      BY <2>1 DEF IInv, StopInv, Workers
    <2>3. TotalItemsProduced = TotalItemsConsumed
      BY <2>2, WrapAssumption DEF IInv, CountInv, TypeOK, Counter
    <2> QED BY <2>2, <2>3
  <1> QED BY <1>1, Invariance, PTL

-----------------------------------------------------------------------------
(* The i-th slot of the ring, counted from the oldest item.                 *)
SlotOf(i) ==
    IF QueueStartOffset + (i - 1) < BUFFER_SIZE
    THEN QueueStartOffset + (i - 1)
    ELSE QueueStartOffset + (i - 1) - BUFFER_SIZE

ContentsShape ==
    /\ Contents \in Seq(Counter)
    /\ Len(Contents) = QueueSize
    /\ \A i \in 1 .. QueueSize : Contents[i] = Buffer[SlotOf(i)]

(* The ring read as a queue is a sequence of QueueSize items.               *)
LEMMA ContentsIsSeq == TypeOK => ContentsShape
  <1> SUFFICES ASSUME TypeOK PROVE ContentsShape
    OBVIOUS
  <1>1. ASSUME NEW i \in 1 .. QueueSize
        PROVE  /\ (QueueStartOffset + i - 1) % BUFFER_SIZE = SlotOf(i)
               /\ SlotOf(i) \in Slots
    <2>1. i - 1 \in 0 .. BUFFER_SIZE /\ QueueStartOffset \in Slots
      BY BufferSizeAssumption DEF TypeOK
    <2>2. QueueStartOffset + i - 1 = QueueStartOffset + (i - 1)
      BY <2>1 DEF Slots
    <2>3. (QueueStartOffset + (i - 1)) % BUFFER_SIZE = SlotOf(i)
      BY <2>1, InsertSlot DEF SlotOf
    <2> QED BY <2>1, <2>2, <2>3, BufferSizeAssumption DEF Slots, SlotOf
  <1>2. \A i \in 1 .. QueueSize : Buffer[(QueueStartOffset + i - 1) % BUFFER_SIZE] \in Counter
    BY <1>1 DEF TypeOK
  <1>3. Contents \in [1 .. QueueSize -> Counter]
    BY <1>2 DEF Contents
  <1>4. QueueSize \in Nat
    BY DEF TypeOK
  <1>5. Contents \in Seq(Counter) /\ Len(Contents) = QueueSize
    BY <1>3, <1>4
  <1> QED BY <1>1, <1>5 DEF Contents, ContentsShape

LEMMA ContentsIsSeqNext == TypeOK' => ContentsShape'
  BY ContentsIsSeq, PTL

(* An insertion appends the producer's item to the queue.                   *)
LEMMA InsertAppends ==
    ASSUME IInv, TypeOK', NEW p \in Producers, Insert(p)
    PROVE  Contents' = Append(Contents, Item[p])
  <1> USE DEF Insert, InsertAt
  <1>1. ContentsShape
    BY ContentsIsSeq DEF IInv
  <1>2. ContentsShape'
    BY ContentsIsSeqNext
  <1>3. QueueSize < BUFFER_SIZE /\ QueueSize \in Nat /\ QueueStartOffset \in 0 .. BUFFER_SIZE - 1
    BY BufferSizeAssumption DEF IInv, TypeOK, Slots
  <1>4. (QueueStartOffset + QueueSize) % BUFFER_SIZE = SlotOf(QueueSize + 1)
    <2>1. (QueueSize + 1) - 1 = QueueSize
      BY <1>3
    <2> QED BY <2>1, InsertSlot DEF IInv, TypeOK, SlotOf
  <1>5. ASSUME NEW i \in 1 .. QueueSize + 1
        PROVE  /\ SlotOf(i)' = SlotOf(i) /\ SlotOf(i) \in Slots
               /\ i # QueueSize + 1 => SlotOf(i) # SlotOf(QueueSize + 1)
    BY <1>3, BufferSizeAssumption DEF SlotOf, Slots
  <1>6. ASSUME NEW i \in 1 .. QueueSize PROVE Contents'[i] = Contents[i]
    <2>1. Contents'[i] = Buffer'[SlotOf(i)]
      BY <1>2, <1>3, <1>5 DEF ContentsShape
    <2>2. Buffer'[SlotOf(i)] = Buffer[SlotOf(i)]
      BY <1>3, <1>4, <1>5 DEF IInv, TypeOK
    <2> QED BY <1>1, <2>1, <2>2 DEF ContentsShape
  <1>7. Contents'[QueueSize + 1] = Item[p]
    BY <1>2, <1>3, <1>4, <1>5 DEF IInv, TypeOK, ContentsShape
  <1> QED BY <1>1, <1>2, <1>3, <1>6, <1>7 DEF ContentsShape

(* A removal takes the head of the queue.                                   *)
LEMMA RemoveTakesHead ==
    ASSUME IInv, TypeOK', NEW c \in Consumers, Remove(c)
    PROVE  Contents # <<>> /\ Contents' = Tail(Contents) /\ Buffer[QueueStartOffset] = Head(Contents)
  <1> USE DEF Remove, RemoveNext
  <1>1. ContentsShape
    BY ContentsIsSeq DEF IInv
  <1>2. ContentsShape'
    BY ContentsIsSeqNext
  <1>3. QueueSize \in 1 .. BUFFER_SIZE /\ QueueStartOffset \in 0 .. BUFFER_SIZE - 1
    BY BufferSizeAssumption DEF IInv, TypeOK, Slots
  <1>4. ASSUME NEW i \in 1 .. QueueSize - 1 PROVE SlotOf(i)' = SlotOf(i + 1)
    BY <1>3, BufferSizeAssumption DEF SlotOf
  <1>5. ASSUME NEW i \in 1 .. QueueSize - 1 PROVE Contents'[i] = Contents[i + 1]
    <2>1. i \in 1 .. QueueSize' /\ i + 1 \in 1 .. QueueSize
      BY <1>3
    <2>2. Contents'[i] = Buffer'[SlotOf(i)']
      BY <1>2, <2>1 DEF ContentsShape
    <2> QED BY <1>1, <1>4, <2>1, <2>2 DEF ContentsShape
  <1>6. Contents # <<>> /\ Contents[1] = Buffer[QueueStartOffset]
    BY <1>1, <1>3, BufferSizeAssumption DEF ContentsShape, SlotOf
  <1> QED BY <1>1, <1>2, <1>3, <1>5, <1>6 DEF ContentsShape


(* Every step of the program is a step of the queue or leaves it alone.     *)
LEMMA FifoStep == IInv /\ TypeOK' /\ [Next]_vars => [Fifo!FifoNext]_(Fifo!fifoVars)
  <1> SUFFICES ASSUME IInv, TypeOK', [Next]_vars
               PROVE  [Fifo!FifoNext]_(Fifo!fifoVars)
    OBVIOUS
  <1> USE ThreadsAssumption
  <1>1. ASSUME NEW p \in Producers, Insert(p) PROVE Fifo!FifoNext
    <2>1. Item[p] \in Counter
      BY DEF IInv, TypeOK, Workers
    <2>2. Len(Contents) < BUFFER_SIZE
      BY <1>1, ContentsIsSeq, BufferSizeAssumption DEF IInv, TypeOK, ContentsShape, Insert, InsertAt
    <2>3. Contents' = Append(Contents, Item[p])
      BY <1>1, InsertAppends
    <2>4. Fifo!Put(Item[p])
      BY <1>1, <2>2, <2>3 DEF Fifo!Put, Insert, InsertAt
    <2> QED BY <2>1, <2>4 DEF Fifo!FifoNext
  <1>2. ASSUME NEW c \in Consumers, Remove(c) PROVE Fifo!FifoNext
    <2>1. Contents # <<>> /\ Contents' = Tail(Contents) /\ Buffer[QueueStartOffset] = Head(Contents)
      BY <1>2, RemoveTakesHead
    <2>2. [d \in Consumers |-> Item[d]]' = [[d \in Consumers |-> Item[d]] EXCEPT ![c] = Head(Contents)]
      BY <1>2, <2>1 DEF Remove, RemoveNext, IInv, TypeOK, Workers
    <2>3. Fifo!Get(c)
      BY <1>2, <2>1, <2>2 DEF Fifo!Get, Remove, RemoveNext
    <2> QED BY <2>3 DEF Fifo!FifoNext
  <1>3. CASE RequestStop
    <2>1. Fifo!Close
      BY <1>3 DEF Fifo!Close, RequestStop, queueVars, Contents
    <2> QED BY <2>1 DEF Fifo!FifoNext
  <1>4. ASSUME NEW p \in Producers, ProduceItem(p) PROVE UNCHANGED Fifo!fifoVars
    BY <1>4 DEF ProduceItem, queueVars, Contents, Fifo!fifoVars, IInv, TypeOK, Workers
  <1>5. ASSUME UNCHANGED <<queueVars, StopRequested, Item>> PROVE UNCHANGED Fifo!fifoVars
    BY <1>5 DEF queueVars, Contents, Fifo!fifoVars
  <1>6. ASSUME NEW t \in Workers,
               \/ EnterCriticalSection(t) \/ SleepOnNotFull(t) \/ ProducerExit(t) \/ ProducerWake(t)
               \/ SleepOnNotEmpty(t) \/ ConsumerExit(t) \/ ConsumerWake(t) \/ SpuriousWake(t)
        PROVE  UNCHANGED <<queueVars, StopRequested, Item>>
    BY <1>6 DEF EnterCriticalSection, SleepOnNotFull, ProducerExit, ProducerWake, SleepOnNotEmpty,
                ConsumerExit, ConsumerWake, SpuriousWake
  <1>7. CASE WakeAllNotFull \/ WakeAllNotEmpty \/ JoinAll \/ Terminated \/ UNCHANGED vars
    BY <1>5, <1>7 DEF WakeAllNotFull, WakeAllNotEmpty, JoinAll, Terminated, vars
  <1> QED
    BY <1>1, <1>2, <1>3, <1>4, <1>5, <1>6, <1>7
       DEF Next, ProducerThreadProc, ConsumerThreadProc, MainThread, Workers

(* The program implements the bounded FIFO queue, for every number of       *)
(* producers and consumers and every buffer size.                           *)
THEOREM Refinement == Spec => ImplementsFifo
  <1>1. Init => Fifo!FifoInit
    <2> SUFFICES ASSUME Init PROVE Fifo!FifoInit
      OBVIOUS
    <2>1. Contents = <<>>
      BY DEF Init, Contents
    <2>2. [c \in Consumers |-> Item[c]] \in [Consumers -> Counter]
      BY InitIInv DEF IInv, TypeOK, Workers
    <2> QED BY <2>1, <2>2 DEF Fifo!FifoInit, Init
  <1>2. IInv /\ IInv' /\ [Next]_vars => [Fifo!FifoNext]_(Fifo!fifoVars)
    BY FifoStep DEF IInv
  <1> QED BY <1>1, <1>2, Invariance, PTL DEF Spec, ImplementsFifo, Fifo!FifoSpec

=============================================================================
