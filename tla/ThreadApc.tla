------------------------------ MODULE ThreadApc -----------------------------
(***************************************************************************)
(* src/src/WaitableTimers/main.cpp, namespaces TimerHelpers and ThreadApc: *)
(* Run schedules a function on a worker thread at every tick of a periodic *)
(* timer, by an asynchronous procedure call (APC), and then asks the       *)
(* worker to exit.  The worker waits alertably for its exit event, which   *)
(* resets itself, and runs what was scheduled while it waits.  The         *)
(* function is heap-allocated by Run and deleted by the worker that ran    *)
(* it.  Every call that may throw may throw here, and the stack unwinds.   *)
(***************************************************************************)
EXTENDS Integers, Sequences, SequencesExt

CONSTANT Ticks  \* how many functions Run schedules; three in the code

(* What the constants are.                                                  *)
TicksAssumption == Ticks \in Nat

Job == 1 .. Ticks

VARIABLES
    main,       \* where Run is
    thrown,     \* an exception is unwinding, or has unwound, Run
    built,      \* the WorkerThread object: its members and the timer that exist
    tick,       \* the timer is signalled
    scheduled,  \* the functions passed to Schedule, in order
    apcs,       \* the worker's APC queue
    heap,       \* the functions allocated and not deleted
    m_exit,     \* the event is signalled
    worker,     \* where the worker is; "none" before Start
    ran,        \* history: the functions run, in order
    overtaken   \* history: the worker left with functions still queued

vars == <<main, thrown, built, tick, scheduled, apcs, heap, m_exit, worker, ran, overtaken>>

Init ==
    /\ main = "createTimer" /\ thrown = FALSE
    /\ built = {} /\ tick = FALSE
    /\ scheduled = <<>> /\ apcs = <<>> /\ heap = {}
    /\ m_exit = FALSE /\ worker = "none"
    /\ ran = <<>> /\ overtaken = FALSE

-----------------------------------------------------------------------------
(* Run, up to the loop: CreateTimer, the worker's event, Start, SetTimer.   *)

Setup == [createTimer |-> [makes |-> "timer",   next |-> "construct"],
          construct   |-> [makes |-> "m_exit",  next |-> "start"],
          start       |-> [makes |-> "m_thread", next |-> "setTimer"],
          setTimer    |-> [makes |-> "period",  next |-> "wait"]]

(* Each of them makes something or throws.                                  *)
SetUp ==
    /\ main \in DOMAIN Setup
    /\ \/ /\ built' = built \cup {Setup[main].makes}
          /\ main' = Setup[main].next
          /\ worker' = IF main = "start" THEN "wait" ELSE worker
          /\ UNCHANGED thrown
       \/ /\ IF "m_exit" \in built THEN main' = "destroy" /\ UNCHANGED built
                                   ELSE main' = "returned" /\ built' = {}
          /\ thrown' = TRUE
          /\ UNCHANGED worker
    /\ UNCHANGED <<tick, scheduled, apcs, heap, m_exit, ran, overtaken>>

(* The timer ticks once a period; ticks that nobody waits for merge.        *)
TimerTicks ==
    /\ "period" \in built /\ ~tick
    /\ main # "returned"
    /\ tick' = TRUE
    /\ UNCHANGED <<main, thrown, built, scheduled, apcs, heap, m_exit, worker, ran, overtaken>>

(* QueueUserAPC on a thread that has ended fails, and Schedule does not look. *)
Schedule(j) ==
    /\ scheduled' = Append(scheduled, j)
    /\ heap' = heap \cup {j}
    /\ apcs' = IF worker = "ended" THEN apcs ELSE Append(apcs, j)

(* The loop: a tick schedules the next function; a wait that fails throws.  *)
WaitTimer ==
    /\ main = "wait"
    /\ \/ /\ tick /\ Len(scheduled) < Ticks
          /\ tick' = FALSE
          /\ Schedule(Len(scheduled) + 1)
          /\ UNCHANGED <<main, thrown>>
       \/ /\ Len(scheduled) < Ticks
          /\ main' = "destroy" /\ thrown' = TRUE
          /\ UNCHANGED <<tick, scheduled, heap, apcs>>
       \/ /\ Len(scheduled) = Ticks
          /\ main' = "signal"
          /\ UNCHANGED <<thrown, tick, scheduled, heap, apcs>>
    /\ UNCHANGED <<built, m_exit, worker, ran, overtaken>>

(* Seeded fault: the worker is not asked to exit. *)
SignalToExit_Never ==
    /\ main \in {"signal", "destroy"}
    /\ main' = IF main = "signal" THEN "join" ELSE "joinAgain"
    /\ UNCHANGED <<thrown, built, tick, scheduled, apcs, heap, m_exit, worker, ran, overtaken>>

(* SignalToExit, and the same call in the destructor.                       *)
SignalToExit ==
    /\ main \in {"signal", "destroy"}
    /\ m_exit' = TRUE
    /\ main' = IF main = "signal" THEN "join" ELSE "joinAgain"
    /\ UNCHANGED <<thrown, built, tick, scheduled, apcs, heap, worker, ran, overtaken>>

(* Seeded fault: the destructor does not wait for the thread. *)
Join_NoWait ==
    /\ main \in {"join", "joinAgain"}
    /\ main' = IF main = "join" THEN "destroy" ELSE "closeExit"
    /\ UNCHANGED <<thrown, built, tick, scheduled, apcs, heap, m_exit, worker, ran, overtaken>>

(* Join: at once without a thread, otherwise when the thread has ended.     *)
Join ==
    /\ main \in {"join", "joinAgain"}
    /\ worker \in {"none", "ended"}
    /\ main' = IF main = "join" THEN "destroy" ELSE "closeExit"
    /\ UNCHANGED <<thrown, built, tick, scheduled, apcs, heap, m_exit, worker, ran, overtaken>>

(* The members, in the reverse order of their declaration, then the timer.  *)
DestroyMembers ==
    \/ /\ main = "closeExit"
       /\ built' = built \ {"m_exit"}
       /\ main' = "joinMember"
       /\ UNCHANGED <<thrown, tick, scheduled, apcs, heap, m_exit, worker, ran, overtaken>>
    \/ /\ main = "joinMember"
       /\ worker \in {"none", "ended"}
       /\ built' = {}
       /\ main' = "returned"
       /\ UNCHANGED <<thrown, tick, scheduled, apcs, heap, m_exit, worker, ran, overtaken>>

Run == SetUp \/ WaitTimer \/ SignalToExit \/ Join \/ DestroyMembers

-----------------------------------------------------------------------------
(* WorkerThread::Run.                                                       *)

(* The alertable wait returns after all that is queued has run; each        *)
(* function is deleted after its call.                                      *)
RunApcs ==
    /\ worker = "wait" /\ apcs # <<>>
    /\ ran' = ran \o apcs
    /\ heap' = heap \ ToSet(apcs)
    /\ apcs' = <<>>
    /\ UNCHANGED <<main, thrown, built, tick, scheduled, m_exit, worker, overtaken>>

(* The wait ends with the exit event, which it resets, or fails: the worker *)
(* leaves.  The event wins over functions queued at the same time, or not.  *)
WorkerLeaves ==
    /\ worker = "wait"
    /\ \/ m_exit /\ m_exit' = FALSE
       \/ UNCHANGED m_exit
    /\ worker' = "ended"
    /\ overtaken' = (apcs # <<>> \/ ~m_exit)
    /\ UNCHANGED <<main, thrown, built, tick, scheduled, apcs, heap, ran>>

Worker == RunApcs \/ WorkerLeaves

Next == Run \/ TimerTicks \/ Worker

Spec == Init /\ [][Next]_vars

(* Both threads run and the timer keeps ticking; that the worker's wait     *)
(* fails, or is ended by the event, is fair only once the event is set.     *)
FairSpec ==
    /\ Spec
    /\ WF_vars(Run) /\ WF_vars(TimerTicks)
    /\ WF_vars(RunApcs)
    /\ WF_vars(m_exit /\ WorkerLeaves)

-----------------------------------------------------------------------------
(* Types.                                                                   *)
TypeOK ==
    /\ main \in DOMAIN Setup \cup {"wait", "signal", "join", "destroy", "joinAgain",
                                   "closeExit", "joinMember", "returned"}
    /\ built \subseteq {"timer", "m_exit", "m_thread", "period"}
    /\ worker \in {"none", "wait", "ended"}
    /\ thrown \in BOOLEAN /\ tick \in BOOLEAN /\ m_exit \in BOOLEAN /\ overtaken \in BOOLEAN
    /\ scheduled \in Seq(Job) /\ ran \in Seq(Job)
    /\ heap \subseteq Job /\ ToSet(apcs) \subseteq heap

(* On every path out of Run, an exception's too, the worker has ended       *)
(* before the event it waits for is closed.                                 *)
ExitOutlivesWorker == worker = "wait" => "m_exit" \in built

(* Functions run in the order they were scheduled, none twice, and none is  *)
(* skipped: the ones not run are the last ones.                             *)
RunInOrder == IsPrefix(ran, scheduled)

(* A function is deleted exactly when it has run; the only ones never       *)
(* deleted are those the worker left behind.                                *)
DeletedWhenRun ==
    /\ heap = ToSet(scheduled) \ ToSet(ran)
    /\ main = "returned" /\ heap # {} => overtaken

(* Run returns, whatever throws: the worker is always asked to exit before  *)
(* it is joined, and the event it resets by exiting is not needed again.    *)
RunReturns == <>(main = "returned")
=============================================================================
