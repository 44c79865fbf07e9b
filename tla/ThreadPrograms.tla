---------------------------- MODULE ThreadPrograms ---------------------------
(***************************************************************************)
(* Programs of the repository whose threads talk through what Windows      *)
(* offers inside one process: message queues and windows                   *)
(* (ThreadMessageQueue), asynchronous procedure calls (ThreadApc), a       *)
(* completion port that resumes coroutines (CoroutineLoop), waits on an    *)
(* address (AddressWait), a window that a detached thread works on         *)
(* (ProgressWindow) and the control dispatcher of a service                *)
(* (Win32Service).  They share nothing: a behaviour is one of the program  *)
(* named by `program', and the others are not started.                     *)
(***************************************************************************)
EXTENDS Integers

CONSTANTS
    Ticks,        \* ThreadApc: functions scheduled
    Message,      \* CoroutineLoop: what the client sends
    Visitors,     \* CoroutineLoop: other programs that connect
    MaxControls   \* Win32Service: bound on the controls the SCM sends

VARIABLES
    program,
    qMain, qThrown, cur, timedOut, thread, queue, hasQueue, ready, quitFlag, handled, derived,
    main, thrown, built, tick, scheduled, apcs, heap, m_exit, worker, ran, overtaken,
    lMain, g_stop, at, op, listening, link, wire, sending, shut, reset, echo,
    svcMain, handler, report, gSvcStatus, dwCheckPoint, ghSvcStopEvent, token,
    sent, accepts, controls, dispatcher, stopHeard, overlap,
    waiter, setter, g_targetValue, capturedValue,
    joiner, window, Canceled, Closed, UserClose, StatusMax, barMax, task, posted, result,
    clicked, confirmed, dangling

Queue   == INSTANCE ThreadMessageQueue WITH main <- qMain, thrown <- qThrown
Apc     == INSTANCE ThreadApc
Loop    == INSTANCE CoroutineLoop WITH main <- lMain
Service == INSTANCE Win32Service
Address == INSTANCE AddressWait
Progress == INSTANCE ProgressWindow

ASSUME ConstantsAssumption ==
    Apc!TicksAssumption /\ Loop!LoopAssumption /\ Service!ControlsAssumption

queueVars   == <<qMain, qThrown, cur, timedOut, thread, queue, hasQueue, ready, quitFlag,
                 handled, derived>>
apcVars     == <<main, thrown, built, tick, scheduled, apcs, heap, m_exit, worker, ran,
                 overtaken>>
loopVars    == <<lMain, g_stop, at, op, listening, link, wire, sending, shut, reset, echo>>
serviceVars == <<svcMain, handler, report, gSvcStatus, dwCheckPoint, ghSvcStopEvent, token,
                 sent, accepts, controls, dispatcher, stopHeard, overlap>>
addressVars == <<waiter, setter, g_targetValue, capturedValue>>
progressVars == <<joiner, window, Canceled, Closed, UserClose, StatusMax, barMax, task,
                  posted, result, clicked, confirmed, dangling>>
vars        == <<program, queueVars, apcVars, loopVars, serviceVars, addressVars,
                 progressVars>>

Init ==
    /\ program \in {"queue", "apc", "loop", "service", "address", "progress"}
    /\ Queue!Init /\ Apc!Init /\ Loop!Init /\ Service!Init /\ Address!Init
    /\ Progress!Init

Next ==
    /\ \/ /\ program = "queue" /\ Queue!Next
          /\ UNCHANGED <<apcVars, loopVars, serviceVars, addressVars, progressVars>>
       \/ /\ program = "apc" /\ Apc!Next
          /\ UNCHANGED <<queueVars, loopVars, serviceVars, addressVars, progressVars>>
       \/ /\ program = "loop" /\ Loop!Next
          /\ UNCHANGED <<queueVars, apcVars, serviceVars, addressVars, progressVars>>
       \/ /\ program = "service" /\ Service!Next
          /\ UNCHANGED <<queueVars, apcVars, loopVars, addressVars, progressVars>>
       \/ /\ program = "address" /\ Address!Next
          /\ UNCHANGED <<queueVars, apcVars, loopVars, serviceVars, progressVars>>
       \/ /\ program = "progress" /\ Progress!Next
          /\ UNCHANGED <<queueVars, apcVars, loopVars, serviceVars, addressVars>>
    /\ UNCHANGED program

(* The fairness of each program, stated and justified in its own module.    *)
Fairness ==
    /\ WF_queueVars(program = "queue" /\ Queue!Run)
    /\ \A k \in Queue!Thread : WF_queueVars(program = "queue" /\ Queue!ThreadStep(k))
    /\ WF_apcVars(program = "apc" /\ Apc!Run)
    /\ WF_apcVars(program = "apc" /\ Apc!TimerTicks)
    /\ WF_apcVars(program = "apc" /\ Apc!RunApcs)
    /\ WF_apcVars(program = "apc" /\ m_exit /\ Apc!WorkerLeaves)
    /\ WF_loopVars(program = "loop" /\ Loop!ThreadStep)
    /\ \A k \in Loop!Coroutines : WF_loopVars(program = "loop" /\ Loop!KernelStep(k))
    /\ WF_serviceVars(program = "service" /\ Service!Running(Service!SvcMain))
    /\ WF_serviceVars(program = "service" /\ Service!Running(Service!SvcCtrlHandler))
    /\ WF_serviceVars(program = "service" /\ Service!Running(Service!DispatcherReturns))
    /\ WF_addressVars(program = "address" /\ Address!MainStep)
    /\ WF_addressVars(program = "address" /\ Address!SetterStep)
    /\ WF_progressVars(program = "progress" /\ Progress!MainStep)
    /\ WF_progressVars(program = "progress" /\ Progress!TaskStep)

Spec == Init /\ [][Next]_vars /\ Fairness

-----------------------------------------------------------------------------
(* Types of the program that runs.                                          *)
TypeOK ==
    /\ program = "queue" => Queue!TypeOK
    /\ program = "apc" => Apc!TypeOK
    /\ program = "loop" => Loop!TypeOK
    /\ program = "service" => Service!TypeOK
    /\ program = "address" => Address!TypeOK
    /\ program = "progress" => Progress!TypeOK

(* thread-queue.ixx: Run posts only to a thread that has its queue and      *)
(* still reads it; no thread begins on an object that is being destroyed,   *)
(* unless WaitOnReady gave up on it; and each message is handled once,      *)
(* before the request to quit.  WaitableTimers: on every path out of Run,   *)
(* an exception's too, the worker has ended before its event is closed;     *)
(* functions run in the order they were scheduled; and each is deleted      *)
(* exactly when it has run.  WaitOnAddress: main never sleeps behind the    *)
(* only wake, and its locals outlive the thread that refers to them.        *)
(* progress-bar: Join's answer is true, the window object outlives the task *)
(* unless the user closed it, and the bar has its range before it moves.    *)
WorkInOrder ==
    /\ program = "queue" =>
         Queue!PostsReachAQueue /\ Queue!DestroyedAfterRun /\ Queue!MessagesBeforeQuit
    /\ program = "apc" =>
         Apc!ExitOutlivesWorker /\ Apc!RunInOrder /\ Apc!DeletedWhenRun
    /\ program = "address" => Address!NoSleepBehindWake /\ Address!LocalsOutliveSetter
    /\ program = "progress" =>
         Progress!ResultIsTrue /\ Progress!ObjectOutlivesTask /\ Progress!RangeBeforeValue

(* WinsockCoroutineJunie: each connection it accepted has one coroutine     *)
(* that answers for it until its end is closed, and what the client         *)
(* receives is the beginning of what it sent.                               *)
EchoInOrder == program = "loop" => Loop!HandlerPerConnection /\ Loop!EchoIsPrefix

(* Win32Service: told StopPending, the SCM is never told Running again; and *)
(* unless SvcMain's last report runs during a control, pending statuses     *)
(* show progress and Stopped is the last thing it hears.                    *)
ReportsInOrder ==
    program = "service" =>
        /\ Service!NeverBackToRunning
        /\ Service!CheckPointsRise
        /\ Service!StoppedStands

(* Win32Service: no control meets a service without its stop event, and     *)
(* SvcMain waits for that event as itself, with every token given back,     *)
(* whichever call of ImpersonateUser failed.                                *)
ServiceReady ==
    program = "service" =>
        /\ Service!EventBeforeControls
        /\ Service!ImpersonationUndone

(* thread-queue.ixx and WaitableTimers: Run returns, whatever throws; only  *)
(* a thread whose queue was given up on may be joined for ever.             *)
(* WinsockCoroutineJunie: the client and the handler of a connection that   *)
(* is over end, and main with the client that finished.  In                 *)
(* Win32Service a stop or shutdown that reached the handler ends the        *)
(* program.  WaitOnAddress: main returns.  progress-bar: with a window, the *)
(* program ends whatever the user does.                                     *)
ProgramsEnd ==
    /\ program = "queue" => Queue!RunReturns
    /\ program = "apc" => Apc!RunReturns
    /\ program = "loop" => Loop!ClientEnds /\ Loop!HandlersEnd
    /\ program = "service" => Service!StopEndsProgram
    /\ program = "address" => Address!MainReturns
    /\ program = "progress" => Progress!WindowEnds
=============================================================================
