---------------------------- MODULE Win32Service ----------------------------
(***************************************************************************)
(* src/src/Win32Service/main.cpp: a service.  SvcMain runs on a thread of  *)
(* its own; the control dispatcher calls SvcCtrlHandler, one control at a  *)
(* time, on the main thread.  Both tell the service control manager (SCM)  *)
(* what the service is doing through ReportSvcStatus, which fills in the   *)
(* shared record gSvcStatus, with no lock, and hands it over.  A report is *)
(* therefore three steps here: the state, the rest of the record, and      *)
(* SetServiceStatus.  Logging and the wait hint are left out.              *)
(***************************************************************************)
EXTENDS Integers, Sequences, SequencesExt

CONSTANT MaxControls  \* bound: how many controls the SCM sends

(* What the constants are.                                                  *)
ControlsAssumption == MaxControls \in Nat

Thread  == {"SvcMain", "Handler"}
Pending == {"StartPending", "StopPending"}
State   == Pending \cup {"Running", "Stopped"}
Idle    == [step |-> "idle", state |-> "none"]

VARIABLES
    svcMain,         \* where SvcMain is
    handler,         \* where SvcCtrlHandler is, "idle" between controls
    report,          \* each thread's call of ReportSvcStatus
    gSvcStatus,      \* the shared record
    dwCheckPoint,    \* the static of ReportSvcStatus
    ghSvcStopEvent,  \* "null", "unset" or "set"
    token,           \* what ImpersonateUser holds
    sent,            \* the statuses handed to the SCM
    accepts,         \* the last of them accepts controls
    controls,        \* the number of controls sent
    dispatcher,      \* StartServiceCtrlDispatcherW: "running" or "returned"
    stopHeard,       \* history: a stop or shutdown control was delivered
    overlap          \* history: the last report of SvcMain met a running handler

vars == <<svcMain, handler, report, gSvcStatus, dwCheckPoint, ghSvcStopEvent, token,
          sent, accepts, controls, dispatcher, stopHeard, overlap>>

Init ==
    /\ svcMain = "register" /\ handler = "idle"
    /\ report = [p \in Thread |-> Idle]
    /\ gSvcStatus = [state |-> "none", accepts |-> FALSE, checkPoint |-> 0]
    /\ dwCheckPoint = 1
    /\ ghSvcStopEvent = "null"
    /\ token = {}
    /\ sent = <<>> /\ accepts = FALSE
    /\ controls = 0 /\ dispatcher = "running"
    /\ stopHeard = FALSE /\ overlap = FALSE

-----------------------------------------------------------------------------
(* ReportSvcStatus, called by thread p.                                     *)

Call(p, s) == report' = [report EXCEPT ![p] = [step |-> "state", state |-> s]]

FillState(p) ==
    /\ report[p].step = "state"
    /\ gSvcStatus' = [gSvcStatus EXCEPT !.state = report[p].state]
    /\ report' = [report EXCEPT ![p].step = "rest"]
    /\ UNCHANGED <<svcMain, handler, dwCheckPoint, ghSvcStopEvent, token, sent, accepts,
                   controls, dispatcher, stopHeard>>

(* The accepted controls and the check point follow from the argument.      *)
FillRest(p) ==
    /\ report[p].step = "rest"
    /\ LET pending == report[p].state \in Pending IN
          /\ gSvcStatus' = [gSvcStatus EXCEPT
                               !.accepts = report[p].state # "StartPending",
                               !.checkPoint = IF pending THEN dwCheckPoint ELSE 0]
          /\ dwCheckPoint' = dwCheckPoint + (IF pending THEN 1 ELSE 0)
    /\ report' = [report EXCEPT ![p].step = "send"]
    /\ UNCHANGED <<svcMain, handler, ghSvcStopEvent, token, sent, accepts,
                   controls, dispatcher, stopHeard>>

(* SetServiceStatus hands over the record as it is by now.                  *)
SendStatus(p) ==
    /\ report[p].step = "send"
    /\ sent' = Append(sent, [state |-> gSvcStatus.state, checkPoint |-> gSvcStatus.checkPoint])
    /\ accepts' = gSvcStatus.accepts
    /\ report' = [report EXCEPT ![p] = Idle]
    /\ UNCHANGED <<svcMain, handler, gSvcStatus, dwCheckPoint, ghSvcStopEvent, token,
                   controls, dispatcher, stopHeard>>

ReportSvcStatus(p) == FillState(p) \/ FillRest(p) \/ SendStatus(p)

-----------------------------------------------------------------------------
(* SvcMain.                                                                 *)

InMain(at) == svcMain = at /\ report["SvcMain"] = Idle

(* RegisterServiceCtrlHandlerExW may fail; otherwise StartPending.          *)
Register ==
    /\ InMain("register")
    /\ \/ svcMain' = "returned" /\ UNCHANGED report
       \/ svcMain' = "createEvent" /\ Call("SvcMain", "StartPending")
    /\ UNCHANGED <<handler, gSvcStatus, dwCheckPoint, ghSvcStopEvent, token, sent, accepts,
                   controls, dispatcher, stopHeard>>

(* Seeded fault: Running is reported before there is an event. *)
CreateEvent_Late ==
    /\ \/ /\ InMain("createEvent")
          /\ svcMain' = "eventAfter" /\ Call("SvcMain", "Running")
          /\ UNCHANGED ghSvcStopEvent
       \/ /\ InMain("eventAfter")
          /\ svcMain' = "query" /\ ghSvcStopEvent' = "unset"
          /\ UNCHANGED report
    /\ UNCHANGED <<handler, gSvcStatus, dwCheckPoint, token, sent, accepts,
                   controls, dispatcher, stopHeard>>

CreateEvent ==
    /\ InMain("createEvent")
    /\ \/ svcMain' = "failed" /\ Call("SvcMain", "Stopped") /\ UNCHANGED ghSvcStopEvent
       \/ svcMain' = "query" /\ Call("SvcMain", "Running") /\ ghSvcStopEvent' = "unset"
    /\ UNCHANGED <<handler, gSvcStatus, dwCheckPoint, token, sent, accepts,
                   controls, dispatcher, stopHeard>>

FailedReturns ==
    /\ InMain("failed")
    /\ svcMain' = "returned"
    /\ UNCHANGED <<handler, report, gSvcStatus, dwCheckPoint, ghSvcStopEvent, token, sent,
                   accepts, controls, dispatcher, stopHeard>>

(* ImpersonateUser: each call that takes something may throw instead; the   *)
(* catch and the normal path both revert, and the owners let go on leaving. *)
Takes == [query       |-> [what |-> "user",       next |-> "duplicate"],
          duplicate   |-> [what |-> "duplicated", next |-> "impersonate"],
          impersonate |-> [what |-> "identity",   next |-> "openKey"],
          openKey     |-> [what |-> "key",        next |-> "leave"]]

ImpersonateUser ==
    /\ \/ /\ svcMain \in DOMAIN Takes /\ InMain(svcMain)
          /\ \/ svcMain' = Takes[svcMain].next /\ token' = token \cup {Takes[svcMain].what}
             \/ svcMain' = "leave" /\ UNCHANGED token
       \/ /\ InMain("leave")
          /\ svcMain' = "wait" /\ token' = {}
    /\ UNCHANGED <<handler, report, gSvcStatus, dwCheckPoint, ghSvcStopEvent, sent, accepts,
                   controls, dispatcher, stopHeard>>

(* The wait ends with the event, and SvcMain reports Stopped.               *)
WaitForStop ==
    /\ InMain("wait") /\ ghSvcStopEvent = "set"
    /\ svcMain' = "stopping" /\ Call("SvcMain", "Stopped")
    /\ UNCHANGED <<handler, gSvcStatus, dwCheckPoint, ghSvcStopEvent, token, sent, accepts,
                   controls, dispatcher, stopHeard>>

StoppedReturns ==
    /\ InMain("stopping")
    /\ svcMain' = "stopped"
    /\ UNCHANGED <<handler, report, gSvcStatus, dwCheckPoint, ghSvcStopEvent, token, sent,
                   accepts, controls, dispatcher, stopHeard>>

SvcMain ==
    \/ Register \/ CreateEvent \/ FailedReturns \/ ImpersonateUser
    \/ WaitForStop \/ StoppedReturns
    \/ ReportSvcStatus("SvcMain")

-----------------------------------------------------------------------------
(* SvcCtrlHandler.  Interrogate returns at once and changes nothing.        *)

InHandler(at) == handler = at /\ report["Handler"] = Idle

(* The SCM sends a control only to a service whose last status accepts it,  *)
(* never to a stopped one, and Stop only to one that is running.            *)
SendControl(c) ==
    /\ dispatcher = "running" /\ handler = "idle"
    /\ controls < MaxControls
    /\ sent # <<>> /\ accepts
    /\ Last(sent).state # "Stopped"
    /\ c = "stop" => Last(sent).state = "Running"
    /\ handler' = c
    /\ controls' = controls + 1
    /\ stopHeard' = (stopHeard \/ c # "sessionChange")
    /\ UNCHANGED <<svcMain, report, gSvcStatus, dwCheckPoint, ghSvcStopEvent, token, sent,
                   accepts, dispatcher>>

(* Seeded fault: the event is not set when the service stops. *)
SetStopEvent_Never ==
    UNCHANGED ghSvcStopEvent

(* SetEvent on a null handle fails, and the result is not looked at.        *)
SetStopEvent ==
    ghSvcStopEvent' = IF ghSvcStopEvent = "null" THEN "null" ELSE "set"

ControlStop ==
    /\ \/ /\ InHandler("stop")
          /\ handler' = "setEvent" /\ Call("Handler", "StopPending")
          /\ UNCHANGED ghSvcStopEvent
       \/ /\ InHandler("setEvent")
          /\ handler' = "again" /\ SetStopEvent
          /\ UNCHANGED report
    /\ UNCHANGED <<svcMain, gSvcStatus, dwCheckPoint, token, sent, accepts,
                   controls, dispatcher, stopHeard>>

ControlShutdown ==
    /\ InHandler("shutdown")
    /\ SetStopEvent
    /\ handler' = "idle"
    /\ UNCHANGED <<svcMain, report, gSvcStatus, dwCheckPoint, token, sent, accepts,
                   controls, dispatcher, stopHeard>>

(* Seeded fault: a session change always reports Running. *)
ReportAgain_Running ==
    /\ \/ /\ InHandler("again") /\ Call("Handler", gSvcStatus.state)
       \/ /\ InHandler("sessionChange") /\ Call("Handler", "Running")
    /\ handler' = "done"
    /\ UNCHANGED <<svcMain, gSvcStatus, dwCheckPoint, ghSvcStopEvent, token, sent, accepts,
                   controls, dispatcher, stopHeard>>

(* Stop's second report, and a session change's: the state is read now.     *)
ReportAgain ==
    /\ InHandler("again") \/ InHandler("sessionChange")
    /\ Call("Handler", gSvcStatus.state)
    /\ handler' = "done"
    /\ UNCHANGED <<svcMain, gSvcStatus, dwCheckPoint, ghSvcStopEvent, token, sent, accepts,
                   controls, dispatcher, stopHeard>>

HandlerReturns ==
    /\ InHandler("done")
    /\ handler' = "idle"
    /\ UNCHANGED <<svcMain, report, gSvcStatus, dwCheckPoint, ghSvcStopEvent, token, sent,
                   accepts, controls, dispatcher, stopHeard>>

SvcCtrlHandler ==
    \/ ControlStop \/ ControlShutdown \/ ReportAgain \/ HandlerReturns
    \/ ReportSvcStatus("Handler")

WasSent(s) == \E i \in DOMAIN sent : sent[i].state = s

(* StartServiceCtrlDispatcherW returns once the SCM was told Stopped; the   *)
(* handler runs on the same thread.                                         *)
DispatcherReturns ==
    /\ dispatcher = "running" /\ handler = "idle"
    /\ WasSent("Stopped")
    /\ dispatcher' = "returned"
    /\ UNCHANGED <<svcMain, handler, report, gSvcStatus, dwCheckPoint, ghSvcStopEvent, token,
                   sent, accepts, controls, stopHeard>>

-----------------------------------------------------------------------------
(* A step of the running program: its end ends SvcMain's thread too.        *)
Running(A) ==
    /\ dispatcher = "running"
    /\ A
    /\ overlap' = (overlap \/ (svcMain' = "stopping" /\ handler' # "idle"))

Next ==
    \/ Running(SvcMain)
    \/ Running(SvcCtrlHandler)
    \/ \E c \in {"stop", "shutdown", "sessionChange"} : Running(SendControl(c))
    \/ Running(DispatcherReturns)

Spec == Init /\ [][Next]_vars

(* Both threads run: the code has no loop a thread could be starved in.     *)
FairSpec ==
    /\ Spec
    /\ WF_vars(Running(SvcMain))
    /\ WF_vars(Running(SvcCtrlHandler))
    /\ WF_vars(Running(DispatcherReturns))

-----------------------------------------------------------------------------
(* Types.                                                                   *)
TypeOK ==
    /\ report \in [Thread -> [step : {"idle", "state", "rest", "send"}, state : State \cup {"none"}]]
    /\ gSvcStatus \in [state : State \cup {"none"}, accepts : BOOLEAN, checkPoint : Nat]
    /\ ghSvcStopEvent \in {"null", "unset", "set"}
    /\ sent \in Seq([state : State, checkPoint : Nat])
    /\ token \subseteq {"user", "duplicated", "identity", "key"}
    /\ dwCheckPoint \in Nat \ {0} /\ controls \in 0 .. MaxControls

(* SvcCtrlHandler never signals a null handle: no control is accepted       *)
(* before Running is reported, and by then SvcMain has made the event.      *)
EventBeforeControls == handler # "idle" => ghSvcStopEvent # "null"

(* Told StopPending, the SCM is never told Running again, however the two   *)
(* threads' uses of the shared record fall: the handler's second report     *)
(* repeats the state it finds.                                              *)
NeverBackToRunning ==
    \A i, j \in DOMAIN sent :
        i < j /\ sent[i].state = "StopPending" => sent[j].state # "Running"

(* Each pending status shows progress: its check point is above those of    *)
(* the ones before, unless SvcMain's last report ran during a control.      *)
CheckPointsRise ==
    ~overlap => \A i, j \in DOMAIN sent :
        i < j /\ sent[i].state \in Pending /\ sent[j].state \in Pending
            => sent[i].checkPoint < sent[j].checkPoint

(* Stopped is the last thing the SCM hears, unless SvcMain's last report    *)
(* ran during a control.                                                    *)
StoppedStands ==
    svcMain = "stopped" /\ ~overlap => Last(sent).state = "Stopped"

(* SvcMain waits, and reports Stopped, as itself and with every token given *)
(* back, whichever call of ImpersonateUser failed.                          *)
ImpersonationUndone ==
    svcMain \in {"wait", "stopping", "stopped"} => token = {}

(* A stop or shutdown that reached the handler ends SvcMain and, with the   *)
(* SCM told Stopped, the program; only a last report that ran during a      *)
(* control may leave the dispatcher waiting.                                *)
StopEndsProgram ==
    stopHeard ~> dispatcher = "returned" \/ (svcMain = "stopped" /\ overlap)

(* What line 150 says of ReportSvcStatus: "Report the status of the service *)
(* to the SCM."  When SvcMain's call with Stopped has returned, the SCM has *)
(* been told Stopped.                                                       *)
StoppedIsReported == svcMain = "stopped" => WasSent("Stopped")
=============================================================================
