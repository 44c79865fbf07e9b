----------------------------- MODULE AddressWait -----------------------------
(***************************************************************************)
(* WaitOnAddress/main.cpp: main sleeps on the address of a local variable  *)
(* until a thread has changed it.  The kernel compares and queues in one   *)
(* step; a wait may also return for no reason.                             *)
(***************************************************************************)
EXTENDS Integers

VARIABLES
    waiter,             \* where main is
    setter,             \* where the thread is
    g_targetValue, capturedValue

vars == <<waiter, setter, g_targetValue, capturedValue>>

undesiredValue == 0

Init ==
    /\ waiter = "test" /\ setter = "sleep"
    /\ g_targetValue = 0 /\ capturedValue = 0

-----------------------------------------------------------------------------
(* main.                                                                    *)
MainGoes(from, to) == waiter = from /\ waiter' = to

Test ==
    /\ IF capturedValue = undesiredValue THEN MainGoes("test", "compare")
       ELSE MainGoes("test", "join")
    /\ UNCHANGED <<setter, g_targetValue, capturedValue>>

WaitOnAddress ==
    /\ IF g_targetValue = undesiredValue THEN MainGoes("compare", "asleep")
       ELSE MainGoes("compare", "capture")
    /\ UNCHANGED <<setter, g_targetValue, capturedValue>>

SpuriousWake ==
    /\ MainGoes("asleep", "capture")
    /\ UNCHANGED <<setter, g_targetValue, capturedValue>>

Capture ==
    /\ MainGoes("capture", "test")
    /\ capturedValue' = g_targetValue
    /\ UNCHANGED <<setter, g_targetValue>>

(* The jthread is joined before the locals it refers to go.                 *)
JoinReturns ==
    /\ setter = "ended" /\ MainGoes("join", "returned")
    /\ UNCHANGED <<setter, g_targetValue, capturedValue>>

MainStep == Test \/ WaitOnAddress \/ Capture \/ JoinReturns

(* The thread.                                                              *)
Store ==
    /\ setter = "sleep" /\ setter' = "stored"
    /\ g_targetValue' = 1
    /\ UNCHANGED <<waiter, capturedValue>>

WakeByAddressSingle ==
    /\ setter = "stored" /\ setter' = "ended"
    /\ waiter' = IF waiter = "asleep" THEN "capture" ELSE waiter
    /\ UNCHANGED <<g_targetValue, capturedValue>>

SetterStep == Store \/ WakeByAddressSingle

Next == MainStep \/ SpuriousWake \/ SetterStep

(* Both threads run on; a wake without reason is nothing to count on.       *)
Fairness == WF_vars(MainStep) /\ WF_vars(SetterStep)

Spec == Init /\ [][Next]_vars /\ Fairness

-----------------------------------------------------------------------------
(* Types of the variables.                                                  *)
TypeOK ==
    /\ waiter \in {"test", "compare", "asleep", "capture", "join", "returned"}
    /\ setter \in {"sleep", "stored", "ended"}
    /\ g_targetValue \in 0..1 /\ capturedValue \in 0..1

(* WaitOnAddress: main does not sleep behind the only wake there is,        *)
(* wherever the change came between its test and its wait.                  *)
NoSleepBehindWake == waiter = "asleep" => setter # "ended"

(* WaitOnAddress: main leaves its loop only with the change, and its locals *)
(* only when the thread no longer refers to them.                           *)
LocalsOutliveSetter ==
    /\ waiter \in {"join", "returned"} => capturedValue = 1
    /\ waiter = "returned" => setter = "ended"

(* WaitOnAddress: main returns.                                             *)
MainReturns == <>(waiter = "returned")
=============================================================================
