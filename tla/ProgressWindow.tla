---------------------------- MODULE ProgressWindow ----------------------------
(***************************************************************************)
(* progress-bar: main shows a window and waits for it in Join; a detached  *)
(* thread, the task, moves its bar and closes it.  The window object is a  *)
(* local of main's that the task refers to.                                *)
(*   - SendMessage to the window waits for main to take messages, and      *)
(*     returns at once when the window is gone; a posted WM_CLOSE is lost  *)
(*     with it.                                                            *)
(*   - The box that OnCancel shows takes messages too; it is owned by the  *)
(*     window and ends with it, unanswered.                                *)
(*   - The titles and texts the task sets are left out, and the positions  *)
(*     of the bar are one message.  What the task does to memory that is   *)
(*     no longer the object is left out; the process is ending.            *)
(***************************************************************************)
EXTENDS Integers

VARIABLES
    joiner,         \* where main is
    window,         \* "none" if it could not be made
    Canceled, Closed, UserClose,
    StatusMax,      \* Status.Max
    barMax,         \* the range the control has
    task,           \* where the task is
    posted,         \* WM_CLOSE is in the window's queue
    result,         \* what Join returned
    clicked, confirmed, \* the user closed the window; and said yes
    dangling        \* the task used the window object after its end

vars == <<joiner, window, Canceled, Closed, UserClose, StatusMax, barMax, task,
          posted, result, clicked, confirmed, dangling>>
userVars == <<clicked, confirmed>>

TaskPlaces == {"SetMarquee", "SetProgress", "SetValue", "Completing", "Canceled",
               "UserClose", "Post", "ended"}

Init ==
    /\ joiner = "start" /\ window = "none"
    /\ Canceled = FALSE /\ Closed = FALSE /\ UserClose = FALSE
    /\ StatusMax = 0 /\ barMax = 0
    /\ task = "SetMarquee" /\ posted = FALSE /\ result = "none"
    /\ clicked = FALSE /\ confirmed = FALSE /\ dangling = FALSE

-----------------------------------------------------------------------------
(* main: the loop of Join and the window procedure.                         *)
(* Seeded fault: the window procedure does not ask who closed the window.   *)
Destroy_AsCanceled ==
    /\ Canceled' = TRUE /\ Closed' = TRUE
    /\ window' = "gone" /\ posted' = FALSE

Destroy ==
    /\ Canceled' = ~UserClose /\ Closed' = TRUE
    /\ window' = "gone" /\ posted' = FALSE

Untouched == UNCHANGED <<UserClose, StatusMax, barMax, task, result, dangling>>

(* The window is made, or is not, and the task begins.  ProgressStatus      *)
(* assigns its Max to itself: the range begins as anything, the task's own  *)
(* 100 included.                                                            *)
Construct ==
    /\ joiner = "start" /\ joiner' = "loop"
    /\ window' \in {"open", "none"}
    /\ StatusMax' \in {0, 100} /\ barMax' = StatusMax'
    /\ UNCHANGED <<Canceled, Closed, UserClose, task, posted, result, userVars, dangling>>

(* WM_CLOSE or WM_COMMAND of the user: asks, unless the task closed first.  *)
UserCloses ==
    /\ joiner = "loop" /\ window = "open"
    /\ IF UserClose THEN Destroy /\ UNCHANGED joiner
       ELSE joiner' = "asking" /\ UNCHANGED <<window, Canceled, Closed, posted>>
    /\ clicked' = TRUE
    /\ UNCHANGED confirmed /\ Untouched

(* WM_CLOSE of the task, in Join's loop or in the box's; UserClose is set.  *)
CloseArrives ==
    /\ joiner \in {"loop", "asking"} /\ posted
    /\ Destroy
    /\ UNCHANGED <<joiner, userVars>> /\ Untouched

(* UserClose is read again behind the answer. *)
AnswerYes ==
    /\ joiner = "asking" /\ window = "open"
    /\ Destroy /\ joiner' = "loop"
    /\ confirmed' = TRUE
    /\ UNCHANGED clicked /\ Untouched

AnswerNo ==
    /\ joiner = "asking" /\ window = "open"
    /\ joiner' = "loop"
    /\ UNCHANGED <<window, Canceled, Closed, posted, userVars>> /\ Untouched

BoxEnds ==
    /\ joiner = "asking" /\ window = "gone"
    /\ joiner' = "loop"
    /\ UNCHANGED <<window, Canceled, Closed, posted, userVars>> /\ Untouched

JoinReturns ==
    /\ joiner = "loop" /\ Closed
    /\ joiner' = "told"
    /\ result' = IF Canceled THEN "canceled" ELSE "success"
    /\ UNCHANGED <<window, Canceled, Closed, UserClose, StatusMax, barMax, task, posted,
                   userVars, dangling>>

(* The user dismisses the result; the locals go, and then the process.      *)
LocalsGo ==
    /\ joiner = "told" /\ joiner' = "leaving"
    /\ UNCHANGED <<window, Canceled, Closed, UserClose, StatusMax, barMax, task, posted,
                   result, userVars, dangling>>

ProcessEnds ==
    /\ joiner = "leaving" /\ joiner' = "exited"
    /\ UNCHANGED <<window, Canceled, Closed, UserClose, StatusMax, barMax, task, posted,
                   result, userVars, dangling>>

MainStep ==
    Construct \/ CloseArrives \/ BoxEnds \/ JoinReturns \/ LocalsGo \/ ProcessEnds

-----------------------------------------------------------------------------
(* The task.                                                                *)
TaskGoes(from, to) ==
    /\ task = from /\ task' = to
    /\ joiner \notin {"start", "exited"}
    /\ dangling' = (dangling \/ joiner = "leaving")
    /\ UNCHANGED <<joiner, window, Closed, result, userVars>>

Sent == window # "open" \/ joiner \in {"loop", "asking"}

(* SetStatus: the bar no longer only moves. *)
SetMarquee ==
    /\ Sent /\ TaskGoes("SetMarquee", "SetProgress")
    /\ UNCHANGED <<Canceled, UserClose, StatusMax, barMax, posted>>

(* SetStatus again: the range, where it is not what Status says already.    *)
SetProgress ==
    /\ Sent /\ TaskGoes("SetProgress", "SetValue")
    /\ barMax' = IF StatusMax # 100 /\ window = "open" THEN 100 ELSE barMax
    /\ StatusMax' = 100
    /\ UNCHANGED <<Canceled, UserClose, posted>>

SetValue ==
    /\ Sent /\ TaskGoes("SetValue", "Completing")
    /\ UNCHANGED <<Canceled, UserClose, StatusMax, barMax, posted>>

Completing ==
    /\ Sent /\ TaskGoes("Completing", "Canceled")
    /\ UNCHANGED <<Canceled, UserClose, StatusMax, barMax, posted>>

(* Close: three statements, and no lock. *)
NotCanceled ==
    /\ TaskGoes("Canceled", "UserClose")
    /\ Canceled' = FALSE
    /\ UNCHANGED <<UserClose, StatusMax, barMax, posted>>

ClosedByTask ==
    /\ TaskGoes("UserClose", "Post")
    /\ UserClose' = TRUE
    /\ UNCHANGED <<Canceled, StatusMax, barMax, posted>>

PostClose ==
    /\ TaskGoes("Post", "ended")
    /\ posted' = (window = "open")
    /\ UNCHANGED <<Canceled, UserClose, StatusMax, barMax>>

TaskStep ==
    \/ SetMarquee \/ SetProgress \/ SetValue \/ Completing
    \/ NotCanceled \/ ClosedByTask \/ PostClose

Next == UserCloses \/ AnswerYes \/ AnswerNo \/ MainStep \/ TaskStep

(* Both threads run and the user dismisses the result; nobody has to close  *)
(* the window or to answer.                                                 *)
Fairness == WF_vars(MainStep) /\ WF_vars(TaskStep)

Spec == Init /\ [][Next]_vars /\ Fairness

-----------------------------------------------------------------------------
(* Types of the variables.                                                  *)
TypeOK ==
    /\ joiner \in {"start", "loop", "asking", "told", "leaving", "exited"}
    /\ window \in {"open", "none", "gone"}
    /\ Canceled \in BOOLEAN /\ Closed \in BOOLEAN /\ UserClose \in BOOLEAN
    /\ posted \in BOOLEAN /\ dangling \in BOOLEAN
    /\ clicked \in BOOLEAN /\ confirmed \in BOOLEAN
    /\ StatusMax \in {0, 100} /\ barMax \in {0, 100}
    /\ task \in TaskPlaces /\ result \in {"none", "success", "canceled"}

(* progress-bar: Join says that the task ended successfully only when the   *)
(* task had come to its Close, and that it was canceled only when the user  *)
(* confirmed; both may be so when Close and the answer cross.               *)
ResultIsTrue ==
    /\ result = "success" => task \in {"UserClose", "Post", "ended"}
    /\ result = "canceled" => confirmed

(* progress-bar: the detached task refers to the window object only while   *)
(* that lives, unless the user closed the window: then main does not wait   *)
(* for the task.                                                            *)
ObjectOutlivesTask == dangling => clicked

(* progress-bar: whatever the range began as, the bar is moved within the   *)
(* range that the task asked for.                                           *)
RangeBeforeValue ==
    window = "open" /\ task \notin {"SetMarquee", "SetProgress"} => barMax = 100

(* progress-bar: with a window, the program ends, whatever the user does or *)
(* leaves undone.                                                           *)
WindowEnds == window = "open" ~> joiner = "exited"
=============================================================================
