------------------------- MODULE ThreadMessageQueue -------------------------
(***************************************************************************)
(* src/src/Win32Threads/thread-queue.ixx: Run makes two threads in turn, t *)
(* without a window and w with a hidden one, waits at most two seconds for *)
(* each thread's message queue to be ready, posts it a message and a       *)
(* request to quit, and at the end destroys both objects, which joins the  *)
(* threads.  A thread's function is virtual: it is the derived class's     *)
(* only as long as the derived part of the object has not been destroyed.  *)
(***************************************************************************)
EXTENDS Integers, Sequences

t == 1
w == 2
Thread == {t, w}

VARIABLES
    main,      \* where Run is
    cur,       \* the object Run works on; the ones up to it are constructed
    thrown,    \* an exception is unwinding, or has unwound, Run
    timedOut,  \* it is the one of WaitOnReady
    thread,    \* where each thread is
    queue,     \* the messages posted to it; its system object exists if hasQueue
    hasQueue,  \* t: the message queue, w: the window m_wnd
    ready,     \* the event m_ready
    quitFlag,  \* PostQuitMessage was called
    handled,   \* the messages handled
    derived    \* the derived part of the object is there

threadVars == <<thread, queue, hasQueue, ready, quitFlag, handled>>
mainVars   == <<main, cur, thrown, timedOut, derived>>
vars       == <<mainVars, threadVars>>

Init ==
    /\ main = "start" /\ cur = t
    /\ thrown = FALSE /\ timedOut = FALSE
    /\ thread = [k \in Thread |-> "none"]
    /\ queue = [k \in Thread |-> <<>>]
    /\ hasQueue = [k \in Thread |-> FALSE]
    /\ ready = [k \in Thread |-> FALSE]
    /\ quitFlag = [k \in Thread |-> FALSE]
    /\ handled = [k \in Thread |-> <<>>]
    /\ derived = [k \in Thread |-> TRUE]

-----------------------------------------------------------------------------
(* The threads.                                                             *)

(* The new thread calls self->Run().  On an object whose derived part is    *)
(* gone that is a call of a pure virtual function, which ends the process.  *)
ThreadCallsRun(k) ==
    /\ thread[k] = "created" /\ main # "aborted"
    /\ \/ /\ derived[k]
          /\ thread' = [thread EXCEPT ![k] = "setup"]
          /\ UNCHANGED main
       \/ /\ ~derived[k]
          /\ main' = "aborted"
          /\ UNCHANGED thread
    /\ UNCHANGED <<cur, thrown, timedOut, derived, queue, hasQueue, ready, quitFlag, handled>>

(* Seeded fault: the event is signalled before there is a queue. *)
MakeQueue_Late(k) ==
    /\ thread[k] = "setup" /\ main # "aborted"
    /\ thread' = [thread EXCEPT ![k] = "signal"]
    /\ ready' = [ready EXCEPT ![k] = TRUE]
    /\ UNCHANGED <<mainVars, queue, hasQueue, quitFlag, handled>>

(* PeekMessageW makes a thread's queue; CreateWindowExW makes a window.     *)
MakeQueue(k) ==
    /\ thread[k] = "setup" /\ main # "aborted"
    /\ thread' = [thread EXCEPT ![k] = "signal"]
    /\ hasQueue' = [hasQueue EXCEPT ![k] = TRUE]
    /\ UNCHANGED <<mainVars, queue, ready, quitFlag, handled>>

(* RegisterClassExW or CreateWindowExW fails: the exception is caught in    *)
(* the thread's function, and the event is never signalled.                 *)
SetupFails ==
    /\ thread[w] = "setup" /\ main # "aborted"
    /\ thread' = [thread EXCEPT ![w] = "ended"]
    /\ UNCHANGED <<mainVars, queue, hasQueue, ready, quitFlag, handled>>

SignalReady(k) ==
    /\ thread[k] = "signal" /\ main # "aborted"
    /\ ready' = [ready EXCEPT ![k] = TRUE]
    /\ thread' = [thread EXCEPT ![k] = "loop"]
    /\ UNCHANGED <<mainVars, queue, hasQueue, quitFlag, handled>>

Ends(k) ==
    /\ thread' = [thread EXCEPT ![k] = "ended"]
    /\ hasQueue' = [hasQueue EXCEPT ![k] = FALSE]

(* WndProc: Close calls PostQuitMessage.                                    *)
WndProc(k, msg) == k = w /\ msg = "Close"

(* GetMessageW returns a message, and the loop dispatches it.               *)
HandleMessage(k) ==
    /\ thread[k] = "loop" /\ main # "aborted"
    /\ queue[k] # <<>> /\ Head(queue[k]) # "Quit"
    /\ LET m == Head(queue[k]) IN
          /\ queue' = [queue EXCEPT ![k] = Tail(@)]
          /\ handled' = [handled EXCEPT ![k] = Append(@, m)]
          /\ quitFlag' = [quitFlag EXCEPT ![k] = @ \/ WndProc(k, m)]
    /\ UNCHANGED <<mainVars, thread, hasQueue, ready>>

(* GetMessageW returns zero: the posted Quit is taken, or PostQuitMessage   *)
(* was called and no other message is left.                                 *)
Quits(k) ==
    /\ thread[k] = "loop" /\ main # "aborted"
    /\ \/ queue[k] # <<>> /\ Head(queue[k]) = "Quit"
       \/ queue[k] = <<>> /\ quitFlag[k]
    /\ Ends(k)
    /\ UNCHANGED <<mainVars, queue, ready, quitFlag, handled>>

ThreadStep(k) ==
    \/ ThreadCallsRun(k) \/ MakeQueue(k) \/ SignalReady(k)
    \/ HandleMessage(k) \/ Quits(k)
    \/ k = w /\ SetupFails

-----------------------------------------------------------------------------
(* Run.                                                                     *)

Start ==
    /\ main = "start"
    /\ thread' = [thread EXCEPT ![cur] = "created"]
    /\ main' = "waitReady"
    /\ UNCHANGED <<cur, thrown, timedOut, derived, queue, hasQueue, ready, quitFlag, handled>>

(* WaitOnReady: the event, or an exception after two seconds.               *)
WaitOnReady ==
    /\ main = "waitReady"
    /\ \/ /\ ready[cur]
          /\ main' = "postMessage"
          /\ UNCHANGED <<thrown, timedOut>>
       \/ /\ ~ready[cur]
          /\ main' = "leave"
          /\ thrown' = TRUE /\ timedOut' = TRUE
    /\ UNCHANGED <<cur, derived, threadVars>>

(* PostThreadMessageW or PostMessageW, which fails, and so throws, when     *)
(* there is no queue or window.                                             *)
Post(m, then) ==
    \/ /\ hasQueue[cur]
       /\ queue' = [queue EXCEPT ![cur] = Append(@, m)]
       /\ then
       /\ UNCHANGED <<thrown, timedOut, derived, thread, hasQueue, ready, quitFlag, handled>>
    \/ /\ ~hasQueue[cur]
       /\ main' = "leave" /\ thrown' = TRUE
       /\ UNCHANGED <<cur, timedOut, derived, threadVars>>

PostMessage ==
    /\ main = "postMessage"
    /\ Post("MessageBase", main' = "postQuit" /\ UNCHANGED cur)

PostQuit ==
    /\ main = "postQuit"
    /\ Post(IF cur = t THEN "Quit" ELSE "Close",
            IF cur = t THEN main' = "start" /\ cur' = w
                       ELSE main' = "leave" /\ UNCHANGED cur)

(* Destructors, the last object's first: the derived part goes, then the    *)
(* jthread member joins.                                                    *)
DestroyDerived ==
    /\ main = "leave"
    /\ derived' = [derived EXCEPT ![cur] = FALSE]
    /\ main' = "join"
    /\ UNCHANGED <<cur, thrown, timedOut, threadVars>>

(* Seeded fault: the destructors do not stop at the first object. *)
Join_NoStop ==
    /\ main = "join"
    /\ thread[cur] = "ended"
    /\ main' = "leave" /\ cur' = cur - 1
    /\ UNCHANGED <<thrown, timedOut, derived, threadVars>>

(* Joining waits for the thread to end, however long that takes.            *)
Join ==
    /\ main = "join"
    /\ thread[cur] = "ended"
    /\ IF cur = t THEN main' = "done" /\ UNCHANGED cur
                  ELSE main' = "leave" /\ cur' = t
    /\ UNCHANGED <<thrown, timedOut, derived, threadVars>>

Run == Start \/ WaitOnReady \/ PostMessage \/ PostQuit \/ DestroyDerived \/ Join

Next == Run \/ (\E k \in Thread : ThreadStep(k))

Spec == Init /\ [][Next]_vars

(* The system runs both threads.                                            *)
FairSpec == Spec /\ WF_vars(Run) /\ \A k \in Thread : WF_vars(ThreadStep(k))

-----------------------------------------------------------------------------
(* Types.                                                                   *)
TypeOK ==
    /\ main \in {"start", "waitReady", "postMessage", "postQuit", "leave", "join", "done", "aborted"}
    /\ cur \in Thread /\ thrown \in BOOLEAN /\ timedOut \in BOOLEAN
    /\ thread \in [Thread -> {"none", "created", "setup", "signal", "loop", "ended"}]
    /\ queue \in [Thread -> Seq({"MessageBase", "Quit", "Close"})]
    /\ handled \in [Thread -> Seq({"MessageBase", "Close"})]
    /\ hasQueue \in [Thread -> BOOLEAN] /\ ready \in [Thread -> BOOLEAN]
    /\ quitFlag \in [Thread -> BOOLEAN] /\ derived \in [Thread -> BOOLEAN]

(* Run posts only to a thread that has its queue and still reads it: the    *)
(* wait for m_ready orders the posts after the queue's creation, so that no *)
(* post fails.                                                              *)
PostsReachAQueue ==
    /\ main \in {"postMessage", "postQuit"} => hasQueue[cur] /\ thread[cur] # "ended"
    /\ thrown => timedOut

(* A thread never begins on an object that is being destroyed, where it     *)
(* would call a pure virtual function, unless WaitOnReady gave up on it.    *)
DestroyedAfterRun ==
    /\ \A k \in Thread : thread[k] \in {"created", "setup"} /\ ~derived[k] => timedOut
    /\ main = "aborted" => timedOut

(* When Run returns without an exception, each thread has handled the       *)
(* message posted before the request to quit, and nothing twice.            *)
MessagesBeforeQuit ==
    main = "done" /\ ~thrown =>
        handled[t] = <<"MessageBase">> /\ handled[w] = <<"MessageBase", "Close">>

(* Run returns, unless a wait for a queue timed out: then the join may wait *)
(* for ever.                                                                *)
RunReturns == <>(main = "done" \/ timedOut)
=============================================================================
