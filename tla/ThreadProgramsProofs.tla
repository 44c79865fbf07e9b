------------------------ MODULE ThreadProgramsProofs -------------------------
(***************************************************************************)
(* What is proved of the programs whose threads talk through Windows, for  *)
(* every number of scheduled functions, of controls and of visitors and    *)
(* every message: WorkInOrder of the message queues, of the asynchronous   *)
(* procedure calls, of the wait on an address and of the progress window,  *)
(* EchoInOrder of the coroutines, ServiceReady and ReportsInOrder of the   *)
(* service, and the types of all of them.                                  *)
(***************************************************************************)
EXTENDS ThreadPrograms, SequenceTheorems, TLAPS

(* A step is a step of the program that runs, or none.                      *)
LEMMA ProgramStep ==
  ASSUME [Next]_vars
  PROVE  /\ program' = program
         /\ program = "queue" => [Queue!Next]_queueVars
         /\ program = "apc" => [Apc!Next]_apcVars
         /\ program = "loop" => [Loop!Next]_loopVars
         /\ program = "service" => [Service!Next]_serviceVars
         /\ program = "address" => [Address!Next]_addressVars
         /\ program = "progress" => [Progress!Next]_progressVars
BY DEF Next, vars, queueVars, apcVars, loopVars, serviceVars, addressVars, progressVars

-----------------------------------------------------------------------------
(* thread-queue.ixx.  How far the messages of thread k have come: none was  *)
(* posted, the first was, or both were.                                     *)
NonePosted(k) == queue[k] = <<>> /\ handled[k] = <<>> /\ ~quitFlag[k]

OnePosted(k) ==
    /\ \/ queue[k] = <<"MessageBase">> /\ handled[k] = <<>>
       \/ queue[k] = <<>> /\ handled[k] = <<"MessageBase">>
    /\ ~quitFlag[k]

Finished(k) ==
    \/ k = Queue!t /\ queue[k] = <<"Quit">> /\ handled[k] = <<"MessageBase">> /\ ~quitFlag[k]
    \/ k = Queue!w /\ queue[k] = <<>> /\ handled[k] = <<"MessageBase", "Close">> /\ quitFlag[k]

BothPosted(k) ==
    \/ k = Queue!t /\ queue[k] = <<"MessageBase", "Quit">> /\ handled[k] = <<>> /\ ~quitFlag[k]
    \/ k = Queue!w /\ queue[k] = <<"MessageBase", "Close">> /\ handled[k] = <<>> /\ ~quitFlag[k]
    \/ k = Queue!w /\ queue[k] = <<"Close">> /\ handled[k] = <<"MessageBase">> /\ ~quitFlag[k]
    \/ Finished(k)

(* What a thread's own position says.                                       *)
ThreadInv(k) ==
    /\ NonePosted(k) \/ OnePosted(k) \/ BothPosted(k)
    /\ ready[k] => thread[k] \in {"loop", "ended"}
    /\ hasQueue[k] <=> thread[k] \in {"signal", "loop"}
    /\ thread[k] = "ended" /\ ready[k] => Finished(k)
    /\ thread[k] = "loop" => ready[k]

Leaving == {"leave", "join", "done"}

(* What Run's position says of the thread it works on, and of both.         *)
CurrentInv(k) ==
    /\ qMain = "start" => ~timedOut /\ NonePosted(k) /\ thread[k] = "none"
    /\ qMain = "waitReady" => ~timedOut /\ NonePosted(k)
    /\ qMain = "postMessage" => ~timedOut /\ NonePosted(k) /\ ready[k]
    /\ qMain = "postQuit" => ~timedOut /\ OnePosted(k) /\ ready[k]

RunInv ==
    /\ qThrown <=> timedOut
    /\ qMain = "aborted" => timedOut
    /\ \A k \in Queue!Thread : k = cur => CurrentInv(k)
    /\ qMain \notin Leaving /\ cur = Queue!t =>
          qMain = "aborted" \/ (NonePosted(Queue!w) /\ thread[Queue!w] = "none")
    /\ qMain \notin Leaving /\ cur = Queue!w =>
          qMain = "aborted" \/ (BothPosted(Queue!t) /\ ready[Queue!t])
    /\ \A k \in Queue!Thread : ~derived[k] => qMain \in Leaving \cup {"aborted"}
    /\ qMain \in Leaving /\ ~timedOut =>
          \A k \in Queue!Thread : BothPosted(k) /\ ready[k]
    /\ qMain \in Leaving /\ ~timedOut /\ cur = Queue!t => thread[Queue!w] = "ended"
    /\ qMain = "done" => cur = Queue!t
    /\ qMain = "done" /\ ~timedOut => thread[Queue!t] = "ended"

QueueInv ==
    /\ Queue!TypeOK
    /\ \A k \in Queue!Thread : ThreadInv(k)
    /\ RunInv

(* What the sequences of these messages are made of.                        *)
Msg == {"MessageBase", "Quit", "Close"}

LEMMA Messages ==
  /\ \A x \in Msg : /\ Append(<<>>, x) = <<x>> /\ Head(<<x>>) = x
                     /\ Tail(<<x>>) = <<>> /\ <<x>> # <<>>
  /\ \A x, y \in Msg : /\ Append(<<x>>, y) = <<x, y>> /\ Head(<<x, y>>) = x
                        /\ Tail(<<x, y>>) = <<y>> /\ <<x, y>> # <<>> /\ <<x, y>> # <<x>>
<1>1. ASSUME NEW x \in Msg
      PROVE  /\ Append(<<>>, x) = <<x>> /\ Head(<<x>>) = x
             /\ Tail(<<x>>) = <<>> /\ <<x>> # <<>>
  <2> <<x>> \in Seq(Msg) /\ <<>> \in Seq(Msg) /\ Append(<<>>, x) \in Seq(Msg)
    OBVIOUS
  <2> QED
    OBVIOUS
<1>2. ASSUME NEW x \in Msg, NEW y \in Msg
      PROVE  /\ Append(<<x>>, y) = <<x, y>> /\ Head(<<x, y>>) = x
             /\ Tail(<<x, y>>) = <<y>> /\ <<x, y>> # <<>> /\ <<x, y>> # <<x>>
  <2>1. <<x>> \in Seq(Msg) /\ <<x, y>> \in Seq(Msg) /\ Append(<<x>>, y) \in Seq(Msg)
    OBVIOUS
  <2>2. Append(<<x>>, y) = <<x, y>>
    <3>1. Len(Append(<<x>>, y)) = 2 /\ Append(<<x>>, y)[1] = x /\ Append(<<x>>, y)[2] = y
      BY <2>1, AppendProperties, Len(<<x>>) = 1
    <3>2. Len(<<x, y>>) = 2 /\ <<x, y>>[1] = x /\ <<x, y>>[2] = y
      OBVIOUS
    <3>3. \A i \in 1 .. 2 : Append(<<x>>, y)[i] = <<x, y>>[i]
      BY <3>1, <3>2
    <3> QED
      BY <2>1, <3>1, <3>2, <3>3, SeqEqual
  <2>3. Head(<<x, y>>) = x
    OBVIOUS
  <2>4. Tail(<<x, y>>) = <<y>>
    <3>1. Tail(<<x, y>>) \in Seq(Msg) /\ Len(Tail(<<x, y>>)) = 1 /\ Tail(<<x, y>>)[1] = y
      BY <2>1, HeadTailProperties
    <3>2. <<y>> \in Seq(Msg) /\ Len(<<y>>) = 1 /\ <<y>>[1] = y
      OBVIOUS
    <3> QED
      BY <3>1, <3>2, SeqEqual
  <2>5. <<x, y>> # <<>> /\ <<x, y>> # <<x>>
    <3> Len(<<x, y>>) = 2 /\ Len(<<x>>) = 1 /\ Len(<<>>) = 0
      OBVIOUS
    <3> QED
      OBVIOUS
  <2> QED
    BY <2>2, <2>3, <2>4, <2>5
<1> QED
  BY <1>1, <1>2

(* Before Run has made its first thread.                                    *)
LEMMA QueueStarts == Queue!Init => QueueInv
<1> SUFFICES ASSUME Queue!Init PROVE QueueInv
  OBVIOUS
<1> USE DEF Queue!Init
<1>1. Queue!TypeOK
  <2> <<>> \in Seq({"MessageBase", "Quit", "Close"}) /\ <<>> \in Seq({"MessageBase", "Close"})
    OBVIOUS
  <2>1. queue \in [Queue!Thread -> Seq({"MessageBase", "Quit", "Close"})]
        /\ handled \in [Queue!Thread -> Seq({"MessageBase", "Close"})]
    OBVIOUS
  <2> QED
    BY <2>1 DEF Queue!TypeOK, Queue!Thread, Queue!t, Queue!w
<1>2. \A k \in Queue!Thread : ThreadInv(k)
  BY DEF ThreadInv, NonePosted
<1>3. RunInv
  BY DEF RunInv, CurrentInv, NonePosted, Leaving, Queue!Thread, Queue!t, Queue!w
<1> QED
  BY <1>1, <1>2, <1>3 DEF QueueInv

(* A step of thread k leaves the other thread's part alone.                 *)
LEMMA ThreadKeeps ==
  ASSUME QueueInv, NEW k \in Queue!Thread, Queue!ThreadStep(k)
  PROVE  QueueInv'
<1> USE DEF QueueInv, Queue!Thread, Queue!t, Queue!w
<1>1. CASE Queue!ThreadCallsRun(k)
  BY <1>1 DEF Queue!ThreadCallsRun, Queue!TypeOK, ThreadInv, RunInv, CurrentInv, NonePosted, OnePosted,
              BothPosted, Finished, Leaving
<1>2. CASE Queue!MakeQueue(k)
  BY <1>2 DEF Queue!MakeQueue, Queue!mainVars, Queue!TypeOK, ThreadInv, RunInv, CurrentInv, NonePosted,
              OnePosted, BothPosted, Finished, Leaving
<1>3. CASE k = Queue!w /\ Queue!SetupFails
  BY <1>3 DEF Queue!SetupFails, Queue!mainVars, Queue!TypeOK, ThreadInv, RunInv, CurrentInv, NonePosted,
              OnePosted, BothPosted, Finished, Leaving
<1>4. CASE Queue!SignalReady(k)
  BY <1>4 DEF Queue!SignalReady, Queue!mainVars, Queue!TypeOK, ThreadInv, RunInv, CurrentInv, NonePosted,
              OnePosted, BothPosted, Finished, Leaving
<1>5. CASE Queue!HandleMessage(k)
  <2> USE DEF Queue!HandleMessage, Queue!mainVars, Queue!WndProc
  <2>1. Queue!TypeOK'
    BY <1>5 DEF Queue!TypeOK
  <2>2. ~NonePosted(k)
    BY <1>5 DEF NonePosted
  <2>a. /\ queue[k] # <<>> /\ Head(queue[k]) # "Quit"
        /\ queue'[k] = Tail(queue[k])
        /\ handled'[k] = Append(handled[k], Head(queue[k]))
    BY <1>5 DEF Queue!TypeOK
  <2>b. quitFlag'[k] <=> quitFlag[k] \/ (k = Queue!w /\ Head(queue[k]) = "Close")
    BY <1>5 DEF Queue!TypeOK
  <2>3. OnePosted(k) => OnePosted(k)'
    BY <2>a, <2>b, Messages DEF OnePosted, Msg
  <2>4. BothPosted(k) => BothPosted(k)' /\ ~Finished(k)
    BY <2>a, <2>b, Messages DEF BothPosted, Finished, Msg
  <2>5. \A j \in Queue!Thread \ {k} :
           /\ NonePosted(j)' <=> NonePosted(j)
           /\ OnePosted(j)' <=> OnePosted(j)
           /\ BothPosted(j)' <=> BothPosted(j)
           /\ Finished(j)' <=> Finished(j)
    BY <1>5 DEF NonePosted, OnePosted, BothPosted, Finished, Queue!TypeOK
  <2>6. UNCHANGED <<thread, ready, hasQueue, qMain, cur, timedOut, qThrown, derived>>
    BY <1>5
  <2>7. \A j \in Queue!Thread : ThreadInv(j)'
    BY <1>5, <2>2, <2>3, <2>4, <2>5, <2>6 DEF ThreadInv
  <2>8. RunInv'
    BY <1>5, <2>2, <2>3, <2>4, <2>5, <2>6 DEF RunInv, CurrentInv, Leaving
  <2> QED
    BY <2>1, <2>7, <2>8
<1>6. CASE Queue!Quits(k)
  <2>1. Finished(k)
    BY <1>6, Messages DEF Queue!Quits, ThreadInv, NonePosted, OnePosted, BothPosted, Finished
  <2>2. \A j \in Queue!Thread :
           /\ NonePosted(j)' <=> NonePosted(j)
           /\ OnePosted(j)' <=> OnePosted(j)
           /\ BothPosted(j)' <=> BothPosted(j)
           /\ Finished(j)' <=> Finished(j)
    BY <1>6 DEF Queue!Quits, NonePosted, OnePosted, BothPosted, Finished
  <2>3. Queue!TypeOK'
    BY <1>6 DEF Queue!Quits, Queue!Ends, Queue!mainVars, Queue!TypeOK
  <2>4. /\ UNCHANGED <<ready, qMain, cur, timedOut, qThrown, derived>>
        /\ thread[k] = "loop" /\ thread' = [thread EXCEPT ![k] = "ended"]
        /\ hasQueue' = [hasQueue EXCEPT ![k] = FALSE]
    BY <1>6 DEF Queue!Quits, Queue!Ends, Queue!mainVars
  <2>5. \A j \in Queue!Thread : ThreadInv(j)'
    BY <2>1, <2>2, <2>4 DEF ThreadInv, Queue!TypeOK
  <2>6. RunInv'
    BY <2>1, <2>2, <2>4 DEF RunInv, CurrentInv, Leaving, Queue!TypeOK
  <2> QED
    BY <2>3, <2>5, <2>6
<1> QED
  BY <1>1, <1>2, <1>3, <1>4, <1>5, <1>6 DEF Queue!ThreadStep

(* Posting reaches a queue, because the wait for m_ready came first.        *)
LEMMA RunReachesAQueue ==
  ASSUME QueueInv, qMain \in {"postMessage", "postQuit"}
  PROVE  hasQueue[cur] /\ thread[cur] = "loop"
<1>1. cur \in Queue!Thread
  BY DEF QueueInv, Queue!TypeOK
<1>2. ready[cur] /\ (NonePosted(cur) \/ OnePosted(cur))
  BY <1>1 DEF QueueInv, RunInv, CurrentInv
<1>3. ~Finished(cur)
  BY <1>2, Messages DEF NonePosted, OnePosted, Finished, Msg
<1> QED
  BY <1>1, <1>2, <1>3 DEF QueueInv, ThreadInv

(* Every step of Run keeps the invariant.                                   *)
LEMMA RunKeeps ==
  ASSUME QueueInv, Queue!Run
  PROVE  QueueInv'
<1> USE DEF QueueInv, Queue!Thread, Queue!t, Queue!w
<1>1. ASSUME UNCHANGED <<queue, handled, quitFlag>>
      PROVE  \A j \in Queue!Thread :
                /\ NonePosted(j)' <=> NonePosted(j)
                /\ OnePosted(j)' <=> OnePosted(j)
                /\ BothPosted(j)' <=> BothPosted(j)
                /\ Finished(j)' <=> Finished(j)
  BY <1>1 DEF NonePosted, OnePosted, BothPosted, Finished
<1>2. CASE Queue!Start \/ Queue!WaitOnReady \/ Queue!DestroyDerived \/ Queue!Join
  <2>1. UNCHANGED <<queue, handled, quitFlag>>
    BY <1>2 DEF Queue!Start, Queue!WaitOnReady, Queue!DestroyDerived, Queue!Join,
                Queue!threadVars
  <2>2. CASE Queue!Start
    BY <1>1, <2>1, <2>2 DEF Queue!Start, Queue!TypeOK, ThreadInv, RunInv, CurrentInv, Leaving
  <2>3. CASE Queue!WaitOnReady
    <3> USE DEF Queue!WaitOnReady, Queue!threadVars
    <3>1. Queue!TypeOK' /\ \A k \in Queue!Thread : ThreadInv(k)'
      BY <1>1, <2>1, <2>3 DEF Queue!TypeOK, ThreadInv
    <3>2. CASE ready[cur]
      BY <1>1, <2>1, <2>3, <3>1, <3>2 DEF Queue!TypeOK, RunInv, CurrentInv, Leaving
    <3>3. CASE ~ready[cur]
      BY <1>1, <2>1, <2>3, <3>1, <3>3 DEF Queue!TypeOK, RunInv, CurrentInv, Leaving
    <3> QED
      BY <3>2, <3>3
  <2>4. CASE Queue!DestroyDerived
    BY <1>1, <2>1, <2>4
       DEF Queue!DestroyDerived, Queue!threadVars, Queue!TypeOK, ThreadInv, RunInv, CurrentInv, Leaving
  <2>5. CASE Queue!Join
    BY <1>1, <2>1, <2>5
       DEF Queue!Join, Queue!threadVars, Queue!TypeOK, ThreadInv, RunInv, CurrentInv, Leaving
  <2> QED
    BY <1>2, <2>2, <2>3, <2>4, <2>5
<1>3. ASSUME NEW m \in Msg, queue' = [queue EXCEPT ![cur] = Append(@, m)],
             UNCHANGED <<thread, hasQueue, ready, quitFlag, handled, qThrown, timedOut, derived>>
      PROVE  /\ queue' \in [Queue!Thread -> Seq({"MessageBase", "Quit", "Close"})]
             /\ queue'[cur] = Append(queue[cur], m)
             /\ \A j \in Queue!Thread :
                   j # cur => /\ NonePosted(j)' <=> NonePosted(j)
                              /\ OnePosted(j)' <=> OnePosted(j)
                              /\ BothPosted(j)' <=> BothPosted(j)
                              /\ Finished(j)' <=> Finished(j)
  <2>1. cur \in Queue!Thread /\ queue[cur] \in Seq(Msg)
    BY DEF Queue!TypeOK, Msg
  <2>2. Append(queue[cur], m) \in Seq(Msg)
    BY <2>1, AppendProperties
  <2>3. queue' \in [Queue!Thread -> Seq(Msg)]
    BY <1>3, <2>1, <2>2 DEF Queue!TypeOK, Msg
  <2> QED
    BY <1>3, <2>3 DEF Queue!TypeOK, Msg, NonePosted, OnePosted, BothPosted, Finished
<1>4. CASE Queue!PostMessage
  <2>1. /\ qMain = "postMessage" /\ qMain' = "postQuit" /\ cur' = cur
        /\ queue' = [queue EXCEPT ![cur] = Append(@, "MessageBase")]
        /\ UNCHANGED <<thread, hasQueue, ready, quitFlag, handled, qThrown, timedOut, derived>>
    BY <1>4, RunReachesAQueue DEF Queue!PostMessage, Queue!Post
  <2>2. \A j \in Queue!Thread : j = cur => OnePosted(j)'
    BY <1>3, <2>1, Messages DEF RunInv, CurrentInv, NonePosted, OnePosted, Msg
  <2>3. Queue!TypeOK'
    BY <1>3, <2>1 DEF Queue!TypeOK, Msg
  <2>4. \A j \in Queue!Thread : ThreadInv(j)'
    BY <1>3, <2>1, <2>2, RunReachesAQueue DEF ThreadInv, Msg
  <2>5. RunInv'
    BY <1>3, <2>1, <2>2 DEF RunInv, CurrentInv, Leaving, Msg
  <2> QED
    BY <2>3, <2>4, <2>5
<1>5. CASE Queue!PostQuit
  <2> DEFINE m == IF cur = Queue!t THEN "Quit" ELSE "Close"
  <2>1. /\ qMain = "postQuit" /\ m \in Msg
        /\ IF cur = Queue!t THEN qMain' = "start" /\ cur' = Queue!w
                            ELSE qMain' = "leave" /\ cur' = cur
        /\ queue' = [queue EXCEPT ![cur] = Append(@, m)]
        /\ UNCHANGED <<thread, hasQueue, ready, quitFlag, handled, qThrown, timedOut, derived>>
    BY <1>5, RunReachesAQueue DEF Queue!PostQuit, Queue!Post, Msg
  <2>2. \A j \in Queue!Thread : j = cur => BothPosted(j)'
    <3>1. OnePosted(cur) /\ cur \in Queue!Thread
      BY <2>1 DEF RunInv, CurrentInv, Queue!TypeOK
    <3>2. queue'[cur] = Append(queue[cur], m)
      BY <1>3, <2>1
    <3>3. ~quitFlag'[cur] /\ handled'[cur] = handled[cur]
      BY <2>1, <3>1 DEF OnePosted
    <3>4. CASE cur = Queue!t
      BY <2>1, <3>1, <3>2, <3>3, <3>4, Messages DEF OnePosted, BothPosted, Finished, Msg
    <3>5. CASE cur = Queue!w
      <4>1. m = "Close" /\ m \in Msg /\ "MessageBase" \in Msg
        BY <3>5 DEF Msg
      <4>2. \/ queue'[cur] = <<"MessageBase", "Close">> /\ handled'[cur] = <<>>
            \/ queue'[cur] = <<"Close">> /\ handled'[cur] = <<"MessageBase">>
        <5>1. queue'[cur] = Append(queue[cur], "Close")
          BY <3>2, <4>1
        <5>2. /\ Append(<<>>, "Close") = <<"Close">>
              /\ Append(<<"MessageBase">>, "Close") = <<"MessageBase", "Close">>
          BY Messages DEF Msg
        <5>3. \/ queue[cur] = <<"MessageBase">> /\ handled[cur] = <<>>
              \/ queue[cur] = <<>> /\ handled[cur] = <<"MessageBase">>
          BY <3>1 DEF OnePosted
        <5> QED
          BY <3>3, <5>1, <5>2, <5>3
      <4> QED
        BY <3>3, <3>5, <4>2 DEF BothPosted
    <3> QED
      BY <3>1, <3>4, <3>5
  <2>3. Queue!TypeOK'
    BY <1>3, <2>1 DEF Queue!TypeOK
  <2>4. \A j \in Queue!Thread : ThreadInv(j)'
    BY <1>3, <2>1, <2>2, RunReachesAQueue DEF ThreadInv
  <2>5. RunInv'
    <3>1. /\ cur \in Queue!Thread /\ ~timedOut /\ ready[cur]
          /\ \A j \in Queue!Thread :
                j # cur => /\ NonePosted(j)' <=> NonePosted(j)
                           /\ BothPosted(j)' <=> BothPosted(j)
      BY <1>3, <2>1 DEF RunInv, CurrentInv, Queue!TypeOK
    <3>2. CASE cur = Queue!t
      <4>1. NonePosted(Queue!w)' /\ thread[Queue!w] = "none" /\ BothPosted(Queue!t)'
        BY <2>1, <2>2, <3>1, <3>2 DEF RunInv, Leaving
      <4>2. qMain' = "start" /\ cur' = Queue!w
        BY <2>1, <3>2
      <4> QED
        BY <2>1, <3>1, <3>2, <4>1, <4>2 DEF RunInv, CurrentInv, Leaving
    <3>3. CASE cur = Queue!w
      <4>1. BothPosted(Queue!w)' /\ BothPosted(Queue!t)' /\ ready[Queue!t]
        BY <2>1, <2>2, <3>1, <3>3 DEF RunInv, Leaving
      <4>2. qMain' = "leave" /\ cur' = cur
        BY <2>1, <3>3
      <4> QED
        BY <2>1, <3>1, <3>3, <4>1, <4>2 DEF RunInv, CurrentInv, Leaving
    <3> QED
      BY <3>1, <3>2, <3>3
  <2> QED
    BY <2>3, <2>4, <2>5
<1> QED
  BY <1>2, <1>4, <1>5 DEF Queue!Run

(* Every step of the program does.                                          *)
LEMMA QueueStep ==
  ASSUME QueueInv, [Queue!Next]_queueVars
  PROVE  QueueInv'
<1>1. CASE UNCHANGED queueVars
  BY <1>1 DEF queueVars, QueueInv, Queue!TypeOK, ThreadInv, RunInv, CurrentInv, NonePosted,
              OnePosted, BothPosted, Finished, Leaving
<1> QED
  BY <1>1, RunKeeps, ThreadKeeps DEF Queue!Next

(* What the invariant says of the three properties.                         *)
LEMMA QueueCorrect ==
  QueueInv => Queue!PostsReachAQueue /\ Queue!DestroyedAfterRun /\ Queue!MessagesBeforeQuit
<1> SUFFICES ASSUME QueueInv
             PROVE  Queue!PostsReachAQueue /\ Queue!DestroyedAfterRun /\ Queue!MessagesBeforeQuit
  OBVIOUS
<1>1. Queue!PostsReachAQueue
  BY RunReachesAQueue DEF Queue!PostsReachAQueue, QueueInv, RunInv
<1>2. Queue!DestroyedAfterRun
  BY DEF Queue!DestroyedAfterRun, QueueInv, ThreadInv, RunInv, Leaving, Queue!TypeOK
<1>3. Queue!MessagesBeforeQuit
  BY DEF Queue!MessagesBeforeQuit, QueueInv, ThreadInv, RunInv, Leaving, Finished,
         Queue!Thread, Queue!t, Queue!w
<1> QED
  BY <1>1, <1>2, <1>3

-----------------------------------------------------------------------------
(* WaitableTimers.  The functions are the numbers in the order they were    *)
(* scheduled, so that what ran, what is queued and what is allocated are    *)
(* told by how many they are.                                               *)
Consecutive(q, a) ==
    /\ q \in Seq(Nat)
    /\ \A i \in 1 .. Len(q) : q[i] = a + i

JobsInv ==
    /\ Consecutive(scheduled, 0) /\ Len(scheduled) <= Ticks
    /\ Consecutive(ran, 0)
    /\ Consecutive(apcs, Len(ran))
    /\ Len(ran) + Len(apcs) <= Len(scheduled)
    /\ worker # "ended" => Len(ran) + Len(apcs) = Len(scheduled)
    /\ heap = Len(ran) + 1 .. Len(scheduled)

Before == {"createTimer", "construct"}
After  == {"join", "destroy", "joinAgain", "closeExit", "joinMember", "returned"}

(* What the position of Run says of the worker and its event.               *)
WorkerInv ==
    /\ main \in Before \cup {"start", "setTimer", "wait", "signal"} \cup After
    /\ worker \in {"none", "wait", "ended"}
    /\ thrown \in BOOLEAN /\ tick \in BOOLEAN /\ m_exit \in BOOLEAN /\ overtaken \in BOOLEAN
    /\ built \subseteq {"timer", "m_exit", "m_thread", "period"}
    /\ main \in Before => worker = "none" /\ "m_exit" \notin built
    /\ main = "start" => worker = "none"
    /\ main \in {"setTimer", "wait", "signal", "join"} => worker # "none"
    /\ main \notin Before \cup {"joinMember", "returned"} => "m_exit" \in built
    /\ main \in {"closeExit", "joinMember", "returned"} => worker # "wait"
    /\ worker = "none" => scheduled = <<>>
    /\ m_exit => main \in After
    /\ worker = "ended" /\ ~overtaken => Len(ran) = Len(scheduled) /\ main \in After

ApcInv == JobsInv /\ WorkerInv

(* The elements of such a sequence.                                         *)
LEMMA ConsecutiveSet ==
  ASSUME NEW q, NEW a \in Nat, Consecutive(q, a)
  PROVE  Apc!ToSet(q) = a + 1 .. a + Len(q)
<1>1. Apc!ToSet(q) = {q[i] : i \in 1 .. Len(q)}
  BY DEF Apc!ToSet, Consecutive
<1>2. Len(q) \in Nat
  BY DEF Consecutive
<1>3. \A i \in 1 .. Len(q) : q[i] = a + i
  BY DEF Consecutive
<1>4. ASSUME NEW i \in 1 .. Len(q) PROVE q[i] \in a + 1 .. a + Len(q)
  BY <1>2, <1>3
<1>5. ASSUME NEW x \in a + 1 .. a + Len(q) PROVE \E i \in 1 .. Len(q) : x = q[i]
  <2>1. x - a \in 1 .. Len(q) /\ x = a + (x - a)
    BY <1>2
  <2> QED
    BY <1>3, <2>1
<1> QED
  BY <1>1, <1>4, <1>5

(* Queueing the next function.                                              *)
LEMMA ConsecutiveAppend ==
  ASSUME NEW q, NEW a \in Nat, Consecutive(q, a)
  PROVE  /\ Consecutive(Append(q, a + Len(q) + 1), a)
         /\ Len(Append(q, a + Len(q) + 1)) = Len(q) + 1
<1>1. q \in Seq(Nat) /\ Len(q) \in Nat /\ a + Len(q) + 1 \in Nat
  BY DEF Consecutive
<1> DEFINE r == Append(q, a + Len(q) + 1)
<1>2. /\ r \in Seq(Nat) /\ Len(r) = Len(q) + 1
      /\ \A i \in 1 .. Len(q) : r[i] = q[i]
      /\ r[Len(q) + 1] = a + Len(q) + 1
  BY <1>1, AppendProperties
<1>3. \A i \in 1 .. Len(r) : r[i] = a + i
  BY <1>1, <1>2 DEF Consecutive
<1> QED
  BY <1>2, <1>3 DEF Consecutive

(* Running everything that is queued.                                       *)
LEMMA ConsecutiveConcat ==
  ASSUME NEW q, NEW r, Consecutive(q, 0), Consecutive(r, Len(q))
  PROVE  Consecutive(q \o r, 0) /\ Len(q \o r) = Len(q) + Len(r)
<1>1. q \in Seq(Nat) /\ r \in Seq(Nat) /\ Len(q) \in Nat /\ Len(r) \in Nat
  BY DEF Consecutive
<1>2. /\ q \o r \in Seq(Nat) /\ Len(q \o r) = Len(q) + Len(r)
      /\ \A i \in 1 .. Len(q) + Len(r) :
            (q \o r)[i] = IF i <= Len(q) THEN q[i] ELSE r[i - Len(q)]
  BY <1>1, ConcatProperties
<1>3. \A i \in 1 .. Len(q) : q[i] = i
  BY <1>1 DEF Consecutive
<1>4. \A i \in 1 .. Len(r) : r[i] = Len(q) + i
  BY DEF Consecutive
<1>5. ASSUME NEW i \in 1 .. Len(q) + Len(r) PROVE (q \o r)[i] = 0 + i
  <2>1. CASE i <= Len(q)
    BY <1>1, <1>2, <1>3, <2>1
  <2>2. CASE ~(i <= Len(q))
    <3>1. i - Len(q) \in 1 .. Len(r) /\ Len(q) + (i - Len(q)) = i
      BY <1>1, <2>2
    <3> QED
      BY <1>1, <1>2, <1>4, <2>2, <3>1
  <2> QED
    BY <2>1, <2>2
<1> QED
  BY <1>2, <1>5 DEF Consecutive

(* Before anything was made.                                                *)
LEMMA ApcStarts == ConstantsAssumption /\ Apc!Init => ApcInv
<1> SUFFICES ASSUME ConstantsAssumption, Apc!Init PROVE ApcInv
  OBVIOUS
<1>1. Ticks \in Nat
  BY DEF ConstantsAssumption, Apc!TicksAssumption
<1>2. JobsInv
  <2>1. <<>> \in Seq(Nat) /\ Len(<<>>) = 0 /\ 0 + 1 .. 0 = {}
    OBVIOUS
  <2>2. \A a : Consecutive(<<>>, a)
    BY <2>1 DEF Consecutive
  <2>3. scheduled = <<>> /\ ran = <<>> /\ apcs = <<>> /\ heap = {}
    BY DEF Apc!Init
  <2> QED
    BY <1>1, <2>1, <2>2, <2>3 DEF JobsInv
<1>3. WorkerInv
  BY DEF Apc!Init, WorkerInv, Before, After
<1> QED
  BY <1>2, <1>3 DEF ApcInv

(* A step that leaves the functions alone.                                  *)
LEMMA JobsKept ==
  ASSUME JobsInv, UNCHANGED <<scheduled, apcs, heap, ran>>, worker' = "ended" \/ worker # "ended"
  PROVE  JobsInv'
BY DEF JobsInv, Consecutive

(* Schedule, called in the loop with the worker's thread started.           *)
LEMMA ScheduleKeeps ==
  ASSUME ConstantsAssumption, JobsInv, Len(scheduled) < Ticks,
         Apc!Schedule(Len(scheduled) + 1), UNCHANGED <<ran, worker>>
  PROVE  JobsInv' /\ (worker = "ended" => apcs' = apcs)
<1>1. /\ Ticks \in Nat /\ Len(scheduled) \in Nat /\ Len(ran) \in Nat /\ Len(apcs) \in Nat
      /\ Consecutive(scheduled, 0) /\ Consecutive(apcs, Len(ran)) /\ Consecutive(ran, 0)
      /\ Len(ran) + Len(apcs) <= Len(scheduled)
      /\ heap = Len(ran) + 1 .. Len(scheduled)
  BY DEF ConstantsAssumption, Apc!TicksAssumption, JobsInv, Consecutive
<1>2. Consecutive(scheduled', 0) /\ Len(scheduled') = Len(scheduled) + 1
  BY <1>1, ConsecutiveAppend, 0 + Len(scheduled) + 1 = Len(scheduled) + 1 DEF Apc!Schedule
<1>3. Consecutive(ran', 0) /\ Len(ran') = Len(ran)
  BY <1>1 DEF Consecutive
<1>4. heap' = Len(ran') + 1 .. Len(scheduled')
  <2>1. heap' = heap \cup {Len(scheduled) + 1}
    BY DEF Apc!Schedule
  <2> QED
    BY <1>1, <1>2, <1>3, <2>1
<1>5. CASE worker = "ended"
  <2>1. apcs' = apcs
    BY <1>5 DEF Apc!Schedule
  <2>2. Consecutive(apcs', Len(ran'))
    BY <1>1, <2>1 DEF Consecutive
  <2> QED
    BY <1>1, <1>2, <1>3, <1>4, <1>5, <2>1, <2>2 DEF JobsInv
<1>6. CASE worker # "ended"
  <2>1. Len(ran) + Len(apcs) = Len(scheduled) /\ apcs' = Append(apcs, Len(scheduled) + 1)
    BY <1>6 DEF Apc!Schedule, JobsInv
  <2>2. apcs' = Append(apcs, Len(ran) + Len(apcs) + 1)
    BY <2>1
  <2>3. Consecutive(apcs', Len(ran)) /\ Len(apcs') = Len(apcs) + 1
    BY <1>1, <2>2, ConsecutiveAppend
  <2>4. Consecutive(apcs', Len(ran'))
    BY <2>3 DEF Consecutive
  <2> QED
    BY <1>1, <1>2, <1>3, <1>4, <1>6, <2>1, <2>3, <2>4 DEF JobsInv
<1> QED
  BY <1>5, <1>6

(* The worker runs what is queued.                                          *)
LEMMA RunApcsKeeps ==
  ASSUME JobsInv, Apc!RunApcs
  PROVE  JobsInv' /\ apcs' = <<>>
<1>1. /\ Len(scheduled) \in Nat /\ Len(ran) \in Nat /\ Len(apcs) \in Nat
      /\ Consecutive(scheduled, 0) /\ Consecutive(apcs, Len(ran)) /\ Consecutive(ran, 0)
      /\ Len(ran) + Len(apcs) = Len(scheduled)
      /\ heap = Len(ran) + 1 .. Len(scheduled)
  BY DEF Apc!RunApcs, JobsInv, Consecutive
<1>2. /\ ran' = ran \o apcs /\ apcs' = <<>> /\ heap' = heap \ Apc!ToSet(apcs)
      /\ UNCHANGED <<scheduled, worker>>
  BY DEF Apc!RunApcs
<1>3. Consecutive(ran', 0) /\ Len(ran') = Len(ran) + Len(apcs)
  BY <1>1, <1>2, ConsecutiveConcat
<1>4. Consecutive(apcs', Len(ran')) /\ Len(apcs') = 0
  BY <1>2 DEF Consecutive
<1>5. Apc!ToSet(apcs) = Len(ran) + 1 .. Len(ran) + Len(apcs)
  BY <1>1, ConsecutiveSet
<1>6. heap' = {}
  BY <1>1, <1>2, <1>5
<1>7. heap' = Len(ran') + 1 .. Len(scheduled')
  BY <1>1, <1>2, <1>3, <1>6
<1>8. Consecutive(scheduled', 0) /\ Len(scheduled') = Len(scheduled) /\ Len(scheduled) <= Ticks
  BY <1>1, <1>2 DEF Consecutive, JobsInv
<1> QED
  BY <1>1, <1>2, <1>3, <1>4, <1>7, <1>8 DEF JobsInv

(* Every step of the program keeps the invariant.                           *)
LEMMA ApcStep ==
  ASSUME ConstantsAssumption, ApcInv, [Apc!Next]_apcVars
  PROVE  ApcInv'
<1> USE DEF ApcInv
<1>1. CASE Apc!SetUp
  <2>1. JobsInv'
    BY <1>1, JobsKept DEF Apc!SetUp, WorkerInv
  <2>2. WorkerInv'
    <3> USE DEF WorkerInv, Before, After
    <3>1. /\ main \in {"createTimer", "construct", "start", "setTimer"}
          /\ UNCHANGED <<tick, scheduled, apcs, heap, m_exit, ran, overtaken>>
      BY <1>1 DEF Apc!SetUp, Apc!Setup
    <3>2. CASE /\ thrown' = TRUE /\ worker' = worker
               /\ IF "m_exit" \in built THEN main' = "destroy" /\ built' = built
                                       ELSE main' = "returned" /\ built' = {}
      BY <3>1, <3>2
    <3>3. CASE thrown' = thrown /\ main = "createTimer" /\ main' = "construct"
               /\ built' = built \cup {"timer"} /\ worker' = worker
      BY <3>1, <3>3
    <3>4. CASE thrown' = thrown /\ main = "construct" /\ main' = "start"
               /\ built' = built \cup {"m_exit"} /\ worker' = worker
      BY <3>1, <3>4
    <3>5. CASE thrown' = thrown /\ main = "start" /\ main' = "setTimer"
               /\ built' = built \cup {"m_thread"} /\ worker' = "wait"
      BY <3>1, <3>5
    <3>6. CASE thrown' = thrown /\ main = "setTimer" /\ main' = "wait"
               /\ built' = built \cup {"period"} /\ worker' = worker
      BY <3>1, <3>6
    <3> QED
      <4>1. \/ thrown' = thrown /\ built' = built \cup {Apc!Setup[main].makes}
               /\ main' = Apc!Setup[main].next
               /\ worker' = IF main = "start" THEN "wait" ELSE worker
            \/ /\ thrown' = TRUE /\ worker' = worker
               /\ IF "m_exit" \in built THEN main' = "destroy" /\ built' = built
                                       ELSE main' = "returned" /\ built' = {}
        BY <1>1 DEF Apc!SetUp
      <4>2. /\ main = "createTimer" => /\ Apc!Setup[main].makes = "timer"
                                       /\ Apc!Setup[main].next = "construct"
            /\ main = "construct" => /\ Apc!Setup[main].makes = "m_exit"
                                     /\ Apc!Setup[main].next = "start"
            /\ main = "start" => /\ Apc!Setup[main].makes = "m_thread"
                                 /\ Apc!Setup[main].next = "setTimer"
            /\ main = "setTimer" => /\ Apc!Setup[main].makes = "period"
                                    /\ Apc!Setup[main].next = "wait"
        BY DEF Apc!Setup
      <4> QED
        BY <3>1, <3>2, <3>3, <3>4, <3>5, <3>6, <4>1, <4>2
  <2> QED
    BY <2>1, <2>2
<1>2. CASE Apc!WaitTimer
  <2>1. UNCHANGED <<built, m_exit, worker, ran, overtaken>> /\ main = "wait"
    BY <1>2 DEF Apc!WaitTimer
  <2>2. CASE tick /\ Len(scheduled) < Ticks /\ tick' = FALSE /\ Apc!Schedule(Len(scheduled) + 1)
             /\ UNCHANGED <<main, thrown>>
    BY <2>1, <2>2, ScheduleKeeps DEF WorkerInv, Before, After
  <2>3. CASE /\ \/ main' = "destroy" /\ thrown' = TRUE
                \/ main' = "signal" /\ UNCHANGED thrown
             /\ UNCHANGED <<tick, scheduled, heap, apcs>>
    BY <2>1, <2>3, JobsKept DEF WorkerInv, Before, After
  <2> QED
    BY <1>2, <2>2, <2>3 DEF Apc!WaitTimer
<1>3. CASE Apc!SignalToExit
  BY <1>3, JobsKept DEF Apc!SignalToExit, WorkerInv, Before, After
<1>4. CASE Apc!Join
  BY <1>4, JobsKept DEF Apc!Join, WorkerInv, Before, After
<1>5. CASE Apc!DestroyMembers
  BY <1>5, JobsKept DEF Apc!DestroyMembers, WorkerInv, Before, After
<1>6. CASE Apc!TimerTicks
  BY <1>6, JobsKept DEF Apc!TimerTicks, WorkerInv, Before, After
<1>7. CASE Apc!RunApcs
  <2>1. WorkerInv'
    BY <1>7 DEF Apc!RunApcs, WorkerInv
  <2> QED
    BY <1>7, <2>1, RunApcsKeeps
<1>8. CASE Apc!WorkerLeaves
  <2>1. /\ worker = "wait" /\ worker' = "ended" /\ overtaken' = (apcs # <<>> \/ ~m_exit)
        /\ m_exit' \in BOOLEAN /\ (m_exit' => m_exit)
        /\ UNCHANGED <<main, thrown, built, tick, scheduled, apcs, heap, ran>>
    <3>1. m_exit \in BOOLEAN
      BY DEF WorkerInv
    <3>2. worker = "wait" /\ worker' = "ended" /\ overtaken' = (apcs # <<>> \/ ~m_exit)
      BY <1>8 DEF Apc!WorkerLeaves
    <3>3. UNCHANGED <<main, thrown, built, tick, scheduled, apcs, heap, ran>>
      BY <1>8 DEF Apc!WorkerLeaves
    <3>4. (m_exit /\ m_exit' = FALSE) \/ m_exit' = m_exit
      BY <1>8, Zenon DEF Apc!WorkerLeaves
    <3>5. m_exit' \in BOOLEAN
      BY <3>1, <3>4
    <3>6. m_exit' => m_exit
      BY <3>1, <3>4
    <3> QED
      BY <3>2, <3>3, <3>5, <3>6, Zenon
  <2>2. JobsInv'
    BY <2>1, JobsKept
  <2>3. ~overtaken' => Len(ran) = Len(scheduled) /\ m_exit
    <3>1. Len(ran) + Len(apcs) = Len(scheduled) /\ Len(ran) \in Nat
      BY <2>1 DEF JobsInv, Consecutive
    <3>2. ~overtaken' => apcs = <<>> /\ m_exit
      BY <2>1
    <3> QED
      BY <3>1, <3>2, Len(<<>>) = 0
  <2>4. WorkerInv'
    BY <2>1, <2>3 DEF WorkerInv, Before, After
  <2> QED
    BY <2>2, <2>4
<1>9. CASE UNCHANGED apcVars
  BY <1>9, JobsKept DEF apcVars, WorkerInv
<1> QED
  BY <1>1, <1>2, <1>3, <1>4, <1>5, <1>6, <1>7, <1>8, <1>9 DEF Apc!Next, Apc!Run, Apc!Worker

(* What the invariant says of the three properties.                         *)
LEMMA ApcCorrect ==
  ApcInv => Apc!ExitOutlivesWorker /\ Apc!RunInOrder /\ Apc!DeletedWhenRun
<1> SUFFICES ASSUME ApcInv
             PROVE  Apc!ExitOutlivesWorker /\ Apc!RunInOrder /\ Apc!DeletedWhenRun
  OBVIOUS
<1>1. /\ Len(scheduled) \in Nat /\ Len(ran) \in Nat /\ Len(apcs) \in Nat
      /\ Consecutive(scheduled, 0) /\ Consecutive(apcs, Len(ran)) /\ Consecutive(ran, 0)
      /\ Len(ran) + Len(apcs) <= Len(scheduled)
      /\ heap = Len(ran) + 1 .. Len(scheduled)
  BY DEF ApcInv, JobsInv, Consecutive
<1>2. Apc!ExitOutlivesWorker
  BY DEF Apc!ExitOutlivesWorker, ApcInv, WorkerInv, Before
<1>3. Apc!RunInOrder
  <2>1. scheduled \in Seq(Nat) /\ ran \in Seq(Nat) /\ Len(ran) <= Len(scheduled)
    BY <1>1 DEF Consecutive
  <2>2. \A i \in 1 .. Len(ran) : ran[i] = scheduled[i]
    BY <1>1 DEF Consecutive
  <2>3. ASSUME NEW q \in Seq(Nat), Len(ran) <= Len(q)
        PROVE  /\ SubSeq(q, 1, Len(ran)) \in Seq(Nat) /\ Len(SubSeq(q, 1, Len(ran))) = Len(ran)
               /\ \A i \in 1 .. Len(ran) : SubSeq(q, 1, Len(ran))[i] = q[i]
    <3>1. Len(ran) \in Int /\ 1 \in Int /\ \A i \in 1 .. Len(ran) : q[i] \in Nat
      BY <1>1, <2>3, ElementOfSeq
    <3>2. /\ SubSeq(q, 1, Len(ran)) \in Seq(Nat)
          /\ Len(SubSeq(q, 1, Len(ran))) = IF 1 <= Len(ran) THEN Len(ran) - 1 + 1 ELSE 0
          /\ \A i \in 1 .. Len(ran) - 1 + 1 : SubSeq(q, 1, Len(ran))[i] = q[1 + i - 1]
      BY <3>1, SubSeqProperties
    <3> QED
      BY <1>1, <3>2
  <2>4. SubSeq(ran, 1, Len(ran)) = SubSeq(scheduled, 1, Len(ran))
    BY <1>1, <2>1, <2>2, <2>3, SeqEqual
  <2> QED
    BY <2>1, <2>4 DEF Apc!RunInOrder, Apc!IsPrefix
<1>4. Apc!DeletedWhenRun
  <2>1. Apc!ToSet(scheduled) = 1 .. Len(scheduled) /\ Apc!ToSet(ran) = 1 .. Len(ran)
    <3>1. Apc!ToSet(scheduled) = 0 + 1 .. 0 + Len(scheduled) /\ Apc!ToSet(ran) = 0 + 1 .. 0 + Len(ran)
      BY <1>1, ConsecutiveSet
    <3> QED
      BY <1>1, <3>1
  <2>2. heap = Apc!ToSet(scheduled) \ Apc!ToSet(ran)
    BY <1>1, <2>1
  <2>3. ASSUME main = "returned", ~overtaken PROVE heap = {}
    <3>1. CASE worker = "none"
      <4>1. Len(scheduled) = 0
        BY <3>1 DEF ApcInv, WorkerInv
      <4> QED
        BY <1>1, <4>1
    <3>2. CASE worker = "ended"
      BY <1>1, <2>3, <3>2 DEF ApcInv, WorkerInv, JobsInv
    <3> QED
      BY <2>3, <3>1, <3>2 DEF ApcInv, WorkerInv
  <2> QED
    BY <2>2, <2>3 DEF Apc!DeletedWhenRun
<1> QED
  BY <1>2, <1>3, <1>4

LEMMA SeqOf ==
  ASSUME NEW S, NEW q \in Seq(Nat), \A i \in 1 .. Len(q) : q[i] \in S
  PROVE  q \in Seq(S)
<1>1. Len(q) \in Nat /\ q \in [1 .. Len(q) -> Nat]
  OBVIOUS
<1>2. q \in [1 .. Len(q) -> S]
  BY <1>1
<1> QED
  BY <1>1, <1>2, SeqDef

(* What Run and the worker hold between them has its types.                 *)
LEMMA ApcTyped ==
  ASSUME Apc!TicksAssumption, ApcInv
  PROVE  Apc!TypeOK
<1>1. Ticks \in Nat /\ JobsInv /\ WorkerInv
  BY DEF Apc!TicksAssumption, ApcInv
<1>2. /\ Len(scheduled) \in Nat /\ Len(ran) \in Nat /\ Len(apcs) \in Nat
      /\ Len(ran) <= Ticks /\ Len(scheduled) <= Ticks
  BY <1>1 DEF JobsInv, Consecutive
<1>3. scheduled \in Seq(Apc!Job)
  <2>1. \A i \in 1 .. Len(scheduled) : scheduled[i] \in Apc!Job
    BY <1>1, <1>2 DEF JobsInv, Consecutive, Apc!Job
  <2> QED
    BY <1>1, <2>1, SeqOf DEF JobsInv, Consecutive
<1>4. ran \in Seq(Apc!Job)
  <2>1. \A i \in 1 .. Len(ran) : ran[i] \in Apc!Job
    BY <1>1, <1>2 DEF JobsInv, Consecutive, Apc!Job
  <2> QED
    BY <1>1, <2>1, SeqOf DEF JobsInv, Consecutive
<1>5. Apc!ToSet(apcs) \subseteq heap /\ heap \subseteq Apc!Job
  <2>1. Apc!ToSet(apcs) = Len(ran) + 1 .. Len(ran) + Len(apcs)
    BY <1>1, <1>2, ConsecutiveSet DEF JobsInv
  <2> QED
    BY <1>1, <1>2, <2>1 DEF JobsInv, Apc!Job
<1>6. main \in DOMAIN Apc!Setup \cup {"wait", "signal", "join", "destroy", "joinAgain",
                                     "closeExit", "joinMember", "returned"}
  BY <1>1 DEF WorkerInv, Apc!Setup, Before, After
<1> QED
  BY <1>1, <1>3, <1>4, <1>5, <1>6 DEF WorkerInv, Apc!TypeOK

-----------------------------------------------------------------------------
(* Win32Service.  SvcMain's report of Running is what lets controls in:     *)
(* until it is handed over, the handler does not run.                       *)
Early ==
    \/ svcMain \in {"register", "createEvent", "failed", "returned"}
    \/ svcMain = "query" /\ report["SvcMain"] # Service!Idle

SentStates == Service!State \cup {"none"}
Statuses   == [state : SentStates, checkPoint : Nat]

ServiceTypes ==
    /\ svcMain \in {"register", "createEvent", "failed", "returned", "query", "duplicate",
                    "impersonate", "openKey", "leave", "wait", "stopping", "stopped"}
    /\ handler \in {"idle", "stop", "shutdown", "sessionChange", "setEvent", "again", "done"}
    /\ report \in [Service!Thread -> [step : {"idle", "state", "rest", "send"}, state : SentStates]]
    /\ \A p \in Service!Thread : report[p].step = "idle" <=> report[p] = Service!Idle
    /\ gSvcStatus \in [state : SentStates, accepts : BOOLEAN, checkPoint : Nat]
    /\ sent \in Seq(Statuses)
    /\ dwCheckPoint \in Nat /\ accepts \in BOOLEAN /\ overlap \in BOOLEAN

(* Nothing of a stop is seen, and no status sent accepts controls but that  *)
(* of a service that failed.                                                *)
EarlyInv ==
    Early =>
        /\ handler = "idle" /\ report["Handler"] = Service!Idle
        /\ svcMain = "query" => ghSvcStopEvent # "null"
        /\ gSvcStatus.state # "StopPending"
        /\ \A i \in DOMAIN sent : sent[i].state # "StopPending"
        /\ accepts => svcMain \in {"failed", "returned"} /\ Service!Last(sent).state = "Stopped"
        /\ gSvcStatus.accepts =>
              \/ svcMain \in {"failed", "returned"} /\ gSvcStatus.state = "Stopped"
              \/ svcMain = "query" /\ report["SvcMain"].step = "send"
        /\ report["SvcMain"] # Service!Idle =>
              \/ svcMain = "createEvent" /\ report["SvcMain"].state = "StartPending"
              \/ svcMain = "failed" /\ report["SvcMain"].state = "Stopped"
              \/ svcMain = "query" /\ report["SvcMain"].state = "Running"
        /\ report["SvcMain"].step \in {"rest", "send"} => gSvcStatus.state = report["SvcMain"].state

(* After that SvcMain reports only Stopped, and nobody Running once         *)
(* StopPending is in the record or was sent.                                *)
LateInv ==
    ~Early =>
        /\ ghSvcStopEvent # "null"
        /\ report["SvcMain"] # Service!Idle =>
              svcMain = "stopping" /\ report["SvcMain"].state = "Stopped"
        /\ handler \in {"idle", "stop", "shutdown", "sessionChange"} =>
              report["Handler"] = Service!Idle
        /\ gSvcStatus.state = "StopPending" => report["Handler"].state # "Running"
        /\ (\E i \in DOMAIN sent : sent[i].state = "StopPending") =>
              gSvcStatus.state # "Running" /\ report["Handler"].state # "Running"

(* What holds unless SvcMain's last report met a control: the record is the *)
(* reporter's own, and Stopped is the last thing sent.                      *)
AloneInv ==
    ~overlap =>
        /\ svcMain \in {"stopping", "stopped"} => handler = "idle"
        /\ \A p \in Service!Thread :
              report[p].step \in {"rest", "send"} => gSvcStatus.state = report[p].state
        /\ \A p \in Service!Thread : report[p].step = "send" /\ report[p].state \in Service!Pending =>
              \A i \in DOMAIN sent : sent[i].checkPoint < gSvcStatus.checkPoint
        /\ svcMain = "stopped" \/ (svcMain = "stopping" /\ report["SvcMain"] = Service!Idle) =>
              sent # <<>> /\ Service!Last(sent).state = "Stopped"

(* The check points handed out so far are below the next one.               *)
CheckPointInv ==
    /\ gSvcStatus.checkPoint < dwCheckPoint
    /\ \A i \in DOMAIN sent : sent[i].checkPoint < dwCheckPoint

ServiceInv ==
    /\ ServiceTypes
    /\ EarlyInv /\ LateInv /\ AloneInv /\ CheckPointInv
    /\ Service!NeverBackToRunning /\ Service!CheckPointsRise /\ Service!ImpersonationUndone

(* Handing over a status.                                                   *)
LEMMA SentGrows ==
  ASSUME NEW s \in Seq(Statuses), NEW e \in Statuses
  PROVE  /\ Append(s, e) \in Seq(Statuses)
         /\ Append(s, e) # <<>> /\ Service!Last(Append(s, e)) = e
         /\ Len(s) \in Nat /\ DOMAIN s = 1 .. Len(s)
         /\ DOMAIN Append(s, e) = 1 .. Len(s) + 1
         /\ \A i \in 1 .. Len(s) : Append(s, e)[i] = s[i]
         /\ Append(s, e)[Len(s) + 1] = e
<1>1. /\ Append(s, e) \in Seq(Statuses) /\ Append(s, e) # <<>>
      /\ Len(Append(s, e)) = Len(s) + 1
      /\ \A i \in 1 .. Len(s) : Append(s, e)[i] = s[i]
      /\ Append(s, e)[Len(s) + 1] = e
  BY AppendProperties
<1>2. Len(s) \in Nat /\ DOMAIN s = 1 .. Len(s) /\ DOMAIN Append(s, e) = 1 .. Len(Append(s, e))
  BY <1>1
<1> QED
  BY <1>1, <1>2 DEF Service!Last

LEMMA ServiceStarts == Service!Init => ServiceInv
<1> SUFFICES ASSUME Service!Init PROVE ServiceInv
  OBVIOUS
<1> USE DEF Service!Init, Service!Idle, Service!Thread
<1>1. ServiceTypes
  <2> <<>> \in Seq(Statuses)
    OBVIOUS
  <2> QED
    BY DEF ServiceTypes, SentStates
<1>2. EarlyInv /\ LateInv
  BY DEF EarlyInv, LateInv, Early
<1>3. AloneInv /\ CheckPointInv
  BY DEF AloneInv, CheckPointInv
<1>4. Service!NeverBackToRunning /\ Service!CheckPointsRise /\ Service!ImpersonationUndone
  BY DEF Service!NeverBackToRunning, Service!CheckPointsRise, Service!ImpersonationUndone
<1> QED
  BY <1>1, <1>2, <1>3, <1>4 DEF ServiceInv

(* Unless SvcMain's last report met a control, one thread reports at a time. *)
LEMMA OneReport ==
  ASSUME ServiceInv, ~overlap
  PROVE  \/ report["SvcMain"] = Service!Idle
         \/ report["Handler"] = Service!Idle /\ handler = "idle"
<1>1. CASE Early
  BY <1>1 DEF ServiceInv, EarlyInv
<1>2. CASE ~Early
  BY <1>2 DEF ServiceInv, LateInv, AloneInv
<1> QED
  BY <1>1, <1>2

(* The history variable of a step.                                          *)
Overlaps == overlap' = (overlap \/ (svcMain' = "stopping" /\ handler' # "idle"))

(* The first step of a report: the state goes into the record.              *)
LEMMA FillStateKeeps ==
  ASSUME ServiceInv, NEW p \in Service!Thread, Service!FillState(p), Overlaps
  PROVE  ServiceInv'
<1> USE DEF ServiceInv
<1>1. /\ report[p].step = "state" /\ report[p] # Service!Idle
      /\ report' = [report EXCEPT ![p].step = "rest"]
      /\ gSvcStatus' = [gSvcStatus EXCEPT !.state = report[p].state]
      /\ UNCHANGED <<svcMain, handler, dwCheckPoint, ghSvcStopEvent, token, sent, accepts>>
  BY DEF Service!FillState, Service!Idle
<1>2. /\ report[p] \in [step : {"idle", "state", "rest", "send"}, state : SentStates]
      /\ report'[p].step = "rest" /\ report'[p].state = report[p].state
      /\ report'[p] # Service!Idle
      /\ \A q \in Service!Thread \ {p} : report'[q] = report[q]
      /\ gSvcStatus'.state = report[p].state
      /\ gSvcStatus'.accepts = gSvcStatus.accepts
      /\ gSvcStatus'.checkPoint = gSvcStatus.checkPoint
  BY <1>1 DEF ServiceTypes, Service!Idle
<1>3. overlap' \in BOOLEAN /\ (~overlap' => ~overlap)
  BY DEF ServiceTypes, Overlaps
<1>4. ServiceTypes'
  BY <1>1, <1>2, <1>3 DEF ServiceTypes
<1>5. Early' <=> Early
  BY <1>1, <1>2 DEF Early, Service!Thread
<1>6. EarlyInv'
  BY <1>1, <1>2, <1>5 DEF EarlyInv, Service!Thread
<1>7. LateInv'
  BY <1>1, <1>2, <1>5 DEF LateInv, Service!Thread
<1>8. AloneInv'
  BY <1>1, <1>2, <1>3, OneReport DEF AloneInv, Service!Thread, Service!Idle
<1>9. CheckPointInv' /\ Service!NeverBackToRunning' /\ Service!CheckPointsRise' /\ Service!ImpersonationUndone'
  BY <1>1, <1>2, <1>3
     DEF CheckPointInv, Service!NeverBackToRunning, Service!CheckPointsRise, Service!ImpersonationUndone
<1> QED
  BY <1>4, <1>6, <1>7, <1>8, <1>9

(* The second: the accepted controls and the check point.                   *)
LEMMA FillRestKeeps ==
  ASSUME ServiceInv, NEW p \in Service!Thread, Service!FillRest(p), Overlaps
  PROVE  ServiceInv'
<1> USE DEF ServiceInv
<1>1. /\ report[p].step = "rest" /\ report[p] # Service!Idle
      /\ report' = [report EXCEPT ![p].step = "send"]
      /\ UNCHANGED <<svcMain, handler, ghSvcStopEvent, token, sent, accepts>>
  BY DEF Service!FillRest, Service!Idle
<1>2. /\ report[p] \in [step : {"idle", "state", "rest", "send"}, state : SentStates]
      /\ report'[p].step = "send" /\ report'[p].state = report[p].state
      /\ report'[p] # Service!Idle
      /\ \A q \in Service!Thread \ {p} : report'[q] = report[q]
  BY <1>1 DEF ServiceTypes, Service!Idle
<1>3. overlap' \in BOOLEAN /\ (~overlap' => ~overlap)
  BY DEF ServiceTypes, Overlaps
<1>4. /\ gSvcStatus' \in [state : SentStates, accepts : BOOLEAN, checkPoint : Nat]
      /\ gSvcStatus'.state = gSvcStatus.state
      /\ gSvcStatus'.accepts <=> report[p].state # "StartPending"
      /\ dwCheckPoint' \in Nat /\ dwCheckPoint' >= dwCheckPoint
      /\ gSvcStatus'.checkPoint < dwCheckPoint'
      /\ report[p].state \in Service!Pending => gSvcStatus'.checkPoint = dwCheckPoint
  <2>1. dwCheckPoint \in Nat /\ gSvcStatus.checkPoint \in Nat /\ gSvcStatus.checkPoint < dwCheckPoint
    BY DEF ServiceTypes, CheckPointInv
  <2> DEFINE pending == report[p].state \in Service!Pending
             mayStop == report[p].state # "StartPending"
             point == IF pending THEN dwCheckPoint ELSE 0
  <2>2. /\ gSvcStatus' = [gSvcStatus EXCEPT !.accepts = mayStop, !.checkPoint = point]
        /\ dwCheckPoint' = dwCheckPoint + (IF pending THEN 1 ELSE 0)
    BY DEF Service!FillRest
  <2>3. mayStop \in BOOLEAN /\ point \in Nat
    BY <2>1
  <2>4. /\ gSvcStatus' \in [state : SentStates, accepts : BOOLEAN, checkPoint : Nat]
        /\ gSvcStatus'.state = gSvcStatus.state
        /\ gSvcStatus'.accepts = mayStop /\ gSvcStatus'.checkPoint = point
    <3> HIDE DEF mayStop, point
    <3> QED
      BY <2>2, <2>3 DEF ServiceTypes
  <2>5. point < dwCheckPoint' /\ dwCheckPoint' \in Nat /\ dwCheckPoint' >= dwCheckPoint
    BY <2>1, <2>2
  <2> QED
    BY <2>4, <2>5
<1>5. ServiceTypes'
  BY <1>1, <1>2, <1>3, <1>4 DEF ServiceTypes
<1>6. Early' <=> Early
  BY <1>1, <1>2 DEF Early, Service!Thread
<1>7. EarlyInv'
  BY <1>1, <1>2, <1>4, <1>6 DEF EarlyInv, Service!Thread
<1>8. LateInv'
  BY <1>1, <1>2, <1>4, <1>6 DEF LateInv, Service!Thread
<1>9. CheckPointInv'
  <2>1. \A i \in DOMAIN sent : sent[i].checkPoint \in Nat /\ sent[i].checkPoint < dwCheckPoint
    <3> SUFFICES ASSUME NEW i \in DOMAIN sent
                 PROVE  sent[i].checkPoint \in Nat /\ sent[i].checkPoint < dwCheckPoint
      OBVIOUS
    <3>1. sent \in Seq(Statuses) /\ DOMAIN sent = 1 .. Len(sent)
      BY DEF ServiceTypes
    <3>2. sent[i] \in Statuses
      BY <3>1, ElementOfSeq
    <3> QED
      BY <3>2 DEF CheckPointInv, Statuses
  <2>2. dwCheckPoint \in Nat
    BY DEF ServiceTypes
  <2> QED
    BY <1>1, <1>4, <2>1, <2>2 DEF CheckPointInv
<1>10. AloneInv'
  BY <1>1, <1>2, <1>3, <1>4, OneReport DEF AloneInv, CheckPointInv, Service!Thread, Service!Idle
<1>11. Service!NeverBackToRunning' /\ Service!CheckPointsRise' /\ Service!ImpersonationUndone'
  BY <1>1, <1>3
     DEF Service!NeverBackToRunning, Service!CheckPointsRise, Service!ImpersonationUndone
<1> QED
  BY <1>5, <1>7, <1>8, <1>9, <1>10, <1>11

(* The last: the record as it is goes to the SCM.                           *)
LEMMA SendStatusKeeps ==
  ASSUME ServiceInv, NEW p \in Service!Thread, Service!SendStatus(p), Overlaps
  PROVE  ServiceInv'
<1> USE DEF ServiceInv
<1> DEFINE e == [state |-> gSvcStatus.state, checkPoint |-> gSvcStatus.checkPoint]
<1>1. /\ report[p].step = "send" /\ report[p] # Service!Idle
      /\ report' = [report EXCEPT ![p] = Service!Idle]
      /\ sent' = Append(sent, e) /\ accepts' = gSvcStatus.accepts
      /\ UNCHANGED <<svcMain, handler, gSvcStatus, dwCheckPoint, ghSvcStopEvent, token>>
  BY DEF Service!SendStatus, Service!Idle
<1>2. /\ report'[p] = Service!Idle
      /\ \A q \in Service!Thread \ {p} : report'[q] = report[q]
      /\ Service!Idle.step = "idle" /\ Service!Idle.state = "none"
      /\ gSvcStatus.state \in SentStates /\ gSvcStatus.checkPoint \in Nat
      /\ gSvcStatus.accepts \in BOOLEAN
      /\ e \in Statuses /\ e.state = gSvcStatus.state /\ e.checkPoint = gSvcStatus.checkPoint
  BY <1>1 DEF ServiceTypes, Service!Idle, Statuses
<1> HIDE DEF e
<1>3. overlap' \in BOOLEAN /\ (~overlap' => ~overlap)
  BY DEF ServiceTypes, Overlaps
<1>4. /\ sent' \in Seq(Statuses) /\ sent' # <<>> /\ Service!Last(sent') = e
      /\ Len(sent) \in Nat /\ DOMAIN sent = 1 .. Len(sent) /\ DOMAIN sent' = 1 .. Len(sent) + 1
      /\ \A i \in 1 .. Len(sent) : sent'[i] = sent[i]
      /\ sent'[Len(sent) + 1] = e
  BY <1>1, <1>2, SentGrows DEF ServiceTypes
<1>5. /\ \A i \in DOMAIN sent' : (i \in DOMAIN sent /\ sent'[i] = sent[i]) \/ sent'[i] = e
      /\ \A i, j \in DOMAIN sent' :
            i < j => \/ i \in DOMAIN sent /\ j \in DOMAIN sent /\ sent'[i] = sent[i] /\ sent'[j] = sent[j]
                     \/ i \in DOMAIN sent /\ sent'[i] = sent[i] /\ sent'[j] = e
  BY <1>4
<1>6. ServiceTypes'
  <2>1. Service!Idle \in [step : {"idle", "state", "rest", "send"}, state : SentStates]
    BY DEF Service!Idle, SentStates
  <2>2. report' \in [Service!Thread -> [step : {"idle", "state", "rest", "send"}, state : SentStates]]
    BY <1>1, <2>1 DEF ServiceTypes
  <2>3. \A q \in Service!Thread : report'[q].step = "idle" <=> report'[q] = Service!Idle
    BY <1>2 DEF ServiceTypes
  <2> QED
    BY <1>1, <1>2, <1>3, <1>4, <2>2, <2>3 DEF ServiceTypes
<1>7. Early => p = "SvcMain"
  BY <1>1 DEF EarlyInv, Service!Thread
<1>8. Early /\ svcMain # "query" => Early'
  BY <1>1 DEF Early
<1>9. Early' => Early /\ svcMain # "query"
  BY <1>1, <1>2, <1>7 DEF Early, Service!Thread
<1>10. EarlyInv'
  <2> SUFFICES ASSUME Early' PROVE EarlyInv'
    BY DEF EarlyInv
  <2>1. Early /\ svcMain # "query" /\ p = "SvcMain"
    BY <1>7, <1>9
  <2>2. /\ handler = "idle" /\ report["Handler"] = Service!Idle
        /\ gSvcStatus.state # "StopPending"
        /\ \A i \in DOMAIN sent : sent[i].state # "StopPending"
        /\ gSvcStatus.accepts => svcMain \in {"failed", "returned"} /\ gSvcStatus.state = "Stopped"
    BY <2>1 DEF EarlyInv
  <2> QED
    BY <1>1, <1>2, <1>4, <1>5, <2>1, <2>2 DEF EarlyInv, Service!Thread
<1>11. LateInv'
  <2> SUFFICES ASSUME ~Early' PROVE LateInv'
    BY DEF LateInv
  <2>1. CASE Early
    <3>1. /\ svcMain = "query" /\ p = "SvcMain" /\ ghSvcStopEvent # "null"
          /\ report["SvcMain"].state = "Running" /\ gSvcStatus.state = "Running"
          /\ handler = "idle" /\ report["Handler"] = Service!Idle
          /\ \A i \in DOMAIN sent : sent[i].state # "StopPending"
      BY <1>1, <1>7, <1>8, <2>1 DEF EarlyInv
    <3> QED
      BY <1>1, <1>2, <1>5, <3>1 DEF LateInv, Service!Thread
  <2>2. CASE ~Early
    BY <1>1, <1>2, <1>5, <2>2 DEF LateInv, Service!Thread
  <2> QED
    BY <2>1, <2>2
<1>12. AloneInv'
  <2> SUFFICES ASSUME ~overlap' PROVE AloneInv'
    BY DEF AloneInv
  <2>1. ~overlap /\ gSvcStatus.state = report[p].state
    BY <1>1, <1>3 DEF AloneInv
  <2>2. \A q \in Service!Thread : report'[q] = Service!Idle
    BY <1>1, <1>2, <2>1, OneReport DEF Service!Thread
  <2>3. svcMain \in {"stopping", "stopped"} => p = "SvcMain" /\ svcMain = "stopping"
    <3>1. ASSUME svcMain \in {"stopping", "stopped"} PROVE ~Early /\ handler = "idle"
      BY <2>1, <3>1 DEF Early, AloneInv
    <3> QED
      BY <1>1, <3>1 DEF LateInv, Service!Thread
  <2>4. svcMain = "stopping" => e.state = "Stopped"
    <3>1. ASSUME svcMain = "stopping" PROVE ~Early
      BY <3>1 DEF Early
    <3> QED
      BY <1>1, <1>2, <2>1, <2>3, <3>1 DEF LateInv
  <2> QED
    BY <1>1, <1>2, <1>4, <2>1, <2>2, <2>3, <2>4 DEF AloneInv
<1>13. CheckPointInv'
  BY <1>1, <1>2, <1>5 DEF CheckPointInv
<1>14. Service!NeverBackToRunning'
  <2>1. (\E i \in DOMAIN sent : sent[i].state = "StopPending") => e.state # "Running"
    BY <1>2 DEF EarlyInv, LateInv
  <2> QED
    BY <1>5, <2>1 DEF Service!NeverBackToRunning
<1>15. Service!CheckPointsRise'
  <2> SUFFICES ASSUME ~overlap' PROVE Service!CheckPointsRise'
    BY DEF Service!CheckPointsRise
  <2>1. e.state \in Service!Pending => \A i \in DOMAIN sent : sent[i].checkPoint < e.checkPoint
    BY <1>1, <1>2, <1>3 DEF AloneInv
  <2>2. \A i, j \in DOMAIN sent :
           i < j /\ sent[i].state \in Service!Pending /\ sent[j].state \in Service!Pending
               => sent[i].checkPoint < sent[j].checkPoint
    BY <1>3 DEF Service!CheckPointsRise
  <2> QED
    BY <1>5, <2>1, <2>2 DEF Service!CheckPointsRise
<1>16. Service!ImpersonationUndone'
  BY <1>1 DEF Service!ImpersonationUndone
<1> QED
  BY <1>6, <1>10, <1>11, <1>12, <1>13, <1>14, <1>15, <1>16

(* Calling ReportSvcStatus, and not calling it.                             *)
ReportTypes ==
    /\ report \in [Service!Thread -> [step : {"idle", "state", "rest", "send"}, state : SentStates]]
    /\ \A p \in Service!Thread : report[p].step = "idle" <=> report[p] = Service!Idle

LEMMA CallFacts ==
  ASSUME ReportTypes, NEW p \in Service!Thread, NEW s \in SentStates, Service!Call(p, s)
  PROVE  /\ ReportTypes'
         /\ report'[p].step = "state" /\ report'[p].state = s /\ report'[p] # Service!Idle
         /\ \A q \in Service!Thread \ {p} : report'[q] = report[q]
<1> DEFINE c == [step |-> "state", state |-> s]
<1>1. /\ c \in [step : {"idle", "state", "rest", "send"}, state : SentStates]
      /\ c.step = "state" /\ c.state = s
  OBVIOUS
<1>2. c # Service!Idle
  BY <1>1 DEF Service!Idle
<1>3. report' = [report EXCEPT ![p] = c]
  BY DEF Service!Call
<1> HIDE DEF c
<1>4. report'[p] = c /\ \A q \in Service!Thread \ {p} : report'[q] = report[q]
  BY <1>3 DEF ReportTypes
<1>5. report' \in [Service!Thread -> [step : {"idle", "state", "rest", "send"}, state : SentStates]]
  BY <1>1, <1>3 DEF ReportTypes
<1>6. \A q \in Service!Thread : report'[q].step = "idle" <=> report'[q] = Service!Idle
  BY <1>1, <1>2, <1>4 DEF ReportTypes
<1> QED
  BY <1>1, <1>2, <1>4, <1>5, <1>6 DEF ReportTypes

(* A step that leaves what is reported alone keeps what was sent in order.  *)
LEMMA OrderKept ==
  ASSUME ServiceInv, Overlaps, UNCHANGED <<gSvcStatus, sent, dwCheckPoint>>
  PROVE  /\ overlap' \in BOOLEAN /\ (~overlap' => ~overlap)
         /\ CheckPointInv' /\ Service!NeverBackToRunning' /\ Service!CheckPointsRise'
<1>1. overlap' \in BOOLEAN /\ (~overlap' => ~overlap)
  BY DEF ServiceInv, ServiceTypes, Overlaps
<1> QED
  BY <1>1 DEF ServiceInv, CheckPointInv, Service!NeverBackToRunning, Service!CheckPointsRise

(* SvcMain's own steps.                                                     *)
LEMMA SvcMainKeeps ==
  ASSUME ServiceInv, Overlaps,
         \/ Service!Register \/ Service!CreateEvent \/ Service!FailedReturns
         \/ Service!ImpersonateUser \/ Service!WaitForStop \/ Service!StoppedReturns
  PROVE  ServiceInv'
<1> USE DEF ServiceInv
<1>1. /\ report["SvcMain"] = Service!Idle /\ ReportTypes
      /\ Service!Idle.step = "idle" /\ Service!Idle.state = "none"
      /\ UNCHANGED <<handler, gSvcStatus, dwCheckPoint, sent, accepts>>
  BY DEF Service!Register, Service!CreateEvent, Service!FailedReturns, Service!ImpersonateUser,
         Service!WaitForStop, Service!StoppedReturns, Service!InMain, ServiceTypes, ReportTypes,
         Service!Idle
<1>2. /\ overlap' \in BOOLEAN /\ (~overlap' => ~overlap)
      /\ CheckPointInv' /\ Service!NeverBackToRunning' /\ Service!CheckPointsRise'
  BY <1>1, OrderKept
<1>3. "SvcMain" \in Service!Thread /\ "Handler" \in Service!Thread
      /\ {"StartPending", "Running", "Stopped"} \subseteq SentStates
  BY DEF Service!Thread, SentStates, Service!State, Service!Pending
<1>4. CASE /\ UNCHANGED report
           /\ \/ svcMain \in {"register", "failed"} /\ svcMain' = "returned"
                 /\ UNCHANGED <<ghSvcStopEvent, token>>
              \/ svcMain = "stopping" /\ svcMain' = "stopped"
                 /\ UNCHANGED <<ghSvcStopEvent, token>>
              \/ /\ svcMain \in {"query", "duplicate", "impersonate", "openKey"}
                 /\ svcMain' \in {"duplicate", "impersonate", "openKey", "leave"}
                 /\ UNCHANGED ghSvcStopEvent
              \/ svcMain = "leave" /\ svcMain' = "wait" /\ token' = {}
                 /\ UNCHANGED ghSvcStopEvent
  <2>1. Early' <=> Early
    BY <1>1, <1>4 DEF Early
  <2>2. ServiceTypes'
    BY <1>1, <1>2, <1>4 DEF ServiceTypes
  <2>3. EarlyInv'
    BY <1>1, <1>4, <2>1 DEF EarlyInv, Early
  <2>4. LateInv'
    BY <1>1, <1>4, <2>1 DEF LateInv
  <2>5. AloneInv'
    BY <1>1, <1>2, <1>4 DEF AloneInv
  <2>6. Service!ImpersonationUndone'
    BY <1>4 DEF Service!ImpersonationUndone
  <2> QED
    BY <1>2, <2>2, <2>3, <2>4, <2>5, <2>6
<1>5. CASE /\ svcMain = "register" /\ svcMain' = "createEvent"
           /\ Service!Call("SvcMain", "StartPending") /\ UNCHANGED <<ghSvcStopEvent, token>>
  <2>1. ReportTypes' /\ report'["SvcMain"].step = "state" /\ report'["SvcMain"].state = "StartPending"
        /\ report'["Handler"] = report["Handler"] /\ report'["SvcMain"] # Service!Idle
    BY <1>1, <1>3, <1>5, CallFacts
  <2>2. ServiceTypes'
    BY <1>1, <1>2, <1>5, <2>1 DEF ServiceTypes, ReportTypes
  <2>3. Early /\ Early'
    BY <1>5 DEF Early
  <2>4. EarlyInv' /\ LateInv'
    BY <1>1, <1>5, <2>1, <2>3 DEF EarlyInv, LateInv
  <2>5. AloneInv'
    BY <1>1, <1>2, <1>5, <2>1 DEF AloneInv, Service!Thread
  <2>6. Service!ImpersonationUndone'
    BY <1>5 DEF Service!ImpersonationUndone
  <2> QED
    BY <1>2, <2>2, <2>4, <2>5, <2>6
<1>6. CASE /\ svcMain = "createEvent" /\ UNCHANGED token
           /\ \/ svcMain' = "failed" /\ Service!Call("SvcMain", "Stopped")
              \/ svcMain' = "query" /\ Service!Call("SvcMain", "Running") /\ ghSvcStopEvent' = "unset"
  <2>1. /\ ReportTypes' /\ report'["SvcMain"].step = "state"
        /\ svcMain' = "failed" => report'["SvcMain"].state = "Stopped"
        /\ svcMain' = "query" => report'["SvcMain"].state = "Running" /\ ghSvcStopEvent' = "unset"
        /\ report'["Handler"] = report["Handler"] /\ report'["SvcMain"] # Service!Idle
    BY <1>1, <1>3, <1>6, CallFacts
  <2>2. ServiceTypes'
    BY <1>1, <1>2, <1>6, <2>1 DEF ServiceTypes, ReportTypes
  <2>3. Early /\ Early'
    BY <1>6, <2>1 DEF Early
  <2>4. EarlyInv' /\ LateInv'
    BY <1>1, <1>6, <2>1, <2>3 DEF EarlyInv, LateInv
  <2>5. AloneInv'
    BY <1>1, <1>2, <1>6, <2>1 DEF AloneInv, Service!Thread
  <2>6. Service!ImpersonationUndone'
    BY <1>6 DEF Service!ImpersonationUndone
  <2> QED
    BY <1>2, <2>2, <2>4, <2>5, <2>6
<1>7. CASE /\ svcMain = "wait" /\ svcMain' = "stopping" /\ Service!Call("SvcMain", "Stopped")
           /\ UNCHANGED <<ghSvcStopEvent, token>>
  <2>1. ReportTypes' /\ report'["SvcMain"].step = "state" /\ report'["SvcMain"].state = "Stopped"
        /\ report'["Handler"] = report["Handler"] /\ report'["SvcMain"] # Service!Idle
    BY <1>1, <1>3, <1>7, CallFacts
  <2>2. ServiceTypes'
    BY <1>1, <1>2, <1>7, <2>1 DEF ServiceTypes, ReportTypes
  <2>3. ~Early /\ ~Early'
    BY <1>7 DEF Early
  <2>4. EarlyInv' /\ LateInv'
    BY <1>1, <1>7, <2>1, <2>3 DEF EarlyInv, LateInv
  <2>5. AloneInv'
    <3>1. ~overlap' => handler' = "idle"
      BY <1>7 DEF Overlaps, ServiceTypes
    <3> QED
      BY <1>1, <1>2, <1>7, <2>1, <3>1 DEF AloneInv, Service!Thread
  <2>6. Service!ImpersonationUndone'
    BY <1>7 DEF Service!ImpersonationUndone
  <2> QED
    BY <1>2, <2>2, <2>4, <2>5, <2>6
<1> QED
  BY <1>4, <1>5, <1>6, <1>7
     DEF Service!Register, Service!CreateEvent, Service!FailedReturns, Service!ImpersonateUser,
         Service!WaitForStop, Service!StoppedReturns, Service!InMain, Service!Takes

(* The handler's own steps.                                                 *)
LEMMA HandlerKeeps ==
  ASSUME ServiceInv, Overlaps,
         \/ Service!ControlStop \/ Service!ControlShutdown \/ Service!ReportAgain
         \/ Service!HandlerReturns
  PROVE  ServiceInv'
<1> USE DEF ServiceInv
<1>1. /\ report["Handler"] = Service!Idle /\ ReportTypes /\ handler # "idle"
      /\ Service!Idle.step = "idle" /\ Service!Idle.state = "none"
      /\ UNCHANGED <<svcMain, gSvcStatus, dwCheckPoint, token, sent, accepts>>
  BY DEF Service!ControlStop, Service!ControlShutdown, Service!ReportAgain,
         Service!HandlerReturns, Service!InHandler, ServiceTypes, ReportTypes, Service!Idle
<1>2. /\ overlap' \in BOOLEAN /\ (~overlap' => ~overlap)
      /\ CheckPointInv' /\ Service!NeverBackToRunning' /\ Service!CheckPointsRise'
  BY <1>1, OrderKept
<1>3. "SvcMain" \in Service!Thread /\ "Handler" \in Service!Thread /\ "StopPending" \in SentStates
  BY DEF Service!Thread, SentStates, Service!State, Service!Pending
<1>4. ~Early
  BY <1>1 DEF EarlyInv
<1>5. /\ ghSvcStopEvent # "null"
      /\ ~overlap => svcMain \notin {"stopping", "stopped"} /\ report["SvcMain"] = Service!Idle
  BY <1>1, <1>4 DEF LateInv, AloneInv
<1>6. CASE /\ UNCHANGED report /\ ghSvcStopEvent' # "null"
           /\ handler' \in {"again", "idle"}
  <2>1. ServiceTypes' /\ ~Early'
    BY <1>1, <1>2, <1>4, <1>6 DEF ServiceTypes, Early
  <2>2. EarlyInv' /\ LateInv'
    BY <1>1, <1>4, <1>6, <2>1 DEF EarlyInv, LateInv
  <2>3. AloneInv' /\ Service!ImpersonationUndone'
    BY <1>1, <1>2, <1>5, <1>6 DEF AloneInv, Service!ImpersonationUndone
  <2> QED
    BY <1>2, <2>1, <2>2, <2>3
<1>7. ASSUME NEW s \in SentStates, s = "StopPending" \/ s = gSvcStatus.state,
             Service!Call("Handler", s), handler' \in {"setEvent", "done"}, UNCHANGED ghSvcStopEvent
      PROVE  ServiceInv'
  <2>1. /\ ReportTypes' /\ report'["Handler"].step = "state" /\ report'["Handler"].state = s
        /\ report'["SvcMain"] = report["SvcMain"] /\ report'["Handler"] # Service!Idle
    BY <1>1, <1>3, <1>7, CallFacts
  <2>2. ServiceTypes' /\ ~Early'
    BY <1>1, <1>2, <1>4, <1>7, <2>1 DEF ServiceTypes, ReportTypes, Early
  <2>3. EarlyInv' /\ LateInv'
    BY <1>1, <1>4, <1>7, <2>1, <2>2 DEF EarlyInv, LateInv
  <2>4. AloneInv' /\ Service!ImpersonationUndone'
    BY <1>1, <1>2, <1>5, <1>7, <2>1 DEF AloneInv, Service!ImpersonationUndone, Service!Thread
  <2> QED
    BY <1>2, <2>2, <2>3, <2>4
<1>8. gSvcStatus.state \in SentStates
  BY DEF ServiceTypes
<1> QED
  BY <1>3, <1>5, <1>6, <1>7, <1>8
     DEF Service!ControlStop, Service!ControlShutdown, Service!ReportAgain,
         Service!HandlerReturns, Service!InHandler, Service!SetStopEvent

(* A control is sent only to a service whose Running was handed over.       *)
LEMMA ControlKeeps ==
  ASSUME ServiceInv, Overlaps, NEW c \in {"stop", "shutdown", "sessionChange"},
         Service!SendControl(c)
  PROVE  ServiceInv'
<1> USE DEF ServiceInv
<1>1. /\ handler = "idle" /\ handler' = c /\ accepts /\ Service!Last(sent).state # "Stopped"
      /\ UNCHANGED <<svcMain, report, gSvcStatus, dwCheckPoint, ghSvcStopEvent, token, sent, accepts>>
  BY DEF Service!SendControl
<1>2. /\ overlap' \in BOOLEAN /\ (~overlap' => ~overlap)
      /\ CheckPointInv' /\ Service!NeverBackToRunning' /\ Service!CheckPointsRise'
  BY <1>1, OrderKept
<1>3. ~Early /\ ~Early'
  BY <1>1 DEF EarlyInv, Early
<1>4. ServiceTypes'
  BY <1>1, <1>2 DEF ServiceTypes
<1>5. EarlyInv' /\ LateInv'
  BY <1>1, <1>3 DEF EarlyInv, LateInv
<1>6. ~overlap' => svcMain \notin {"stopping", "stopped"}
  BY <1>1, <1>2 DEF Overlaps, AloneInv
<1>7. AloneInv' /\ Service!ImpersonationUndone'
  BY <1>1, <1>2, <1>6 DEF AloneInv, Service!ImpersonationUndone
<1> QED
  BY <1>2, <1>4, <1>5, <1>7

(* Every step of the program keeps the invariant.                           *)
LEMMA ServiceStep ==
  ASSUME ServiceInv, [Service!Next]_serviceVars
  PROVE  ServiceInv'
<1>1. CASE Service!Next
  <2>1. Overlaps
    BY <1>1 DEF Service!Next, Service!Running, Overlaps
  <2>2. "SvcMain" \in Service!Thread /\ "Handler" \in Service!Thread
    BY DEF Service!Thread
  <2>3. CASE Service!SvcMain
    BY <2>1, <2>2, <2>3, SvcMainKeeps, FillStateKeeps, FillRestKeeps, SendStatusKeeps
       DEF Service!SvcMain, Service!ReportSvcStatus
  <2>4. CASE Service!SvcCtrlHandler
    BY <2>1, <2>2, <2>4, HandlerKeeps, FillStateKeeps, FillRestKeeps, SendStatusKeeps
       DEF Service!SvcCtrlHandler, Service!ReportSvcStatus
  <2>5. CASE Service!DispatcherReturns
    <3>1. UNCHANGED <<svcMain, handler, report, gSvcStatus, dwCheckPoint, ghSvcStopEvent, token,
                      sent, accepts>>
      BY <2>5 DEF Service!DispatcherReturns
    <3>2. /\ overlap' \in BOOLEAN /\ (~overlap' => ~overlap)
          /\ CheckPointInv' /\ Service!NeverBackToRunning' /\ Service!CheckPointsRise'
      BY <2>1, <3>1, OrderKept
    <3> QED
      BY <3>1, <3>2
         DEF ServiceInv, ServiceTypes, EarlyInv, LateInv, AloneInv, Early, Service!ImpersonationUndone
  <2> QED
    BY <1>1, <2>1, <2>3, <2>4, <2>5, ControlKeeps DEF Service!Next, Service!Running
<1>2. CASE UNCHANGED serviceVars
  BY <1>2 DEF serviceVars, ServiceInv, ServiceTypes, EarlyInv, LateInv, AloneInv, CheckPointInv,
              Early, Service!NeverBackToRunning, Service!CheckPointsRise, Service!ImpersonationUndone
<1> QED
  BY <1>1, <1>2

(* Nobody hands over, or repeats, a state that no report has written; and   *)
(* the check point, the token, the event and the controls keep their types. *)
RecordInv ==
    /\ gSvcStatus.state = "none" =>
          /\ sent = <<>> /\ handler = "idle"
          /\ \A p \in Service!Thread : report[p].step \in {"idle", "state"}
    /\ \A p \in Service!Thread : report[p].step # "idle" => report[p].state \in Service!State
    /\ sent \in Seq([state : Service!State, checkPoint : Nat])
    /\ ghSvcStopEvent \in {"null", "unset", "set"}
    /\ token \subseteq {"user", "duplicated", "identity", "key"}
    /\ dwCheckPoint # 0 /\ controls \in 0 .. MaxControls

LEMMA RecordStarts == Service!ControlsAssumption /\ Service!Init => RecordInv
BY DEF Service!ControlsAssumption, Service!Init, RecordInv, Service!Idle, Service!Thread

(* A report that begins, with a state of a service.                         *)
LEMMA CallRecords ==
  ASSUME ServiceInv, RecordInv, NEW p \in Service!Thread, NEW s \in Service!State,
         Service!Call(p, s),
         UNCHANGED <<gSvcStatus, sent, token, dwCheckPoint, controls>>,
         handler' # "idle" => handler # "idle",
         ghSvcStopEvent' \in {"null", "unset", "set"}
  PROVE  RecordInv'
<1>1. ReportTypes /\ s \in SentStates
  BY DEF ServiceInv, ServiceTypes, ReportTypes, SentStates
<1>2. /\ report'[p].step = "state" /\ report'[p].state = s
      /\ \A q \in Service!Thread \ {p} : report'[q] = report[q]
  BY <1>1, CallFacts
<1> QED
  BY <1>2 DEF RecordInv

LEMMA RecordKept ==
  ASSUME ServiceInv, RecordInv,
         UNCHANGED <<report, gSvcStatus, sent, dwCheckPoint>>,
         controls' \in 0 .. MaxControls, token' \subseteq {"user", "duplicated", "identity", "key"},
         handler' # "idle" => handler # "idle" \/ sent # <<>>,
         ghSvcStopEvent' \in {"null", "unset", "set"}
  PROVE  RecordInv'
BY DEF RecordInv

(* The three steps of a report.                                             *)
LEMMA ReportRecords ==
  ASSUME ServiceInv, RecordInv, NEW p \in Service!Thread, Service!ReportSvcStatus(p)
  PROVE  RecordInv'
<1>1. ServiceTypes
  BY DEF ServiceInv
<1>2. /\ report \in [Service!Thread -> [step : {"idle", "state", "rest", "send"}, state : SentStates]]
      /\ gSvcStatus \in [state : SentStates, accepts : BOOLEAN, checkPoint : Nat]
      /\ dwCheckPoint \in Nat
  BY <1>1 DEF ServiceTypes
<1>3. CASE Service!FillState(p)
  <2>1. /\ report[p].step = "state" /\ gSvcStatus' = [gSvcStatus EXCEPT !.state = report[p].state]
        /\ report' = [report EXCEPT ![p].step = "rest"]
        /\ UNCHANGED <<handler, dwCheckPoint, ghSvcStopEvent, token, sent, controls>>
    BY <1>3 DEF Service!FillState
  <2>2. gSvcStatus'.state \in Service!State /\ gSvcStatus'.state # "none"
    BY <1>2, <2>1 DEF RecordInv, Service!State, Service!Pending
  <2>3. \A q \in Service!Thread : report'[q].step # "idle" => report'[q].state \in Service!State
    BY <1>2, <2>1 DEF RecordInv
  <2> QED
    BY <2>1, <2>2, <2>3 DEF RecordInv
<1>4. CASE Service!FillRest(p)
  <2>1. /\ report[p].step = "rest" /\ gSvcStatus'.state = gSvcStatus.state
        /\ report' = [report EXCEPT ![p].step = "send"]
        /\ dwCheckPoint' \in {dwCheckPoint, dwCheckPoint + 1}
        /\ UNCHANGED <<handler, ghSvcStopEvent, token, sent, controls>>
    BY <1>2, <1>4 DEF Service!FillRest
  <2>2. gSvcStatus.state # "none" /\ dwCheckPoint' # 0
    BY <1>2, <2>1 DEF RecordInv
  <2>3. \A q \in Service!Thread : report'[q].step # "idle" => report'[q].state \in Service!State
    BY <1>2, <2>1 DEF RecordInv
  <2> QED
    BY <2>1, <2>2, <2>3 DEF RecordInv
<1>5. CASE Service!SendStatus(p)
  <2> DEFINE e == [state |-> gSvcStatus.state, checkPoint |-> gSvcStatus.checkPoint]
  <2>1. /\ report[p].step = "send" /\ report' = [report EXCEPT ![p] = Service!Idle]
        /\ sent' = Append(sent, e)
        /\ UNCHANGED <<handler, gSvcStatus, dwCheckPoint, ghSvcStopEvent, token, controls>>
    BY <1>5 DEF Service!SendStatus
  <2>2. gSvcStatus.state # "none" /\ e \in [state : Service!State, checkPoint : Nat]
    BY <1>2, <2>1 DEF RecordInv, SentStates
  <2> HIDE DEF e
  <2>3. sent' \in Seq([state : Service!State, checkPoint : Nat])
    BY <2>1, <2>2 DEF RecordInv
  <2>4. \A q \in Service!Thread : report'[q].step # "idle" => report'[q].state \in Service!State
    BY <1>2, <2>1 DEF RecordInv, Service!Idle
  <2> QED
    BY <2>1, <2>2, <2>3, <2>4 DEF RecordInv
<1> QED
  BY <1>3, <1>4, <1>5 DEF Service!ReportSvcStatus

LEMMA RecordStep ==
  ASSUME Service!ControlsAssumption, ServiceInv, RecordInv, [Service!Next]_serviceVars
  PROVE  RecordInv'
<1>0. "SvcMain" \in Service!Thread /\ "Handler" \in Service!Thread
      /\ {"StartPending", "StopPending", "Running", "Stopped"} = Service!State
      /\ MaxControls \in Nat
  BY DEF Service!Thread, Service!State, Service!Pending, Service!ControlsAssumption
<1>t. /\ ghSvcStopEvent \in {"null", "unset", "set"} /\ controls \in 0 .. MaxControls
      /\ token \subseteq {"user", "duplicated", "identity", "key"}
  BY DEF RecordInv
<1>1. CASE Service!SvcMain
  <2>1. CASE Service!Register
    BY <1>0, <1>t, <2>1, CallRecords, RecordKept DEF Service!Register
  <2>2. CASE Service!CreateEvent
    BY <1>0, <1>t, <2>2, CallRecords DEF Service!CreateEvent
  <2>3. CASE Service!FailedReturns \/ Service!StoppedReturns
    BY <1>t, <2>3, RecordKept DEF Service!FailedReturns, Service!StoppedReturns
  <2>4. CASE Service!ImpersonateUser
    <3>1. token' \subseteq {"user", "duplicated", "identity", "key"}
      <4>1. CASE svcMain = "leave"
        BY <1>t, <2>4, <4>1 DEF Service!ImpersonateUser, Service!Takes
      <4>2. CASE svcMain \in {"query", "duplicate", "impersonate", "openKey"}
        <5>1. Service!Takes[svcMain].what \in {"user", "duplicated", "identity", "key"}
          BY <4>2 DEF Service!Takes
        <5>2. token' = token \cup {Service!Takes[svcMain].what} \/ token' = token
          BY <2>4, <4>2 DEF Service!ImpersonateUser, Service!InMain
        <5> QED
          BY <1>t, <5>1, <5>2
      <4> QED
        BY <2>4, <4>1, <4>2 DEF Service!ImpersonateUser, Service!Takes, Service!InMain
    <3> QED
      BY <1>t, <2>4, <3>1, RecordKept DEF Service!ImpersonateUser
  <2>5. CASE Service!WaitForStop
    BY <1>0, <1>t, <2>5, CallRecords DEF Service!WaitForStop
  <2>6. CASE Service!ReportSvcStatus("SvcMain")
    BY <1>0, <2>6, ReportRecords
  <2> QED
    BY <1>1, <2>1, <2>2, <2>3, <2>4, <2>5, <2>6 DEF Service!SvcMain
<1>2. CASE Service!SvcCtrlHandler
  <2>1. CASE Service!ControlStop
    BY <1>0, <1>t, <2>1, CallRecords, RecordKept
       DEF Service!ControlStop, Service!InHandler, Service!SetStopEvent
  <2>2. CASE Service!ControlShutdown
    BY <1>t, <2>2, RecordKept DEF Service!ControlShutdown, Service!SetStopEvent
  <2>3. CASE Service!ReportAgain
    <3>1. handler # "idle" /\ gSvcStatus.state \in SentStates
      BY <2>3 DEF Service!ReportAgain, Service!InHandler, ServiceInv, ServiceTypes
    <3>2. gSvcStatus.state \in Service!State
      BY <3>1 DEF RecordInv, SentStates
    <3> QED
      BY <1>0, <1>t, <2>3, <3>1, <3>2, CallRecords DEF Service!ReportAgain
  <2>4. CASE Service!HandlerReturns
    BY <1>t, <2>4, RecordKept DEF Service!HandlerReturns
  <2>5. CASE Service!ReportSvcStatus("Handler")
    BY <1>0, <2>5, ReportRecords
  <2> QED
    BY <1>2, <2>1, <2>2, <2>3, <2>4, <2>5 DEF Service!SvcCtrlHandler
<1>3. ASSUME NEW c \in {"stop", "shutdown", "sessionChange"}, Service!SendControl(c)
      PROVE  RecordInv'
  <2>1. controls' \in 0 .. MaxControls /\ sent # <<>>
    BY <1>0, <1>t, <1>3 DEF Service!SendControl
  <2> QED
    BY <1>t, <1>3, <2>1, RecordKept DEF Service!SendControl
<1>4. CASE Service!DispatcherReturns
  BY <1>t, <1>4, RecordKept DEF Service!DispatcherReturns
<1>5. CASE UNCHANGED serviceVars
  BY <1>t, <1>5, RecordKept DEF serviceVars
<1> QED
  BY <1>1, <1>2, <1>3, <1>4, <1>5 DEF Service!Next, Service!Running

LEMMA ServiceTyped ==
  ASSUME ServiceInv, RecordInv
  PROVE  Service!TypeOK
BY DEF ServiceInv, ServiceTypes, SentStates, RecordInv, Service!TypeOK

-----------------------------------------------------------------------------
(* WaitOnAddress.  The value is the thread's progress, and main has it      *)
(* behind its loop.                                                         *)
AddressInv ==
    /\ Address!TypeOK
    /\ g_targetValue = IF setter = "sleep" THEN 0 ELSE 1
    /\ Address!NoSleepBehindWake /\ Address!LocalsOutliveSetter

LEMMA AddressStep ==
  ASSUME AddressInv, [Address!Next]_addressVars
  PROVE  AddressInv'
<1> USE DEF AddressInv, Address!TypeOK, Address!NoSleepBehindWake, Address!LocalsOutliveSetter,
            Address!MainGoes, Address!undesiredValue
<1>1. CASE Address!MainStep \/ Address!SpuriousWake
  BY <1>1 DEF Address!MainStep, Address!SpuriousWake, Address!Test, Address!WaitOnAddress,
              Address!Capture, Address!JoinReturns
<1>2. CASE Address!SetterStep
  BY <1>2 DEF Address!SetterStep, Address!Store, Address!WakeByAddressSingle
<1>3. CASE UNCHANGED addressVars
  BY <1>3 DEF addressVars
<1> QED
  BY <1>1, <1>2, <1>3 DEF Address!Next

-----------------------------------------------------------------------------
(* progress-bar.  What Close has done by the task's place, what a closed    *)
(* window says of the task and of the user, and what the range is.          *)
Finishing == {"UserClose", "Post", "ended"}

ProgressInv ==
    /\ Progress!TypeOK
    /\ joiner = "start" => task = "SetMarquee"
    /\ UserClose <=> task \in {"Post", "ended"}
    /\ posted => task = "ended"
    /\ joiner = "asking" => clicked
    /\ Closed => (clicked \/ task = "ended") /\ (Canceled \/ task \in Finishing)
    /\ joiner \in {"told", "leaving", "exited"} => Closed
    /\ Canceled => confirmed
    /\ window = "open" => barMax = StatusMax
    /\ task \notin {"SetMarquee", "SetProgress"} => StatusMax = 100
    /\ Progress!ResultIsTrue /\ Progress!ObjectOutlivesTask

LEMMA ProgressStarts == Progress!Init => ProgressInv
BY DEF Progress!Init, ProgressInv, Progress!TypeOK, Progress!TaskPlaces, Finishing,
       Progress!ResultIsTrue, Progress!ObjectOutlivesTask

LEMMA ProgressStep ==
  ASSUME ProgressInv, [Progress!Next]_progressVars
  PROVE  ProgressInv'
<1> USE DEF ProgressInv, Progress!TypeOK, Progress!TaskPlaces, Finishing, Progress!ResultIsTrue,
            Progress!ObjectOutlivesTask, Progress!userVars, Progress!Destroy,
            Progress!Untouched
<1>1. CASE Progress!Construct
  BY <1>1 DEF Progress!Construct
<1>2. CASE Progress!UserCloses
  <2>1. CASE UserClose
    BY <1>2, <2>1 DEF Progress!UserCloses
  <2>2. CASE ~UserClose
    BY <1>2, <2>2 DEF Progress!UserCloses
  <2> QED
    BY <2>1, <2>2
<1>3. CASE Progress!AnswerYes
  BY <1>3 DEF Progress!AnswerYes
<1>4. CASE Progress!AnswerNo
  BY <1>4 DEF Progress!AnswerNo
<1>5. CASE Progress!CloseArrives
  BY <1>5 DEF Progress!CloseArrives
<1>6. CASE Progress!BoxEnds
  BY <1>6 DEF Progress!BoxEnds
<1>7. CASE Progress!JoinReturns
  BY <1>7 DEF Progress!JoinReturns
<1>8. CASE Progress!LocalsGo
  BY <1>8 DEF Progress!LocalsGo
<1>9. CASE Progress!ProcessEnds
  BY <1>9 DEF Progress!ProcessEnds
<1>10. CASE Progress!SetMarquee
  BY <1>10 DEF Progress!SetMarquee, Progress!TaskGoes
<1>11. CASE Progress!SetProgress
  BY <1>11 DEF Progress!SetProgress, Progress!TaskGoes
<1>12. CASE Progress!SetValue
  BY <1>12 DEF Progress!SetValue, Progress!TaskGoes
<1>13. CASE Progress!Completing
  BY <1>13 DEF Progress!Completing, Progress!TaskGoes
<1>14. CASE Progress!NotCanceled
  BY <1>14 DEF Progress!NotCanceled, Progress!TaskGoes
<1>15. CASE Progress!ClosedByTask
  BY <1>15 DEF Progress!ClosedByTask, Progress!TaskGoes
<1>16. CASE Progress!PostClose
  BY <1>16 DEF Progress!PostClose, Progress!TaskGoes
<1>17. CASE UNCHANGED progressVars
  BY <1>17 DEF progressVars
<1> QED
  BY <1>1, <1>2, <1>3, <1>4, <1>5, <1>6, <1>7, <1>8, <1>9, <1>10,
     <1>11, <1>12, <1>13, <1>14, <1>15, <1>16, <1>17
     DEF Progress!Next, Progress!MainStep, Progress!TaskStep

LEMMA ProgressCorrect ==
  ProgressInv => /\ Progress!ResultIsTrue /\ Progress!ObjectOutlivesTask
                 /\ Progress!RangeBeforeValue
BY DEF ProgressInv, Progress!TypeOK, Progress!RangeBeforeValue

-----------------------------------------------------------------------------
(* WinsockCoroutineJunie.  Where a connection is: not yet accepted, in the  *)
(* packet of the accept, with its handler, or over.                         *)
Taken(c) ==
    at["server"] = "accept" /\ op["server"].state = "done" /\ op["server"].result.sock = c

HandlerInv(c) ==
    /\ link[c] # "accepted" =>
         at[c] = "none" /\ Loop!End(c) \notin shut /\ ~Taken(c)
    /\ link[c] = "accepted" =>
         \/ at[c] = "none" /\ Loop!End(c) \notin shut /\ Taken(c)
         \/ at[c] \in {"recv", "send"} /\ Loop!End(c) \notin shut /\ ~Taken(c)
         \/ at[c] = "ended" /\ Loop!End(c) \in shut /\ ~Taken(c)
    /\ op[c].state = "none" <=> at[c] \in {"none", "ended"}
    /\ link[c] = "queued" => listening \/ c \in reset

(* Server::Run waits for one accept at a time, on a socket that listens.    *)
AcceptInv ==
    /\ at["server"] \in {"none", "accept", "ended"}
    /\ op["server"].state # "none" <=> at["server"] = "accept"
    /\ listening <=> at["server"] = "accept"
    /\ op["server"].state = "done" => op["server"].result.sock \in Loop!Conns
    /\ lMain = "start" => at["server"] = "none" /\ ~g_stop

Connecting == at["client"] = "connect" /\ op["client"].state = "pending"

(* Client::Run ends with its socket closed; its own connection is nobody's  *)
(* before its connect has completed.                                        *)
ConnectInv ==
    /\ at["client"] \in {"none", "connect", "send", "recv", "ended"}
    /\ op["client"].state = "none" <=> at["client"] \in {"none", "ended"}
    /\ g_stop => at["client"] = "ended" /\ Loop!End("client") \in shut
    /\ lMain = "start" => at["client"] = "none"
    /\ at["client"] = "none" \/ Connecting => link["own"] # "accepted" /\ link["own"] # "queued"

(* The type invariant, with the domains it leaves open.                     *)
LoopTypes ==
    /\ Loop!TypeOK
    /\ DOMAIN at = Loop!Coroutines /\ DOMAIN op = Loop!Coroutines /\ DOMAIN sending = Loop!Coroutines

(* All of it, for every connection: what HandlerPerConnection needs.        *)
HandlersInv == LoopTypes /\ AcceptInv /\ ConnectInv /\ \A c \in Loop!Conns : HandlerInv(c)

(* Coroutines and the ends of connections are told apart by their names.    *)
LEMMA LoopNames ==
  ASSUME Loop!LoopAssumption
  PROVE  /\ "own" \in Loop!Conns /\ Loop!Conns \subseteq Loop!Coroutines /\ Visitors \subseteq Loop!Conns
         /\ "own" \notin Visitors
         /\ "server" \in Loop!Coroutines /\ "client" \in Loop!Coroutines
         /\ "server" \notin Loop!Conns /\ "client" \notin Loop!Conns
         /\ \A k \in Loop!Coroutines : k \in Loop!Conns \/ k = "server" \/ k = "client"
         /\ \A c \in Loop!Conns : Loop!End(c) = <<c, "here">>
         /\ Loop!End("client") = <<"own", "there">>
         /\ \A c \in Loop!Conns : Loop!End(c) \in Loop!Sides /\ Loop!Peer(Loop!End(c)) = <<c, "there">>
         /\ Loop!End("client") \in Loop!Sides /\ Loop!Peer(Loop!End("client")) = Loop!End("own")
         /\ \A c \in Loop!Conns : Loop!End(c) # Loop!End("client")
         /\ \A c, d \in Loop!Conns : Loop!End(c) = Loop!End(d) => c = d
         /\ \A c \in Loop!Conns : Loop!End(c)[1] = c
         /\ Loop!End("client")[1] = "own"
         /\ \A c, d \in Loop!Conns : Loop!End(c) # <<d, "there">>
         /\ \A c \in Loop!Conns : <<c, "there">> \in Loop!Sides /\ <<c, "here">> \in Loop!Sides
<1>1. Loop!Conns = {"own"} \cup Visitors /\ Loop!Coroutines = {"server", "client"} \cup Loop!Conns
      /\ Loop!Sides = Loop!Conns \X {"here", "there"}
  BY DEF Loop!Conns, Loop!Coroutines, Loop!Handlers, Loop!Sides
<1>2. "server" \notin Loop!Conns /\ "client" \notin Loop!Conns /\ "own" \notin Visitors
  BY <1>1 DEF Loop!LoopAssumption
<1>3. \A c \in Loop!Conns : Loop!End(c) = <<c, "here">>
  BY <1>2 DEF Loop!End
<1>4. Loop!End("client") = <<"own", "there">>
  BY DEF Loop!End
<1> QED
  BY <1>1, <1>2, <1>3, <1>4 DEF Loop!Peer

(* What is reset stays so, and nothing of it is on its way any more.        *)
LEMMA ResetEffect ==
  ASSUME NEW cs, cs \subseteq Loop!Conns, reset \subseteq Loop!Conns, Loop!Resets(cs)
  PROVE  /\ reset \subseteq reset' /\ reset' \subseteq Loop!Conns /\ DOMAIN wire' = Loop!Sides
         /\ reset' = reset \cup cs
         /\ \A e \in Loop!Sides : wire'[e] = IF e[1] \in reset' THEN <<>> ELSE wire[e]
BY DEF Loop!Resets

LEMMA InitHandlers == Loop!LoopAssumption /\ Loop!Init => HandlersInv
<1> SUFFICES ASSUME Loop!LoopAssumption, Loop!Init PROVE HandlersInv
  OBVIOUS
<1>1. LoopTypes
  BY LoopNames DEF Loop!Init, LoopTypes, Loop!TypeOK, Loop!Under
<1>2. AcceptInv /\ ConnectInv
  BY LoopNames DEF Loop!Init, AcceptInv, ConnectInv, Connecting, Loop!Under
<1>3. \A c \in Loop!Conns : HandlerInv(c)
  BY LoopNames DEF Loop!Init, HandlerInv, Taken, Loop!Under
<1> QED
  BY <1>1, <1>2, <1>3 DEF HandlersInv

(* What does not concern a connection leaves it where it is.                *)
LEMMA SameCoroutine ==
  ASSUME NEW d \in Loop!Conns, HandlerInv(d), link'[d] = link[d], at'[d] = at[d],
         op'[d].state = "none" <=> op[d].state = "none",
         Loop!End(d) \in shut' <=> Loop!End(d) \in shut, Taken(d)' <=> Taken(d),
         link[d] = "queued" /\ listening => listening' \/ d \in reset',
         reset \subseteq reset'
  PROVE  HandlerInv(d)'
<1>1. Loop!End(d)' = Loop!End(d)
  BY DEF Loop!End
<1>2. /\ (Loop!End(d) \in shut)' <=> Loop!End(d) \in shut
  BY <1>1
<1> HIDE DEF Loop!End, Taken
<1> QED
  BY <1>2 DEF HandlerInv

(* Steps that leave the coroutines of the server and the handlers alone:    *)
(* the connections move on only as far as the queue.                        *)
LEMMA OutsideKeeps ==
  ASSUME Loop!LoopAssumption, HandlersInv, LoopTypes', ConnectInv',
         at'["server"] = at["server"], op'["server"] = op["server"],
         listening' = listening,
         lMain' = "start" => lMain = "start" /\ g_stop' = g_stop,
         reset \subseteq reset',
         \A c \in Loop!Conns : /\ at'[c] = at[c] /\ op'[c] = op[c]
                               /\ \/ link'[c] = link[c]
                                  \/ link[c] = "none" /\ link'[c] = "queued" /\ listening
                               /\ Loop!End(c) \in shut' <=> Loop!End(c) \in shut
  PROVE  HandlersInv'
<1>1. AcceptInv'
  BY DEF HandlersInv, AcceptInv
<1>2. ASSUME NEW c \in Loop!Conns PROVE HandlerInv(c)'
  <2>0. HandlerInv(c)
    BY DEF HandlersInv
  <2>1. Taken(c)' <=> Taken(c)
    BY DEF Taken
  <2>2. CASE link'[c] = link[c]
    BY <2>0, <2>1, <2>2, SameCoroutine
  <2>3. CASE link[c] = "none" /\ link'[c] = "queued" /\ listening
    <3>1. at[c] = "none" /\ Loop!End(c) \notin shut /\ ~Taken(c) /\ op[c].state = "none"
      BY <2>0, <2>3 DEF HandlerInv
    <3>2. (Loop!End(c) \in shut)' <=> Loop!End(c) \in shut
      BY DEF Loop!End
    <3> HIDE DEF Taken
    <3> QED
      BY <2>1, <2>3, <3>1, <3>2 DEF HandlerInv
  <2> QED
    BY <2>2, <2>3
<1> QED
  BY <1>1, <1>2 DEF HandlersInv

(* The thread goes on in the coroutine of a handler.                        *)
LEMMA CoroutineKeeps ==
  ASSUME Loop!LoopAssumption, HandlersInv, NEW c \in Loop!Conns, at[c] \in {"recv", "send"},
         NEW kind \in {"recv", "send"}, Loop!Awaits(c, kind) \/ Loop!Breaks(c),
         UNCHANGED <<lMain, g_stop, listening, link>>
  PROVE  /\ at'[c] \in {"recv", "send", "ended"} /\ HandlerInv(c)'
         /\ DOMAIN at' = Loop!Coroutines /\ DOMAIN op' = Loop!Coroutines
         /\ \A k \in Loop!Coroutines : k # c => at'[k] = at[k] /\ op'[k] = op[k]
         /\ op'[c] \in {Loop!Under("pending"), Loop!Under("none")}
         /\ reset \subseteq reset' /\ reset' \subseteq Loop!Conns /\ DOMAIN wire' = Loop!Sides
         /\ shut \subseteq shut' /\ shut' \subseteq shut \cup {Loop!End(c)}
<1>n. /\ c \in Loop!Coroutines /\ "server" # c /\ "client" # c /\ Loop!End(c) \in Loop!Sides /\ Loop!End(c)[1] = c
      /\ "server" \in Loop!Coroutines
  BY LoopNames
<1>0. /\ LoopTypes /\ HandlerInv(c) /\ reset \subseteq Loop!Conns /\ shut \subseteq Loop!Sides
      /\ DOMAIN wire = Loop!Sides
  BY DEF HandlersInv, LoopTypes, Loop!TypeOK
<1>1. /\ link[c] = "accepted" /\ Loop!End(c) \notin shut /\ ~Taken(c)
  BY <1>0 DEF HandlerInv
<1>2. CASE Loop!Awaits(c, kind)
  <2>1. /\ at'[c] = kind /\ op'[c] = Loop!Under("pending") /\ UNCHANGED <<shut, reset, wire>>
        /\ DOMAIN at' = Loop!Coroutines /\ DOMAIN op' = Loop!Coroutines
        /\ \A k \in Loop!Coroutines : k # c => at'[k] = at[k] /\ op'[k] = op[k]
    BY <1>0, <1>2, <1>n DEF Loop!Awaits, LoopTypes
  <2>2. ~Taken(c)' /\ (Loop!End(c) \notin shut)' /\ op'[c].state = "pending"
    BY <1>1, <1>n, <2>1 DEF Taken, Loop!Under, Loop!End
  <2>3. HandlerInv(c)'
    <3> HIDE DEF Taken, Loop!End
    <3> QED
      BY <1>1, <2>1, <2>2 DEF HandlerInv
  <2> QED
    BY <1>0, <2>1, <2>3
<1>3. CASE Loop!Breaks(c)
  <2>1. /\ at'[c] = "ended" /\ op'[c] = Loop!Under("none") /\ Loop!Closes(Loop!End(c))
        /\ DOMAIN at' = Loop!Coroutines /\ DOMAIN op' = Loop!Coroutines
        /\ \A k \in Loop!Coroutines : k # c => at'[k] = at[k] /\ op'[k] = op[k]
    BY <1>0, <1>3, <1>n DEF Loop!Breaks, LoopTypes
  <2>2. shut' = shut \cup {Loop!End(c)}
    BY <2>1 DEF Loop!Closes
  <2>3. reset \subseteq reset' /\ reset' \subseteq Loop!Conns /\ DOMAIN wire' = Loop!Sides
    <3>1. PICK cs : cs \subseteq Loop!Conns /\ Loop!Resets(cs)
      BY <1>n, <2>1 DEF Loop!Closes
    <3> QED
      BY <1>0, <3>1, ResetEffect
  <2>4. ~Taken(c)' /\ (Loop!End(c) \in shut)' /\ op'[c].state = "none"
    BY <1>1, <1>n, <2>1, <2>2 DEF Taken, Loop!Under, Loop!End
  <2>5. HandlerInv(c)'
    <3> HIDE DEF Taken, Loop!End
    <3> QED
      BY <1>1, <2>1, <2>4 DEF HandlerInv
  <2> QED
    BY <2>1, <2>2, <2>3, <2>5
<1> QED
  BY <1>2, <1>3

(* Every step of the program keeps it.                                      *)
LEMMA HandlersStep ==
  ASSUME Loop!LoopAssumption, HandlersInv, [Loop!Next]_loopVars
  PROVE  HandlersInv'
<1>n. /\ "own" \in Loop!Conns /\ Loop!Conns \subseteq Loop!Coroutines
      /\ "server" \in Loop!Coroutines /\ "client" \in Loop!Coroutines
      /\ "server" \notin Loop!Conns /\ "client" \notin Loop!Conns
      /\ \A k \in Loop!Coroutines : k \in Loop!Conns \/ k = "server" \/ k = "client"
      /\ Visitors \subseteq Loop!Conns /\ Loop!Handlers = Loop!Conns
      /\ Loop!End("client") \in Loop!Sides /\ (\A c \in Loop!Conns : Loop!End(c) \in Loop!Sides)
      /\ (\A c, d \in Loop!Conns : Loop!End(c) = Loop!End(d) => c = d)
      /\ (\A c \in Loop!Conns : Loop!End(c)[1] = c) /\ Loop!End("client")[1] = "own"
      /\ (\A c \in Loop!Conns : Loop!End(c) # Loop!End("client"))
      /\ (\A c, d \in Loop!Conns : Loop!End(c) # <<d, "there">>) /\ (\A c \in Loop!Conns : <<c, "there">> \in Loop!Sides)
  BY LoopNames DEF Loop!Handlers
<1>0. /\ LoopTypes /\ AcceptInv /\ ConnectInv /\ \A c \in Loop!Conns : HandlerInv(c)
      /\ reset \subseteq Loop!Conns /\ shut \subseteq Loop!Sides /\ DOMAIN wire = Loop!Sides
      /\ DOMAIN at = Loop!Coroutines /\ DOMAIN op = Loop!Coroutines /\ DOMAIN sending = Loop!Coroutines
      /\ link \in [Loop!Conns -> {"none", "queued", "accepted"}]
      /\ lMain \in {"start", "loop", "ended"} /\ g_stop \in BOOLEAN
      /\ \A k \in Loop!Coroutines :
           /\ at[k] \in {"none", "accept", "connect", "recv", "send", "ended"}
           /\ op[k].state \in {"none", "pending", "done"}
  BY DEF HandlersInv, LoopTypes, Loop!TypeOK
<1>s. Loop!End("client")' = Loop!End("client") /\ \A c : Loop!End(c)' = Loop!End(c)
  BY DEF Loop!End
<1>1. CASE Loop!Start
  <2>1. CASE lMain' = "ended" /\ UNCHANGED <<at, op, listening>>
    <3>1. UNCHANGED <<g_stop, link, wire, sending, shut, reset, echo>>
      BY <1>1 DEF Loop!Start
    <3>2. LoopTypes' /\ ConnectInv'
      BY <1>0, <1>s, <2>1, <3>1 DEF LoopTypes, Loop!TypeOK, ConnectInv, Connecting
    <3> QED
      BY <1>0, <1>n, <2>1, <3>1, <3>2, OutsideKeeps
  <2>2. CASE lMain' = "loop"
    <3>1. PICK listens \in BOOLEAN, connects \in BOOLEAN :
            /\ listening' = listens
            /\ at' = [at EXCEPT
                        !["server"] = IF listens THEN "accept" ELSE "ended",
                        !["client"] = IF connects THEN "connect" ELSE "ended"]
            /\ op' = [k \in Loop!Coroutines |->
                        IF k \in (IF listens THEN {"server"} ELSE {})
                                   \cup (IF connects THEN {"client"} ELSE {})
                        THEN Loop!Under("pending") ELSE op[k]]
      BY <1>1, <2>2 DEF Loop!Start
    <3>2. /\ lMain = "start" /\ UNCHANGED <<g_stop, link, wire, sending, shut, reset, echo>>
      BY <1>1 DEF Loop!Start
    <3>3. /\ at["server"] = "none" /\ ~g_stop /\ ~listening
          /\ op["server"].state = "none"
      BY <1>0, <1>n, <3>2 DEF AcceptInv
    <3>4. /\ at'["server"] = IF listens THEN "accept" ELSE "ended"
          /\ at'["client"] = IF connects THEN "connect" ELSE "ended"
          /\ op'["server"] = IF listens THEN Loop!Under("pending") ELSE op["server"]
          /\ op'["client"] = IF connects THEN Loop!Under("pending") ELSE op["client"]
          /\ \A c \in Loop!Conns : at'[c] = at[c] /\ op'[c] = op[c]
      BY <1>0, <1>n, <3>1
    <3>5. LoopTypes'
      BY <1>0, <1>n, <2>2, <3>1, <3>2 DEF LoopTypes, Loop!TypeOK, Loop!Under
    <3>6. AcceptInv'
      BY <1>0, <1>n, <2>2, <3>1, <3>2, <3>3, <3>4 DEF AcceptInv, Loop!Under
    <3>7. ConnectInv' /\ \A c \in Loop!Conns : HandlerInv(c)'
      <4>1. op["client"].state = "none" /\ at["client"] = "none"
        BY <1>0, <3>2 DEF ConnectInv, Connecting
      <4>2. ConnectInv'
        <5>1. link["own"] # "accepted" /\ link["own"] # "queued"
          BY <1>0, <4>1 DEF ConnectInv
        <5>2. ~g_stop' /\ lMain' # "start" /\ link'["own"] = link["own"]
          BY <2>2, <3>2, <3>3
        <5>3. op'["client"].state = "none" <=> at'["client"] \in {"none", "ended"}
          BY <3>4, <4>1 DEF Loop!Under
        <5>4. at'["client"] \in {"connect", "ended"}
          BY <3>4
        <5> QED
          BY <5>1, <5>2, <5>3, <5>4 DEF ConnectInv
      <4>3. ASSUME NEW c \in Loop!Conns PROVE HandlerInv(c)'
        <5>1. ~Taken(c) /\ ~Taken(c)'
          BY <3>3, <3>4 DEF Taken, Loop!Under
        <5>2. HandlerInv(c) /\ (link[c] = "queued" => c \in reset)
          BY <1>0, <3>3 DEF HandlerInv
        <5> HIDE DEF Taken
        <5>3. link'[c] = link[c] /\ at'[c] = at[c] /\ op'[c] = op[c] /\ shut' = shut /\ reset' = reset
          BY <3>2, <3>4
        <5> QED
          BY <3>3, <5>1, <5>2, <5>3, SameCoroutine
      <4> QED
        BY <4>2, <4>3
    <3> QED
      BY <3>5, <3>6, <3>7 DEF HandlersInv
  <2> QED
    BY <1>1, <2>1, <2>2 DEF Loop!Start

<1>2. CASE Loop!ServerAccepted
  <2> DEFINE h == op["server"].result.sock
  <2>1. /\ at["server"] = "accept" /\ op["server"].state = "done" /\ h \in Loop!Conns /\ lMain = "loop"
        /\ link[h] = "accepted"
    <3>1. /\ at["server"] = "accept" /\ op["server"].state = "done" /\ h \in Loop!Conns /\ lMain = "loop"
      BY <1>0, <1>2 DEF Loop!ServerAccepted, Loop!Resumes, AcceptInv
    <3>2. Taken(h)
      BY <3>1 DEF Taken
    <3>3. HandlerInv(h)
      BY <1>0, <3>1
    <3> HIDE DEF h, Taken
    <3>4. link[h] = "accepted"
      BY <3>2, <3>3 DEF HandlerInv
    <3> QED
      BY <3>1, <3>4
  <2>2. PICK receives \in BOOLEAN, listens \in BOOLEAN :
            LET dropped == IF listens THEN {} ELSE {c \in Loop!Conns : link[c] = "queued"}
                unread == IF wire[Loop!End(h)] # <<>> THEN {h} ELSE {}
            IN  /\ at' = [at EXCEPT
                            ![h] = IF receives THEN "recv" ELSE "ended",
                            !["server"] = IF listens THEN "accept" ELSE "ended"]
                /\ op' = [op EXCEPT
                            ![h] = Loop!Under(IF receives THEN "pending" ELSE "none"),
                            !["server"] = Loop!Under(IF listens THEN "pending" ELSE "none")]
                /\ listening' = listens
                /\ shut' = IF receives THEN shut ELSE shut \cup {Loop!End(h)}
                /\ Loop!Resets(dropped \cup IF receives THEN {} ELSE unread)
    BY <1>2 DEF Loop!ServerAccepted
  <2>3. PICK cs : /\ cs \subseteq Loop!Conns /\ Loop!Resets(cs)
                  /\ ~listens => {c \in Loop!Conns : link[c] = "queued"} \subseteq cs
    <3>1. h \in Loop!Conns
      BY <2>1
    <3> HIDE DEF h
    <3> QED
      BY <2>2, <3>1
  <2>4. UNCHANGED <<lMain, g_stop, link, sending, echo>>
    BY <1>2 DEF Loop!ServerAccepted
  <2>h. h \in Loop!Coroutines /\ h # "server" /\ h # "client" /\ h \in Loop!Conns
    BY <1>n, <2>1
  <2>5. PICK c : c = h
    OBVIOUS
  <2>6. /\ at'[c] = (IF receives THEN "recv" ELSE "ended")
        /\ at'["server"] = (IF listens THEN "accept" ELSE "ended")
        /\ op'[c].state = (IF receives THEN "pending" ELSE "none")
        /\ op'["server"].state = (IF listens THEN "pending" ELSE "none")
        /\ \A k \in Loop!Coroutines : k # c /\ k # "server" => at'[k] = at[k] /\ op'[k] = op[k]
        /\ DOMAIN at' = Loop!Coroutines /\ DOMAIN op' = Loop!Coroutines
        /\ listening' = listens /\ shut' = (IF receives THEN shut ELSE shut \cup {Loop!End(c)})
        /\ c \in Loop!Conns /\ link[c] = "accepted"
    BY <1>0, <1>n, <2>1, <2>2, <2>h, <2>5 DEF Loop!Under
  <2>7. /\ reset \subseteq reset' /\ reset' \subseteq Loop!Conns /\ DOMAIN wire' = Loop!Sides
        /\ reset' = reset \cup cs
    BY <1>0, <2>3, ResetEffect
  <2> HIDE DEF h
  <2>8. LoopTypes'
    <3>1. \A k \in Loop!Coroutines : /\ at'[k] \in {"none", "accept", "connect", "recv", "send", "ended"}
                                     /\ op'[k].state \in {"none", "pending", "done"}
      BY <1>0, <2>6
    <3>2. shut' \subseteq Loop!Sides
      BY <1>0, <1>n, <2>6
    <3> QED
      BY <1>0, <2>4, <2>6, <2>7, <3>1, <3>2 DEF LoopTypes, Loop!TypeOK
  <2>9. AcceptInv'
    BY <2>1, <2>4, <2>6 DEF AcceptInv
  <2>10. ConnectInv'
    <3>1. at'["client"] = at["client"] /\ op'["client"] = op["client"]
      BY <1>n, <2>6
    <3>2. Loop!End("client") \in shut => Loop!End("client") \in shut'
      BY <2>6
    <3> QED
      BY <1>0, <1>s, <2>4, <3>1, <3>2 DEF ConnectInv, Connecting
  <2>11. ASSUME NEW d \in Loop!Conns PROVE HandlerInv(d)'
    <3>1. ~Taken(d)'
      BY <2>6 DEF Taken
    <3>2. CASE d = c
      <4>1. (Loop!End(d) \in shut)' <=> ~receives
        <5>1. Taken(d) /\ HandlerInv(d)
          BY <1>0, <2>1, <2>5, <3>2 DEF Taken, h
        <5> HIDE DEF Taken
        <5>2. Loop!End(d) \notin shut
          BY <2>6, <3>2, <5>1 DEF HandlerInv
        <5>3. (Loop!End(d) \in shut)' <=> Loop!End(d) \in shut'
          BY <1>s
        <5> HIDE DEF Loop!End
        <5> QED
          BY <2>6, <3>2, <5>2, <5>3
      <4> HIDE DEF Taken, Loop!End
      <4> QED
        BY <2>4, <2>6, <3>1, <3>2, <4>1 DEF HandlerInv
    <3>3. CASE d # c
      <4>1. ~Taken(d)
        BY <2>5, <3>3 DEF Taken, h
      <4>2. at'[d] = at[d] /\ op'[d] = op[d] /\ link'[d] = link[d]
        BY <1>n, <2>4, <2>6, <3>3
      <4>3. Loop!End(d) \in shut' <=> Loop!End(d) \in shut
        BY <1>n, <2>6, <3>3
      <4>4. link[d] = "queued" => listening' \/ d \in reset'
        BY <2>3, <2>6, <2>7
      <4>5. HandlerInv(d)
        BY <1>0
      <4> HIDE DEF Taken, Loop!End
      <4> QED
        BY <2>7, <3>1, <4>1, <4>2, <4>3, <4>4, <4>5, SameCoroutine
    <3> QED
      BY <3>2, <3>3
  <2> QED
    BY <2>8, <2>9, <2>10, <2>11 DEF HandlersInv
<1>3. ASSUME NEW c \in Loop!Handlers, Loop!HandlerReceived(c) \/ Loop!HandlerSent(c) PROVE HandlersInv'
  <2>0. c \in Loop!Conns /\ at[c] \in {"recv", "send"}
    BY <1>3, <1>n DEF Loop!HandlerReceived, Loop!HandlerSent, Loop!Resumes
  <2>1. PICK kind \in {"recv", "send"} : Loop!Awaits(c, kind) \/ Loop!Breaks(c)
    BY <1>3 DEF Loop!HandlerReceived, Loop!HandlerSent
  <2>2. UNCHANGED <<lMain, g_stop, listening, link, echo>>
    BY <1>3 DEF Loop!HandlerReceived, Loop!HandlerSent
  <2>3. DOMAIN sending' = Loop!Coroutines
    BY <1>3, <1>0 DEF Loop!HandlerReceived, Loop!HandlerSent
  <2>4. /\ at'[c] \in {"recv", "send", "ended"} /\ HandlerInv(c)'
        /\ DOMAIN at' = Loop!Coroutines /\ DOMAIN op' = Loop!Coroutines
        /\ \A k \in Loop!Coroutines : k # c => at'[k] = at[k] /\ op'[k] = op[k]
        /\ op'[c] \in {Loop!Under("pending"), Loop!Under("none")}
        /\ reset \subseteq reset' /\ reset' \subseteq Loop!Conns /\ DOMAIN wire' = Loop!Sides
        /\ shut \subseteq shut' /\ shut' \subseteq shut \cup {Loop!End(c)}
    BY <2>0, <2>1, <2>2, CoroutineKeeps
  <2>5. LoopTypes'
    <3>1. \A k \in Loop!Coroutines : /\ at'[k] \in {"none", "accept", "connect", "recv", "send", "ended"}
                                     /\ op'[k].state \in {"none", "pending", "done"}
      BY <1>0, <2>4 DEF Loop!Under
    <3>2. shut' \subseteq Loop!Sides
      BY <1>0, <1>n, <2>0, <2>4
    <3> QED
      BY <1>0, <2>2, <2>3, <2>4, <3>1, <3>2 DEF LoopTypes, Loop!TypeOK
  <2>6. /\ at'["server"] = at["server"] /\ op'["server"] = op["server"]
        /\ at'["client"] = at["client"] /\ op'["client"] = op["client"]
    BY <1>n, <2>0, <2>4
  <2>7. AcceptInv'
    BY <1>0, <2>2, <2>6 DEF AcceptInv
  <2>8. ConnectInv'
    BY <1>0, <1>s, <2>2, <2>4, <2>6 DEF ConnectInv, Connecting
  <2>9. ASSUME NEW d \in Loop!Conns, d # c PROVE HandlerInv(d)'
    <3>1. Taken(d)' <=> Taken(d)
      BY <2>6 DEF Taken
    <3>2. at'[d] = at[d] /\ op'[d] = op[d] /\ link'[d] = link[d]
      BY <1>n, <2>2, <2>4, <2>9
    <3>3. Loop!End(d) \in shut' <=> Loop!End(d) \in shut
      BY <1>n, <2>0, <2>4, <2>9
    <3> HIDE DEF Taken, Loop!End
    <3> QED
      BY <1>0, <2>2, <2>4, <3>1, <3>2, <3>3, SameCoroutine
  <2> QED
    BY <2>4, <2>5, <2>7, <2>8, <2>9 DEF HandlersInv

<1>4. CASE Loop!ClientConnected \/ Loop!ClientSent \/ Loop!ClientReceived
  <2>1. PICK kind \in {"recv", "send"} : Loop!Awaits("client", kind) \/ Loop!Breaks("client")
    BY <1>4 DEF Loop!ClientConnected, Loop!ClientSent, Loop!ClientReceived
  <2>2. /\ UNCHANGED <<lMain, listening, link>> /\ DOMAIN sending' = Loop!Coroutines /\ ~g_stop
        /\ lMain = "loop" /\ at["client"] \in {"connect", "send", "recv"}
        /\ g_stop' \in BOOLEAN /\ (g_stop' => Loop!Breaks("client"))
    <3>1. CASE Loop!ClientConnected
      BY <1>0, <3>1 DEF Loop!ClientConnected, Loop!Resumes
    <3>2. CASE Loop!ClientSent
      BY <1>0, <3>2 DEF Loop!ClientSent, Loop!Resumes
    <3>3. CASE Loop!ClientReceived
      BY <1>0, <3>3 DEF Loop!ClientReceived, Loop!Resumes
    <3> QED
      BY <1>4, <3>1, <3>2, <3>3
  <2>3. /\ DOMAIN at' = Loop!Coroutines /\ DOMAIN op' = Loop!Coroutines
        /\ \A k \in Loop!Coroutines : k # "client" => at'[k] = at[k] /\ op'[k] = op[k]
        /\ at'["client"] \in {kind, "ended"}
        /\ op'["client"].state = IF at'["client"] = "ended" THEN "none" ELSE "pending"
    BY <1>0, <1>n, <2>1 DEF Loop!Awaits, Loop!Breaks, Loop!Under
  <2>4. /\ reset \subseteq reset' /\ reset' \subseteq Loop!Conns /\ DOMAIN wire' = Loop!Sides
        /\ shut \subseteq shut' /\ shut' \subseteq shut \cup {Loop!End("client")}
        /\ Loop!Breaks("client") => at'["client"] = "ended" /\ Loop!End("client") \in shut'
    <3>1. CASE Loop!Awaits("client", kind)
      <4>1. UNCHANGED <<shut, reset, wire>> /\ at'["client"] = kind
        BY <1>0, <1>n, <3>1 DEF Loop!Awaits
      <4>2. Loop!Breaks("client") => at'["client"] = "ended"
        BY <1>0, <1>n DEF Loop!Breaks
      <4> HIDE DEF Loop!End
      <4> QED
        BY <1>0, <4>1, <4>2
    <3>2. CASE Loop!Breaks("client")
      <4>1. at'["client"] = "ended" /\ Loop!Closes(Loop!End("client"))
        BY <1>0, <1>n, <3>2 DEF Loop!Breaks
      <4>2. PICK cs : cs \subseteq Loop!Conns /\ Loop!Resets(cs)
        BY <1>n, <4>1 DEF Loop!Closes
      <4>3. shut' = shut \cup {Loop!End("client")}
        BY <4>1 DEF Loop!Closes
      <4> HIDE DEF Loop!End
      <4> QED
        BY <1>0, <4>1, <4>2, <4>3, ResetEffect
    <3> QED
      BY <2>1, <3>1, <3>2
  <2>5. LoopTypes'
    <3>1. \A k \in Loop!Coroutines : /\ at'[k] \in {"none", "accept", "connect", "recv", "send", "ended"}
                                     /\ op'[k].state \in {"none", "pending", "done"}
      BY <1>0, <2>1, <2>3
    <3>2. shut' \subseteq Loop!Sides
      BY <1>0, <1>n, <2>4
    <3> QED
      BY <1>0, <2>2, <2>3, <2>4, <3>1, <3>2 DEF LoopTypes, Loop!TypeOK
  <2>6. ConnectInv'
    <3> HIDE DEF Loop!End
    <3>1. (Loop!End("client") \in shut)' <=> Loop!End("client") \in shut'
      BY <1>s
    <3> QED
      BY <2>1, <2>2, <2>3, <2>4, <3>1 DEF ConnectInv, Connecting
  <2>7. \A c \in Loop!Conns : /\ at'[c] = at[c] /\ op'[c] = op[c] /\ link'[c] = link[c]
                              /\ Loop!End(c) \in shut' <=> Loop!End(c) \in shut
    <3>1. \A c \in Loop!Conns : c # "client" /\ c \in Loop!Coroutines
      BY <1>n
    <3> HIDE DEF Loop!End
    <3>2. \A c \in Loop!Conns : Loop!End(c) # Loop!End("client")
      BY <1>n
    <3> QED
      BY <2>2, <2>3, <2>4, <3>1, <3>2
  <2> QED
    BY <1>n, <2>2, <2>3, <2>4, <2>5, <2>6, <2>7, OutsideKeeps
<1>5. CASE Loop!MainLeaves
  <2>1. UNCHANGED <<g_stop, at, op, sending, echo, listening, link, wire, shut, reset>> /\ lMain' = "ended"
    BY <1>5 DEF Loop!MainLeaves, Loop!network
  <2>2. LoopTypes' /\ ConnectInv'
    BY <1>0, <1>s, <2>1 DEF LoopTypes, Loop!TypeOK, ConnectInv, Connecting
  <2> QED
    BY <1>0, <1>n, <2>1, <2>2, OutsideKeeps
<1>6. ASSUME NEW k \in Loop!Coroutines, NEW r, NEW kind \in {"connect", "recv", "send"}, k # "server",
             Loop!Completes(k, kind, r), UNCHANGED <<listening, shut>>, reset \subseteq reset',
             reset' \subseteq Loop!Conns, DOMAIN wire' = Loop!Sides,
             link' = link \/ (k = "client" /\ kind = "connect" /\ listening
                               /\ link' = [link EXCEPT !["own"] = "queued"])
      PROVE  HandlersInv'
  <2>1. /\ UNCHANGED <<lMain, g_stop, at, sending, echo>> /\ lMain = "loop"
        /\ at[k] = kind /\ op[k].state = "pending"
        /\ DOMAIN op' = Loop!Coroutines /\ op'[k].state = "done"
        /\ \A j \in Loop!Coroutines : j # k => op'[j] = op[j]
    BY <1>0, <1>6 DEF Loop!Completes, Loop!Packet
  <2>2. link' \in [Loop!Conns -> {"none", "queued", "accepted"}]
    BY <1>0, <1>n, <1>6
  <2>3. LoopTypes'
    <3>1. \A j \in Loop!Coroutines : op'[j].state \in {"none", "pending", "done"}
      BY <1>0, <2>1
    <3> QED
      BY <1>0, <1>6, <2>1, <2>2, <3>1 DEF LoopTypes, Loop!TypeOK
  <2>4. ConnectInv'
    <3>1. op'["client"].state = "none" <=> op["client"].state = "none"
      BY <1>n, <2>1
    <3>2. at["client"] = "none" \/ Connecting' => k # "client" /\ link' = link
      BY <1>n, <1>6, <2>1 DEF Connecting
    <3>3. k # "client" => (Connecting' <=> Connecting)
      BY <1>n, <2>1 DEF Connecting
    <3> HIDE DEF Loop!End, Connecting
    <3> QED
      BY <1>0, <1>s, <1>6, <2>1, <3>1, <3>2, <3>3 DEF ConnectInv
  <2>5. op'["server"] = op["server"] /\ at' = at
    BY <1>n, <1>6, <2>1
  <2>6. CASE k = "client" /\ link' = link
    <3>1. \A c \in Loop!Conns : op'[c] = op[c]
      BY <1>n, <2>1, <2>6
    <3> QED
      BY <1>0, <1>6, <2>1, <2>3, <2>4, <2>5, <2>6, <3>1, OutsideKeeps
  <2>7. CASE k = "client" /\ kind = "connect" /\ listening /\ link' = [link EXCEPT !["own"] = "queued"]
    <3>1. \A c \in Loop!Conns : op'[c] = op[c]
      BY <1>n, <2>1, <2>7
    <3>2. link["own"] = "none"
      BY <1>0, <1>n, <2>1, <2>7 DEF ConnectInv, Connecting
    <3>3. \A c \in Loop!Conns : link'[c] = link[c] \/ (link[c] = "none" /\ link'[c] = "queued" /\ listening)
      BY <1>0, <2>7, <3>2
    <3> QED
      BY <1>0, <1>6, <2>1, <2>3, <2>4, <2>5, <3>1, <3>3, OutsideKeeps
  <2>8. CASE k \in Loop!Conns /\ link' = link
    <3>1. AcceptInv'
      BY <1>0, <1>6, <2>1, <2>5 DEF AcceptInv
    <3>2. ASSUME NEW c \in Loop!Conns PROVE HandlerInv(c)'
      <4>1. Taken(c)' <=> Taken(c)
        BY <2>5 DEF Taken
      <4>2. op'[c].state = "none" <=> op[c].state = "none"
        BY <1>n, <2>1
      <4> HIDE DEF Taken, Loop!End
      <4> QED
        BY <1>0, <1>6, <2>1, <2>8, <4>1, <4>2, SameCoroutine
    <3> QED
      BY <2>3, <2>4, <3>1, <3>2 DEF HandlersInv
  <2> QED
    BY <1>n, <1>6, <2>6, <2>7, <2>8
<1>7. CASE Loop!CompletesConnect
  <2>1. CASE listening /\ Loop!Completes("client", "connect", Loop!Nothing)
             /\ link' = [link EXCEPT !["own"] = "queued"] /\ UNCHANGED <<listening, wire, shut, reset>>
    BY <1>0, <1>6, <1>n, <2>1
  <2>2. CASE Loop!Completes("client", "connect", Loop!Failed) /\ UNCHANGED Loop!network
    BY <1>0, <1>6, <1>n, <2>2 DEF Loop!network
  <2> QED
    BY <1>7, <2>1, <2>2 DEF Loop!CompletesConnect
<1>8. ASSUME NEW k \in Loop!Coroutines, k # "server", Loop!CompletesRecv(k) \/ Loop!CompletesSend(k)
      PROVE  HandlersInv'
  <2>0. Loop!End(k) \in Loop!Sides /\ Loop!End(k)[1] \in Loop!Conns
    BY <1>n, <1>8
  <2>1. PICK kind, r : kind \in {"recv", "send"} /\ Loop!Completes(k, kind, r)
    <3>1. CASE Loop!CompletesRecv(k)
      <4>1. \E r : Loop!Completes(k, "recv", r)
        BY <3>1 DEF Loop!CompletesRecv
      <4> QED
        BY <4>1
    <3>2. CASE Loop!CompletesSend(k)
      <4>1. \E r : Loop!Completes(k, "send", r)
        BY <3>2 DEF Loop!CompletesSend
      <4> QED
        BY <4>1
    <3> QED
      BY <1>8, <3>1, <3>2
  <2>2. UNCHANGED <<listening, shut, link>>
    BY <1>8 DEF Loop!CompletesRecv, Loop!CompletesSend, Loop!network
  <2>3. reset \subseteq reset' /\ reset' \subseteq Loop!Conns /\ DOMAIN wire' = Loop!Sides
    <3>1. CASE UNCHANGED reset /\ DOMAIN wire' = DOMAIN wire
      BY <1>0, <3>1
    <3>2. CASE \E cs : cs \subseteq Loop!Conns /\ Loop!Resets(cs)
      BY <1>0, <3>2, ResetEffect
    <3>3. CASE Loop!CompletesRecv(k)
      <4>1. UNCHANGED reset /\ DOMAIN wire' = DOMAIN wire
        BY <3>3 DEF Loop!CompletesRecv, Loop!network
      <4> QED
        BY <3>1, <4>1
    <3>4. CASE Loop!CompletesSend(k)
      <4>1. \/ UNCHANGED reset /\ DOMAIN wire' = DOMAIN wire
            \/ Loop!Resets({Loop!End(k)[1]})
        BY <3>4 DEF Loop!CompletesSend, Loop!network
      <4> HIDE DEF Loop!End, Loop!Resets
      <4>2. {Loop!End(k)[1]} \subseteq Loop!Conns
        BY <2>0
      <4> QED
        BY <3>1, <3>2, <4>1, <4>2
    <3> QED
      BY <1>8, <3>3, <3>4
  <2> QED
    BY <1>6, <1>8, <2>1, <2>2, <2>3
<1>9. CASE Loop!CompletesAccept
  <2>1. PICK c \in Loop!Conns, failed \in BOOLEAN :
        /\ link[c] = "queued"
        /\ Loop!Completes("server", "accept", [Loop!Nothing EXCEPT !.sock = c, !.error = failed])
        /\ link' = [link EXCEPT ![c] = "accepted"]
        /\ Loop!Resets(IF failed THEN {c} ELSE {})
        /\ UNCHANGED <<listening, shut>>
    BY <1>9 DEF Loop!CompletesAccept
  <2>2. /\ UNCHANGED <<lMain, g_stop, at, sending, echo>> /\ lMain = "loop"
        /\ at["server"] = "accept" /\ op["server"].state = "pending"
        /\ DOMAIN op' = Loop!Coroutines /\ op'["server"].state = "done" /\ op'["server"].result.sock = c
        /\ \A j \in Loop!Coroutines : j # "server" => op'[j] = op[j]
    BY <1>0, <1>n, <2>1 DEF Loop!Completes, Loop!Packet, Loop!Nothing
  <2>3. /\ reset \subseteq reset' /\ reset' \subseteq Loop!Conns /\ DOMAIN wire' = Loop!Sides
    BY <1>0, <2>1, ResetEffect
  <2>4. LoopTypes'
    <3>1. link' \in [Loop!Conns -> {"none", "queued", "accepted"}]
      BY <1>0, <2>1
    <3>2. \A j \in Loop!Coroutines : op'[j].state \in {"none", "pending", "done"}
      BY <1>0, <2>2
    <3> QED
      BY <1>0, <2>1, <2>2, <2>3, <3>1, <3>2 DEF LoopTypes, Loop!TypeOK
  <2>5. AcceptInv'
    BY <1>0, <2>1, <2>2 DEF AcceptInv
  <2>6. ConnectInv'
    <3>1. op'["client"] = op["client"]
      BY <1>n, <2>2
    <3>2. at["client"] = "none" \/ Connecting => c # "own" /\ link'["own"] = link["own"]
      BY <1>0, <1>n, <2>1 DEF ConnectInv
    <3>3. Connecting' <=> Connecting
      BY <2>2, <3>1 DEF Connecting
    <3> HIDE DEF Loop!End, Connecting
    <3> QED
      BY <1>0, <1>s, <2>1, <2>2, <3>1, <3>2, <3>3 DEF ConnectInv
  <2>7. ASSUME NEW d \in Loop!Conns PROVE HandlerInv(d)'
    <3>0. op'[d] = op[d] /\ at'[d] = at[d] /\ shut' = shut /\ HandlerInv(d)
      BY <1>0, <1>n, <2>1, <2>2
    <3>1. CASE d = c
      <4>1. Taken(d)' /\ link'[d] = "accepted"
        BY <1>0, <2>1, <2>2, <3>1 DEF Taken
      <4>2. at[d] = "none" /\ Loop!End(d) \notin shut /\ op[d].state = "none"
        BY <2>1, <3>0, <3>1 DEF HandlerInv
      <4>3. (Loop!End(d) \notin shut)'
        BY <1>s, <3>0, <4>2
      <4> HIDE DEF Loop!End, Taken
      <4> QED
        BY <3>0, <4>1, <4>2, <4>3 DEF HandlerInv
    <3>2. CASE d # c
      <4>1. ~Taken(d) /\ ~Taken(d)' /\ link'[d] = link[d]
        BY <1>0, <2>1, <2>2, <3>2 DEF Taken
      <4> HIDE DEF Loop!End, Taken
      <4> QED
        BY <2>1, <2>3, <3>0, <4>1, SameCoroutine
    <3> QED
      BY <3>1, <3>2
  <2> QED
    BY <2>4, <2>5, <2>6, <2>7 DEF HandlersInv
<1>10. ASSUME NEW c \in Loop!Conns, Loop!VisitorCloses(c) \/ Loop!ConnectionBreaks(c) PROVE HandlersInv'
  <2>1. UNCHANGED <<lMain, g_stop, at, op, listening, link, sending, echo>>
    BY <1>10 DEF Loop!VisitorCloses, Loop!ConnectionBreaks
  <2>2. shut' = shut \/ shut' = shut \cup {<<c, "there">>}
    BY <1>10 DEF Loop!VisitorCloses, Loop!ConnectionBreaks, Loop!Closes
  <2>3. reset \subseteq reset' /\ reset' \subseteq Loop!Conns /\ DOMAIN wire' = Loop!Sides
    <3>1. \E cs : cs \subseteq Loop!Conns /\ Loop!Resets(cs)
      <4>1. CASE Loop!ConnectionBreaks(c)
        BY <4>1 DEF Loop!ConnectionBreaks
      <4>2. CASE Loop!VisitorCloses(c)
        <5>1. PICK cs : (cs = {} \/ cs = {<<c, "there">>[1]}) /\ Loop!Resets(cs)
          BY <4>2 DEF Loop!VisitorCloses, Loop!Closes
        <5>2. <<c, "there">>[1] = c
          OBVIOUS
        <5> QED
          BY <5>1, <5>2
      <4> QED
        BY <1>10, <4>1, <4>2
    <3> QED
      BY <1>0, <3>1, ResetEffect
  <2>4. LoopTypes'
    <3>1. shut' \subseteq Loop!Sides
      BY <1>0, <1>n, <2>2
    <3> QED
      BY <1>0, <2>1, <2>3, <3>1 DEF LoopTypes, Loop!TypeOK
  <2>5. \A d \in Loop!Conns : Loop!End(d) \in shut' <=> Loop!End(d) \in shut
    <3>1. \A d \in Loop!Conns : Loop!End(d) # <<c, "there">>
      BY <1>n
    <3> HIDE DEF Loop!End
    <3> QED
      BY <2>2, <3>1
  <2>6. ConnectInv'
    <3>1. Loop!End("client") \in shut => (Loop!End("client") \in shut)'
      <4> HIDE DEF Loop!End
      <4> QED
        BY <1>s, <2>2
    <3> HIDE DEF Loop!End
    <3> QED
      BY <1>0, <2>1, <3>1 DEF ConnectInv, Connecting
  <2> QED
    BY <1>0, <2>1, <2>3, <2>4, <2>5, <2>6, OutsideKeeps
<1>11. ASSUME NEW c \in Visitors, Loop!VisitorConnects(c) PROVE HandlersInv'
  <2>1. /\ UNCHANGED <<lMain, g_stop, at, op, listening, sending, shut, reset, echo>>
        /\ link[c] = "none" /\ link' = [link EXCEPT ![c] = "queued"] /\ listening
        /\ DOMAIN wire' = Loop!Sides
    BY <1>0, <1>11 DEF Loop!VisitorConnects
  <2>2. c \in Loop!Conns /\ c # "own"
    BY <1>11, <1>n, LoopNames
  <2>3. LoopTypes'
    BY <1>0, <2>1, <2>2 DEF LoopTypes, Loop!TypeOK
  <2>4. ConnectInv'
    BY <1>0, <1>n, <1>s, <2>1, <2>2 DEF ConnectInv, Connecting
  <2>5. \A d \in Loop!Conns : link'[d] = link[d] \/ (link[d] = "none" /\ link'[d] = "queued" /\ listening)
    BY <1>0, <2>1
  <2> QED
    BY <1>0, <2>1, <2>3, <2>4, <2>5, OutsideKeeps
<1>12. CASE UNCHANGED loopVars
  <2>1. UNCHANGED <<lMain, g_stop, at, op, listening, link, wire, sending, shut, reset, echo>>
    BY <1>12 DEF loopVars
  <2>2. LoopTypes' /\ ConnectInv'
    BY <1>0, <1>s, <2>1 DEF LoopTypes, Loop!TypeOK, ConnectInv, Connecting
  <2> QED
    BY <1>0, <1>n, <2>1, <2>2, OutsideKeeps
<1>13. CASE Loop!ThreadStep
  BY <1>2, <1>3, <1>4, <1>5, <1>13 DEF Loop!ThreadStep
<1>14. ASSUME NEW k \in Loop!Coroutines, Loop!KernelStep(k) PROVE HandlersInv'
  BY <1>7, <1>8, <1>9, <1>14 DEF Loop!KernelStep
<1> QED
  BY <1>1, <1>10, <1>11, <1>12, <1>13, <1>14, <1>n DEF Loop!Next

(* What the invariant says of every connection. *)
LEMMA OneHandler == ASSUME Loop!LoopAssumption, HandlersInv PROVE Loop!HandlerPerConnection
<1>1. ASSUME NEW c \in Loop!Conns
      PROVE  /\ link[c] = "accepted" /\ Loop!End(c) \notin shut
                  <=> Taken(c) \/ (at[c] \in {"recv", "send"} /\ op[c].state # "none")
             /\ link[c] = "queued" => listening \/ c \in reset
  <2>1. HandlerInv(c)
    BY DEF HandlersInv
  <2> HIDE DEF Taken, Loop!End
  <2> QED
    BY <2>1 DEF HandlerInv
<1>2. g_stop => at["client"] = "ended" /\ Loop!End("client") \in shut
  BY DEF HandlersInv, ConnectInv
<1> QED
  BY <1>1, <1>2 DEF Loop!HandlerPerConnection, Taken

(* What is in the hands of the handler: received and not yet sent back.     *)
InHands ==
    IF at["own"] = "recv" /\ op["own"].state = "done" THEN op["own"].result.bytes
    ELSE IF at["own"] = "send" /\ op["own"].state = "pending" THEN sending["own"]
    ELSE <<>>

Part(i, j) == SubSeq(Message, i + 1, j)

Unsent == at["client"] \in {"none", "connect"}
            \/ (at["client"] = "send" /\ op["client"].state = "pending")
Unread == at["client"] \in {"none", "connect", "send"}
            \/ (at["client"] = "recv" /\ op["client"].state = "pending")

Here == <<"own", "here">>
There == <<"own", "there">>

(* Three parts of the message, one behind the other, from its beginning.    *)
Flows(back, hands, forth) ==
    \E i, j, k \in 0..Len(Message) :
        i <= j /\ j <= k /\ back = Part(0, i) /\ hands = Part(i, j) /\ forth = Part(j, k)

(* While the client has not read, what is on its way back, in the handler's *)
(* hands and on its way there are consecutive parts of the message, unless  *)
(* the connection was reset; and before it was sent there is nothing.       *)
WireInv ==
    /\ Unsent => wire[Here] = <<>> /\ wire[There] = <<>> /\ InHands = <<>> /\ at["own"] # "send"
    /\ "own" \in reset => wire[Here] = <<>> /\ wire[There] = <<>>
    /\ Here \in shut => wire[Here] = <<>>
    /\ Unread => "own" \in reset \/ Flows(wire[There], InHands, wire[Here])

(* What the client sends, what it received and what it takes for the echo.  *)
ReceivedInv ==
    /\ at["client"] = "send" => sending["client"] = Message
    /\ at["client"] = "recv" /\ op["client"].state = "done" =>
          Loop!IsPrefix(op["client"].result.bytes, Message)
    /\ Loop!EchoIsPrefix

(* Parts of the message.                                                    *)
LEMMA PartIs ==
  ASSUME Loop!LoopAssumption, NEW i \in 0..Len(Message), NEW j \in 0..Len(Message), i <= j
  PROVE  /\ Part(i, j) \in Seq(Nat) /\ Len(Part(i, j)) = j - i
         /\ Part(i, j) = <<>> <=> i = j
         /\ \A n \in 1..(j - i) : Part(i, j)[n] = Message[i + n]
<1>1. Message \in Seq(Nat)
  BY DEF Loop!LoopAssumption
<1>2. /\ Part(i, j) \in Seq(Nat) /\ Len(Part(i, j)) = j - i
      /\ \A n \in 1..(j - i) : Part(i, j)[n] = Message[i + n]
  BY <1>1 DEF Part
<1> QED
  BY <1>2

LEMMA FrontIs ==
  ASSUME Loop!LoopAssumption, NEW i \in 0..Len(Message)
  PROVE  /\ Part(0, i) \in Seq(Nat) /\ Len(Part(0, i)) = i
         /\ \A n \in 1..i : Part(0, i)[n] = Message[n]
<1>1. Message \in Seq(Nat)
  BY DEF Loop!LoopAssumption
<1> QED
  BY <1>1 DEF Part

LEMMA SameSeq ==
  ASSUME NEW s \in Seq(Nat), NEW t \in Seq(Nat), Len(s) = Len(t),
         \A n \in 1..Len(s) : s[n] = t[n]
  PROVE  s = t
OBVIOUS

LEMMA Cuts ==
  ASSUME NEW p \in Seq(Nat), NEW n \in 0..Len(p)
  PROVE  /\ SubSeq(p, 1, n) \in Seq(Nat) /\ Len(SubSeq(p, 1, n)) = n
         /\ \A m \in 1..n : SubSeq(p, 1, n)[m] = p[m]
         /\ SubSeq(p, n + 1, Len(p)) \in Seq(Nat)
         /\ Len(SubSeq(p, n + 1, Len(p))) = Len(p) - n
         /\ \A m \in 1..(Len(p) - n) : SubSeq(p, n + 1, Len(p))[m] = p[n + m]
OBVIOUS

LEMMA Joins ==
  ASSUME NEW a \in Seq(Nat), NEW b \in Seq(Nat)
  PROVE  /\ a \o b \in Seq(Nat) /\ Len(a \o b) = Len(a) + Len(b)
         /\ \A m \in 1..(Len(a) + Len(b)) :
              (a \o b)[m] = IF m <= Len(a) THEN a[m] ELSE b[m - Len(a)]
OBVIOUS

LEMMA PartCuts ==
  ASSUME Loop!LoopAssumption, NEW j \in 0..Len(Message), NEW k \in 0..Len(Message), j <= k,
         NEW n \in 1..(k - j)
  PROVE  /\ SubSeq(Part(j, k), 1, n) = Part(j, j + n)
         /\ SubSeq(Part(j, k), n + 1, Len(Part(j, k))) = Part(j + n, k)
<1> DEFINE p == Part(j, k)
           u == SubSeq(p, 1, n)
           v == SubSeq(p, n + 1, Len(p))
<1>1. p \in Seq(Nat) /\ Len(p) = k - j /\ \A m \in 1..(k - j) : p[m] = Message[j + m]
  BY PartIs
<1>0. Len(Message) \in Nat
  BY DEF Loop!LoopAssumption
<1>2. j + n \in 0..Len(Message) /\ j <= j + n /\ j + n <= k /\ j + n - j = n /\ n \in 0..Len(p)
  BY <1>0, <1>1
<1>3. /\ Part(j, j + n) \in Seq(Nat) /\ Len(Part(j, j + n)) = n
      /\ \A m \in 1..n : Part(j, j + n)[m] = Message[j + m]
  <2>1. PICK q \in 0..Len(Message) : q = j + n
    BY <1>2
  <2>2. j <= q /\ q - j = n
    BY <2>1
  <2>3. /\ Part(j, q) \in Seq(Nat) /\ Len(Part(j, q)) = q - j
        /\ \A m \in 1..(q - j) : Part(j, q)[m] = Message[j + m]
    BY <2>2, PartIs
  <2>4. /\ Part(j, q) \in Seq(Nat) /\ Len(Part(j, q)) = n
        /\ \A m \in 1..n : Part(j, q)[m] = Message[j + m]
    BY <2>2, <2>3
  <2> QED
    BY <2>1, <2>4, Zenon
<1>4. /\ Part(j + n, k) \in Seq(Nat) /\ Len(Part(j + n, k)) = k - (j + n)
      /\ \A m \in 1..(k - (j + n)) : Part(j + n, k)[m] = Message[j + n + m]
  BY <1>2, PartIs
<1> HIDE DEF p
<1>5. u \in Seq(Nat) /\ Len(u) = n /\ \A m \in 1..n : u[m] = p[m]
  BY <1>1, <1>2, Cuts
<1>6. v \in Seq(Nat) /\ Len(v) = Len(p) - n /\ \A m \in 1..(Len(p) - n) : v[m] = p[n + m]
  BY <1>1, <1>2, Cuts
<1> HIDE DEF u, v
<1>7. u = Part(j, j + n)
  <2>1. ASSUME NEW m \in 1..n PROVE u[m] = Part(j, j + n)[m]
    <3>1. m \in 1..(k - j)
      BY <1>0
    <3> QED
      BY <1>1, <1>3, <1>5, <3>1
  <2> HIDE DEF Part
  <2> QED
    BY <1>3, <1>5, <2>1, SameSeq
<1>8. v = Part(j + n, k)
  <2>0. Len(v) = k - (j + n)
    BY <1>1, <1>6
  <2>1. ASSUME NEW m \in 1..(k - (j + n)) PROVE v[m] = Part(j + n, k)[m]
    <3>1. n + m \in 1..(k - j) /\ m \in 1..(Len(p) - n)
      BY <1>1
    <3>2. p[n + m] = Message[j + (n + m)] /\ v[m] = p[n + m]
      BY <1>1, <1>6, <3>1
    <3>3. j + (n + m) = j + n + m
      OBVIOUS
    <3> QED
      BY <1>4, <3>2, <3>3
  <2> HIDE DEF Part
  <2> QED
    BY <1>4, <1>6, <2>0, <2>1, SameSeq
<1> QED
  BY <1>7, <1>8 DEF p, u, v

LEMMA PartsJoin ==
  ASSUME Loop!LoopAssumption, NEW i \in 0..Len(Message), NEW j \in 0..Len(Message), i <= j
  PROVE  Part(0, i) \o Part(i, j) = Part(0, j)
<1> DEFINE a == Part(0, i)
           b == Part(i, j)
           c == Part(0, j)
           d == a \o b
<1>1. a \in Seq(Nat) /\ Len(a) = i /\ \A m \in 1..i : a[m] = Message[m]
  BY FrontIs
<1>2. b \in Seq(Nat) /\ Len(b) = j - i /\ \A m \in 1..(j - i) : b[m] = Message[i + m]
  BY PartIs
<1>3. c \in Seq(Nat) /\ Len(c) = j /\ \A m \in 1..j : c[m] = Message[m]
  BY FrontIs
<1> HIDE DEF a, b, c
<1>4. /\ d \in Seq(Nat) /\ Len(d) = Len(a) + Len(b)
      /\ \A m \in 1..(Len(a) + Len(b)) : d[m] = IF m <= Len(a) THEN a[m] ELSE b[m - Len(a)]
  BY <1>1, <1>2, Joins
<1> HIDE DEF d
<1>5. ASSUME NEW m \in 1..j PROVE d[m] = c[m]
  <2>1. d[m] = IF m <= i THEN a[m] ELSE b[m - i]
    BY <1>1, <1>2, <1>4
  <2>2. CASE m <= i
    BY <1>1, <1>3, <2>1, <2>2
  <2>3. CASE ~(m <= i)
    <3>1. m - i \in 1..(j - i) /\ i + (m - i) = m
      BY <2>3
    <3>2. b[m - i] = Message[m]
      BY <1>2, <3>1
    <3> QED
      BY <1>3, <2>1, <2>3, <3>2
  <2> QED
    BY <2>2, <2>3
<1>6. Len(d) = Len(c)
  BY <1>1, <1>2, <1>3, <1>4
<1>7. d = c
  BY <1>3, <1>4, <1>5, <1>6, SameSeq
<1> QED
  BY <1>7 DEF a, b, c, d

LEMMA PartBegins ==
  ASSUME Loop!LoopAssumption, NEW i \in 0..Len(Message)
  PROVE  Loop!IsPrefix(Part(0, i), Message) /\ Part(0, Len(Message)) = Message
<1>1. Message \in Seq(Nat)
  BY DEF Loop!LoopAssumption
<1>2. Len(Part(0, i)) = i /\ Part(0, i) \in Seq(Nat) /\ \A m \in 1..i : Part(0, i)[m] = Message[m]
  BY FrontIs
<1>3. SubSeq(Part(0, i), 1, i) = SubSeq(Message, 1, i)
  BY <1>1, <1>2
<1>4. Part(0, Len(Message)) = Message
  BY <1>1 DEF Part
<1> QED
  BY <1>1, <1>2, <1>3, <1>4 DEF Loop!IsPrefix

LEMMA NothingFlows ==
  ASSUME Loop!LoopAssumption
  PROVE  Flows(<<>>, <<>>, <<>>) /\ Flows(<<>>, <<>>, Message) /\ Loop!IsPrefix(<<>>, Message)
<1>1. Message \in Seq(Nat) /\ 0 \in 0..Len(Message) /\ Len(Message) \in 0..Len(Message)
  BY DEF Loop!LoopAssumption
<1>2. Part(0, 0) = <<>> /\ Part(0, Len(Message)) = Message /\ Loop!IsPrefix(Part(0, 0), Message)
  BY <1>1, PartIs, PartBegins
<1> QED
  BY <1>1, <1>2 DEF Flows

(* What the handler drops, and then nothing more is read by it. *)
LEMMA FlowDropped ==
  ASSUME Loop!LoopAssumption, NEW back, NEW hands, NEW forth, Flows(back, hands, forth)
  PROVE  Flows(back, <<>>, <<>>)
<1>1. PICK i \in 0..Len(Message) : back = Part(0, i)
  BY DEF Flows
<1>2. Part(i, i) = <<>>
  BY PartIs
<1> QED
  BY <1>1, <1>2 DEF Flows

(* The handler receives some of what is on its way to it.                   *)
LEMMA FlowReceived ==
  ASSUME Loop!LoopAssumption, NEW back, NEW forth, Flows(back, <<>>, forth), NEW n \in 1..Len(forth)
  PROVE  Flows(back, SubSeq(forth, 1, n), SubSeq(forth, n + 1, Len(forth)))
<1>1. PICK i \in 0..Len(Message), j \in 0..Len(Message), k \in 0..Len(Message) :
         i <= j /\ j <= k /\ back = Part(0, i) /\ <<>> = Part(i, j) /\ forth = Part(j, k)
  BY DEF Flows
<1>2. i = j /\ Len(forth) = k - j
  BY <1>1, PartIs
<1>3. n \in 1..(k - j) /\ j + n \in 0..Len(Message) /\ j <= j + n /\ j + n <= k
  BY <1>2
<1>4. SubSeq(forth, 1, n) = Part(j, j + n) /\ SubSeq(forth, n + 1, Len(forth)) = Part(j + n, k)
  BY <1>1, <1>3, PartCuts
<1>5. back = Part(0, j)
  BY <1>1, <1>2
<1> HIDE DEF Part
<1> QED
  BY <1>3, <1>4, <1>5, Zenon DEF Flows

(* And sends it back.                                                       *)
LEMMA FlowSent ==
  ASSUME Loop!LoopAssumption, NEW back, NEW hands, NEW forth, Flows(back, hands, forth)
  PROVE  Flows(back \o hands, <<>>, forth)
<1>1. PICK i \in 0..Len(Message), j \in 0..Len(Message), k \in 0..Len(Message) :
         i <= j /\ j <= k /\ back = Part(0, i) /\ hands = Part(i, j) /\ forth = Part(j, k)
  BY DEF Flows
<1>2. back \o hands = Part(0, j)
  <2>1. Part(0, i) \o Part(i, j) = Part(0, j)
    BY <1>1, PartsJoin
  <2> QED
    BY <1>1, <2>1, Zenon
<1>3. Part(j, j) = <<>> /\ j <= j
  BY PartIs
<1> QED
  BY <1>1, <1>2, <1>3, Zenon DEF Flows

(* What the client receives of it.                                          *)
LEMMA FlowRead ==
  ASSUME Loop!LoopAssumption, NEW back, NEW hands, NEW forth, Flows(back, hands, forth),
         NEW n \in 1..Len(back)
  PROVE  Loop!IsPrefix(SubSeq(back, 1, n), Message)
<1>1. PICK i \in 0..Len(Message) : back = Part(0, i)
  BY DEF Flows
<1>2. Len(back) = i
  BY <1>1, FrontIs
<1>3. n \in 1..(i - 0) /\ 0 \in 0..Len(Message) /\ 0 <= i /\ 0 + n = n /\ n \in 0..Len(Message)
  BY <1>2
<1>4. SubSeq(Part(0, i), 1, n) = Part(0, n)
  BY <1>3, PartCuts
<1> QED
  BY <1>1, <1>3, <1>4, PartBegins

EchoInv == WireInv /\ ReceivedInv

(* A step that resets the client's connection, or leaves its bytes alone.   *)
WireFrame ==
    \/ "own" \in reset' /\ wire'[Here] = <<>> /\ wire'[There] = <<>>
    \/ wire'[Here] = wire[Here] /\ wire'[There] = wire[There] /\ ("own" \in reset' <=> "own" \in reset)

LEMMA InitEcho == Loop!LoopAssumption /\ Loop!Init => EchoInv
<1> SUFFICES ASSUME Loop!LoopAssumption, Loop!Init PROVE EchoInv
  OBVIOUS
<1>1. "own" \in Loop!Coroutines /\ "client" \in Loop!Coroutines /\ Here \in Loop!Sides /\ There \in Loop!Sides
  BY LoopNames DEF Here, There
<1>2. wire[Here] = <<>> /\ wire[There] = <<>> /\ at["own"] = "none" /\ at["client"] = "none"
      /\ op["own"].state = "none" /\ echo = <<>> /\ reset = {} /\ shut = {}
  BY <1>1 DEF Loop!Init, Loop!Under
<1>3. InHands = <<>>
  BY <1>2 DEF InHands
<1> QED
  BY <1>2, <1>3, NothingFlows DEF EchoInv, WireInv, ReceivedInv, Loop!EchoIsPrefix

(* Most steps leave what flows as it is, or drop it.                        *)
LEMMA WireKept ==
  ASSUME Loop!LoopAssumption, WireInv, WireFrame, Unsent' => Unsent, Unread' => Unread,
         InHands' = InHands \/ (InHands' = <<>> /\ wire'[Here] = <<>>),
         at'["own"] = "send" => at["own"] = "send" \/ ~Unsent,
         Here \in shut' => Here \in shut \/ wire'[Here] = <<>>
  PROVE  WireInv'
<1>0. Here' = Here /\ There' = There
  BY DEF Here, There
<1>f. \A b, h, f : Flows(b, h, f)' <=> Flows(b, h, f)
  BY DEF Flows, Part
<1>1. CASE "own" \in reset' /\ wire'[Here] = <<>> /\ wire'[There] = <<>>
  <2> HIDE DEF Here, There, Unsent, Unread, InHands, Flows
  <2> QED
    BY <1>0, <1>1 DEF WireInv
<1>2. CASE wire'[Here] = wire[Here] /\ wire'[There] = wire[There] /\ ("own" \in reset' <=> "own" \in reset)
  <2>1. Unread' /\ "own" \notin reset' => Flows(wire'[There], InHands', wire'[Here])
    <3>1. CASE InHands' = InHands
      <4> HIDE DEF Here, There, Unsent, Unread, InHands, Flows
      <4> QED
        BY <1>2, <3>1 DEF WireInv
    <3>2. CASE InHands' = <<>> /\ wire'[Here] = <<>>
      <4> HIDE DEF Here, There, Unsent, Unread, InHands, Flows
      <4> QED
        BY <1>2, <3>2, FlowDropped DEF WireInv
    <3> QED
      BY <3>1, <3>2
  <2>2. (Unread => "own" \in reset \/ Flows(wire[There], InHands, wire[Here]))'
    BY <1>0, <2>1, <1>f
  <2> HIDE DEF Here, There, Unsent, Unread, InHands, Flows
  <2> QED
    BY <1>0, <1>2, <2>2 DEF WireInv
<1> QED
  BY <1>1, <1>2 DEF WireFrame

LEMMA ResetFrame ==
  ASSUME Loop!LoopAssumption, HandlersInv, NEW cs, cs \subseteq Loop!Conns, Loop!Resets(cs)
  PROVE  WireFrame /\ \A e \in Loop!Sides : wire[e] = <<>> \/ e[1] \in cs => wire'[e] = <<>>
<1>1. Here \in Loop!Sides /\ There \in Loop!Sides /\ Here[1] = "own" /\ There[1] = "own" /\ reset \subseteq Loop!Conns
  BY LoopNames DEF Here, There, HandlersInv, LoopTypes, Loop!TypeOK
<1>2. reset \subseteq reset' /\ reset' = reset \cup cs
      /\ \A e \in Loop!Sides : wire'[e] = IF e[1] \in reset' THEN <<>> ELSE wire[e]
  BY <1>1, ResetEffect
<1>3. \A e \in Loop!Sides : wire[e] = <<>> \/ e[1] \in cs => wire'[e] = <<>>
  BY <1>2
<1>4. WireFrame
  BY <1>1, <1>2 DEF WireFrame
<1> QED
  BY <1>3, <1>4

LEMMA ClosedFrame ==
  ASSUME Loop!LoopAssumption, HandlersInv, NEW e \in Loop!Sides, Loop!Closes(e)
  PROVE  WireFrame /\ wire'[e] = <<>> /\ shut' = shut \cup {e}
<1>1. e[1] \in Loop!Conns
  BY DEF Loop!Sides
<1>2. PICK cs : cs \subseteq Loop!Conns /\ Loop!Resets(cs) /\ (wire[e] = <<>> \/ e[1] \in cs)
  BY <1>1 DEF Loop!Closes
<1> QED
  BY <1>2, ResetFrame DEF Loop!Closes

(* A coroutine that breaks out of its loop closes its socket.               *)
LEMMA BreakKeeps ==
  ASSUME Loop!LoopAssumption, HandlersInv, WireInv, NEW k \in Loop!Coroutines, k # "server", Loop!Breaks(k),
         sending' = sending
  PROVE  WireInv'
<1>1. /\ "own" \in Loop!Coroutines /\ "client" \in Loop!Coroutines /\ "own" # "client"
      /\ DOMAIN at = Loop!Coroutines /\ DOMAIN op = Loop!Coroutines
      /\ Loop!End(k) \in Loop!Sides /\ (Loop!End(k) = Here <=> k = "own")
  <2>1. Here = Loop!End("own")
    BY LoopNames DEF Here
  <2> QED
    BY <2>1, LoopNames DEF HandlersInv, LoopTypes
<1>2. /\ at'[k] = "ended" /\ op'[k] = Loop!Under("none") /\ Loop!Closes(Loop!End(k))
      /\ \A j \in Loop!Coroutines : j # k => at'[j] = at[j] /\ op'[j] = op[j]
  BY <1>1 DEF Loop!Breaks
<1> HIDE DEF Loop!End
<1>3. WireFrame /\ wire'[Loop!End(k)] = <<>> /\ shut' = shut \cup {Loop!End(k)}
  BY <1>1, <1>2, ClosedFrame
<1>4. InHands' = InHands \/ (InHands' = <<>> /\ wire'[Here] = <<>>)
  BY <1>1, <1>2, <1>3 DEF InHands
<1>5. (Unsent' => Unsent) /\ (Unread' => Unread)
  BY <1>1, <1>2 DEF Unsent, Unread
<1>6. at'["own"] = "send" => at["own"] = "send"
  BY <1>1, <1>2
<1>7. Here \in shut' => Here \in shut \/ wire'[Here] = <<>>
  BY <1>1, <1>3
<1> QED
  BY <1>3, <1>4, <1>5, <1>6, <1>7, WireKept

LEMMA AwaitsEffect ==
  ASSUME Loop!LoopAssumption, HandlersInv, NEW k \in Loop!Coroutines, NEW kind, Loop!Awaits(k, kind)
  PROVE  /\ at'[k] = kind /\ op'[k] = Loop!Under("pending") /\ UNCHANGED <<shut, reset, wire>>
         /\ \A j \in Loop!Coroutines : j # k => at'[j] = at[j] /\ op'[j] = op[j]
         /\ WireFrame
<1>1. DOMAIN at = Loop!Coroutines /\ DOMAIN op = Loop!Coroutines
  BY DEF HandlersInv, LoopTypes
<1>2. at'[k] = kind /\ op'[k] = Loop!Under("pending") /\ UNCHANGED <<shut, reset, wire>>
         /\ \A j \in Loop!Coroutines : j # k => at'[j] = at[j] /\ op'[j] = op[j]
  BY <1>1 DEF Loop!Awaits
<1>3. WireFrame
  BY <1>2 DEF WireFrame
<1> QED
  BY <1>2, <1>3

LEMMA ClientSame ==
  ASSUME ReceivedInv, at'["client"] = at["client"], op'["client"] = op["client"],
         sending'["client"] = sending["client"], echo' = echo
  PROVE  ReceivedInv'
BY DEF ReceivedInv, Loop!EchoIsPrefix, Loop!IsPrefix

(* Once the message is on its way or was echoed.                            *)
LEMMA NowFlows ==
  ASSUME "own" \notin reset', ~Unsent', Here \notin shut',
         Unread' => Flows(wire'[There], InHands', wire'[Here])
  PROVE  WireInv'
<1>0. Here' = Here /\ There' = There
  BY DEF Here, There
<1>f. \A b, h, f : Flows(b, h, f)' <=> Flows(b, h, f)
  BY DEF Flows, Part
<1>1. (Unread => "own" \in reset \/ Flows(wire[There], InHands, wire[Here]))'
  BY <1>0, <1>f
<1> HIDE DEF Here, There, Unsent, Unread, InHands, Flows
<1> QED
  BY <1>0, <1>1 DEF WireInv

(* Behind the client's receive only the handler's end matters.              *)
LEMMA OverAndOut ==
  ASSUME WireInv, "own" \notin reset', ~Unsent', ~Unread', shut' = shut, wire'[Here] = wire[Here]
  PROVE  WireInv'
<1>0. Here' = Here /\ There' = There
  BY DEF Here, There
<1> HIDE DEF Here, There, Unsent, Unread, InHands, Flows
<1> QED
  BY <1>0 DEF WireInv

(* Every step of the program keeps it.                                      *)
LEMMA EchoStep ==
  ASSUME Loop!LoopAssumption, HandlersInv, EchoInv, [Loop!Next]_loopVars
  PROVE  EchoInv'
<1>n. /\ "own" \in Loop!Conns /\ Loop!Conns \subseteq Loop!Coroutines /\ "own" \in Loop!Coroutines
      /\ "server" \in Loop!Coroutines /\ "client" \in Loop!Coroutines /\ "own" \notin Visitors
      /\ "server" \notin Loop!Conns /\ "client" \notin Loop!Conns
      /\ "own" # "client" /\ "own" # "server" /\ "client" # "server"
      /\ \A k \in Loop!Coroutines : k \in Loop!Conns \/ k = "server" \/ k = "client"
      /\ Visitors \subseteq Loop!Conns /\ Loop!Handlers = Loop!Conns
      /\ \A k \in Loop!Coroutines : k # "server" => Loop!End(k) \in Loop!Sides
      /\ \A c \in Loop!Conns : Loop!End(c) = <<c, "here">> /\ Loop!End(c)[1] = c /\ Loop!Peer(Loop!End(c)) = <<c, "there">>
      /\ Loop!End("own") = Here /\ Loop!End("client") = There /\ Loop!Peer(Here) = There /\ Loop!Peer(There) = Here
      /\ There[1] = "own" /\ Here[1] = "own" /\ Here # There /\ Here \in Loop!Sides /\ There \in Loop!Sides
      /\ \A c \in Visitors : <<c, "here">> # Here /\ <<c, "there">> # Here
                             /\ <<c, "here">> # There /\ <<c, "there">> # There
  <2>1. Loop!End("own") = Here /\ Loop!End("client") = There
    BY LoopNames DEF Here, There
  <2> QED
    BY <2>1, LoopNames DEF Loop!Handlers, Here, There
<1>0. /\ WireInv /\ ReceivedInv /\ LoopTypes /\ AcceptInv /\ ConnectInv /\ HandlerInv("own")
      /\ reset \subseteq Loop!Conns /\ shut \subseteq Loop!Sides /\ DOMAIN wire = Loop!Sides
      /\ DOMAIN at = Loop!Coroutines /\ DOMAIN op = Loop!Coroutines /\ DOMAIN sending = Loop!Coroutines
  BY <1>n DEF EchoInv, HandlersInv, LoopTypes, Loop!TypeOK
<1> HIDE DEF Loop!End
<1>s. ASSUME at'["own"] = at["own"], op'["own"] = op["own"], sending'["own"] = sending["own"]
      PROVE  InHands' = InHands
  BY <1>s DEF InHands
<1>c. ASSUME at'["client"] = at["client"], op'["client"] = op["client"]
      PROVE  (Unsent' => Unsent) /\ (Unread' => Unread)
  BY <1>c DEF Unsent, Unread

<1>1. CASE Loop!Start
  <2>1. UNCHANGED <<g_stop, link, wire, sending, shut, reset, echo>> /\ lMain = "start"
    BY <1>1 DEF Loop!Start
  <2>2. at["client"] = "none" /\ WireFrame
    BY <1>0, <2>1 DEF ConnectInv, WireFrame
  <2>3. at'["own"] = at["own"] /\ op'["own"] = op["own"]
        /\ at'["client"] \in {"none", "connect", "ended"}
    <3>1. CASE lMain' = "ended" /\ UNCHANGED <<at, op, listening>>
      BY <2>2, <3>1
    <3>2. CASE ~(lMain' = "ended" /\ UNCHANGED <<at, op, listening>>)
      BY <1>1, <1>0, <1>n, <3>2 DEF Loop!Start
    <3> QED
      BY <3>1, <3>2
  <2>4. (Unsent' => Unsent) /\ (Unread' => Unread)
    BY <2>2 DEF Unsent, Unread
  <2>5. WireInv'
    BY <1>0, <1>s, <2>1, <2>2, <2>3, <2>4, WireKept
  <2>6. ReceivedInv'
    BY <1>0, <2>1, <2>3 DEF ReceivedInv, Loop!EchoIsPrefix, Loop!IsPrefix
  <2> QED
    BY <2>5, <2>6 DEF EchoInv

<1>2. CASE Loop!ServerAccepted
  <2> DEFINE h == op["server"].result.sock
  <2>1. /\ at["server"] = "accept" /\ op["server"].state = "done" /\ h \in Loop!Conns
        /\ UNCHANGED <<sending, echo>>
    BY <1>0, <1>2 DEF Loop!ServerAccepted, Loop!Resumes, AcceptInv
  <2>p. PICK receives \in BOOLEAN, listens \in BOOLEAN :
            LET dropped == IF listens THEN {} ELSE {c \in Loop!Conns : link[c] = "queued"}
                unread == IF wire[Loop!End(h)] # <<>> THEN {h} ELSE {}
            IN  /\ at' = [at EXCEPT
                            ![h] = IF receives THEN "recv" ELSE "ended",
                            !["server"] = IF listens THEN "accept" ELSE "ended"]
                /\ op' = [op EXCEPT
                            ![h] = Loop!Under(IF receives THEN "pending" ELSE "none"),
                            !["server"] = Loop!Under(IF listens THEN "pending" ELSE "none")]
                /\ listening' = listens
                /\ shut' = IF receives THEN shut ELSE shut \cup {Loop!End(h)}
                /\ Loop!Resets(dropped \cup IF receives THEN {} ELSE unread)
    BY <1>2 DEF Loop!ServerAccepted
  <2>q. PICK cs : /\ cs \subseteq Loop!Conns /\ Loop!Resets(cs)
                  /\ receives \/ wire[Loop!End(h)] = <<>> \/ h \in cs
    <3>1. h \in Loop!Conns
      BY <2>1
    <3> HIDE DEF h
    <3> QED
      BY <2>p, <3>1
  <2>2. /\ at' = [at EXCEPT
                    ![h] = IF receives THEN "recv" ELSE "ended",
                    !["server"] = IF listens THEN "accept" ELSE "ended"]
        /\ op' = [op EXCEPT
                    ![h] = Loop!Under(IF receives THEN "pending" ELSE "none"),
                    !["server"] = Loop!Under(IF listens THEN "pending" ELSE "none")]
        /\ shut' = IF receives THEN shut ELSE shut \cup {Loop!End(h)}
        /\ cs \subseteq Loop!Conns /\ Loop!Resets(cs)
        /\ receives \/ wire[Loop!End(h)] = <<>> \/ h \in cs
    BY <2>p, <2>q
  <2>3. h = "own" => at["own"] = "none" /\ InHands = <<>>
    <3>1. h = "own" => at["own"] = "none"
      BY <1>0, <2>1 DEF HandlerInv, Taken
    <3> QED
      BY <3>1 DEF InHands
  <2>4. /\ h # "server" /\ h # "client" /\ h \in Loop!Coroutines /\ Loop!End(h) \in Loop!Sides /\ Loop!End(h)[1] = h
        /\ Loop!End(h) = Here <=> h = "own"
    BY <1>n, <2>1 DEF Here
  <2> HIDE DEF h
  <2>5. at'["client"] = at["client"] /\ op'["client"] = op["client"]
    BY <1>0, <1>n, <2>2, <2>4
  <2>6. CASE h = "own"
    <3>1. at'["own"] \in {"recv", "ended"} /\ op'["own"].state # "done"
      BY <1>0, <1>n, <2>2, <2>4, <2>6 DEF Loop!Under
    <3>2. InHands' = InHands
      BY <2>3, <2>6, <3>1 DEF InHands
    <3>3. WireFrame /\ (wire[Here] = <<>> \/ "own" \in cs => wire'[Here] = <<>>)
      BY <1>n, <2>2, ResetFrame
    <3>4. Here \in shut' => Here \in shut \/ wire'[Here] = <<>>
      BY <1>n, <2>2, <2>4, <2>6, <3>3
    <3> QED
      BY <1>0, <1>c, <2>1, <2>5, <3>1, <3>2, <3>3, <3>4, WireKept, ClientSame DEF EchoInv
  <2>7. CASE h # "own"
    <3>1. at'["own"] = at["own"] /\ op'["own"] = op["own"]
      BY <1>0, <1>n, <2>2, <2>4, <2>7
    <3>2. InHands' = InHands
      BY <1>s, <2>1, <3>1
    <3>3. WireFrame
      BY <1>n, <2>2, ResetFrame
    <3>4. Here \in shut' => Here \in shut
      BY <1>n, <2>2, <2>4, <2>7
    <3> QED
      BY <1>0, <1>c, <2>1, <2>5, <3>1, <3>2, <3>3, <3>4, WireKept, ClientSame DEF EchoInv
  <2> QED
    BY <2>6, <2>7

<1>3. ASSUME NEW c \in Loop!Conns, Loop!HandlerReceived(c) \/ Loop!HandlerSent(c) PROVE EchoInv'
  <2>1. c \in Loop!Coroutines /\ c # "server" /\ c # "client" /\ echo' = echo
    BY <1>3, <1>n DEF Loop!HandlerReceived, Loop!HandlerSent
  <2>2. CASE Loop!Breaks(c)
    <3>1. sending' = sending
      <4>1. Loop!Breaks(c) => at'[c] = "ended"
        BY <1>0, <2>1 DEF Loop!Breaks
      <4>2. Loop!Awaits(c, "send") => at'[c] = "send"
        BY <1>0, <2>1 DEF Loop!Awaits
      <4> QED
        BY <1>3, <2>2, <4>1, <4>2 DEF Loop!HandlerReceived, Loop!HandlerSent
    <3>2. at'["client"] = at["client"] /\ op'["client"] = op["client"]
      BY <1>0, <1>n, <2>1, <2>2 DEF Loop!Breaks
    <3> QED
      BY <1>0, <2>1, <2>2, <3>1, <3>2, BreakKeeps, ClientSame DEF EchoInv
  <2>3. CASE Loop!HandlerReceived(c) /\ ~Loop!Breaks(c)
    <3>1. /\ at[c] = "recv" /\ op[c].state = "done" /\ op[c].result.bytes # <<>>
          /\ Loop!Awaits(c, "send") /\ sending' = [sending EXCEPT ![c] = op[c].result.bytes]
      BY <2>3 DEF Loop!HandlerReceived, Loop!Resumes
    <3>2. /\ at'[c] = "send" /\ op'[c] = Loop!Under("pending") /\ UNCHANGED <<shut, reset, wire>>
          /\ \A j \in Loop!Coroutines : j # c => at'[j] = at[j] /\ op'[j] = op[j]
          /\ WireFrame
      BY <2>1, <3>1, AwaitsEffect
    <3>3. sending'["client"] = sending["client"] /\ sending'[c] = op[c].result.bytes
          /\ (c # "own" => sending'["own"] = sending["own"])
      BY <1>0, <1>n, <2>1, <3>1
    <3>4. InHands' = InHands /\ (c = "own" => ~Unsent)
      <4>1. CASE c = "own"
        <5>1. InHands = op["own"].result.bytes
          BY <3>1, <4>1 DEF InHands
        <5>2. InHands' = op["own"].result.bytes
          BY <3>2, <3>3, <4>1 DEF InHands, Loop!Under
        <5>3. Unsent => InHands = <<>>
          BY <1>0 DEF WireInv
        <5> QED
          BY <3>1, <4>1, <5>1, <5>2, <5>3
      <4>2. CASE c # "own"
        BY <1>n, <1>s, <3>2, <3>3, <4>2
      <4> QED
        BY <4>1, <4>2
    <3>5. at'["own"] = "send" => at["own"] = "send" \/ ~Unsent
      BY <1>n, <3>2, <3>4
    <3>6. at'["client"] = at["client"] /\ op'["client"] = op["client"]
      BY <1>n, <2>1, <3>2
    <3> QED
      BY <1>0, <1>c, <2>1, <3>2, <3>3, <3>4, <3>5, <3>6, WireKept, ClientSame DEF EchoInv
  <2>4. CASE Loop!HandlerSent(c) /\ ~Loop!Breaks(c)
    <3>1. /\ at[c] = "send" /\ op[c].state = "done" /\ Loop!Awaits(c, "recv") /\ sending' = sending
      BY <2>4 DEF Loop!HandlerSent, Loop!Resumes
    <3>2. /\ at'[c] = "recv" /\ op'[c] = Loop!Under("pending") /\ UNCHANGED <<shut, reset, wire>>
          /\ \A j \in Loop!Coroutines : j # c => at'[j] = at[j] /\ op'[j] = op[j]
          /\ WireFrame
      BY <2>1, <3>1, AwaitsEffect
    <3>4. InHands' = InHands
      <4>1. CASE c = "own"
        BY <3>1, <3>2, <4>1 DEF InHands, Loop!Under
      <4>2. CASE c # "own"
        BY <1>n, <1>s, <3>1, <3>2, <4>2
      <4> QED
        BY <4>1, <4>2
    <3>5. at'["own"] = "send" => at["own"] = "send"
      BY <1>n, <3>2
    <3>6. at'["client"] = at["client"] /\ op'["client"] = op["client"]
      BY <1>n, <2>1, <3>2
    <3> QED
      BY <1>0, <1>c, <2>1, <3>1, <3>2, <3>4, <3>5, <3>6, WireKept, ClientSame DEF EchoInv
  <2> QED
    BY <1>3, <2>2, <2>3, <2>4

<1>4. ASSUME Loop!ClientConnected \/ Loop!ClientSent \/ Loop!ClientReceived PROVE EchoInv'
  <2>1. CASE Loop!Breaks("client") /\ sending' = sending
    <3>1. WireInv'
      BY <1>0, <1>n, <2>1, BreakKeeps
    <3>2. at'["client"] = "ended"
      BY <1>0, <1>n, <2>1 DEF Loop!Breaks
    <3>3. Loop!EchoIsPrefix'
      <4>1. echo' = echo \/ (at["client"] = "recv" /\ op["client"].state = "done"
                               /\ echo' = op["client"].result.bytes)
        BY <1>4 DEF Loop!ClientConnected, Loop!ClientSent, Loop!ClientReceived, Loop!Resumes
      <4> QED
        BY <1>0, <4>1 DEF ReceivedInv, Loop!EchoIsPrefix, Loop!IsPrefix
    <3> QED
      BY <3>1, <3>2, <3>3 DEF EchoInv, ReceivedInv
  <2>2. CASE Loop!ClientConnected /\ Loop!Awaits("client", "send") /\ sending' = [sending EXCEPT !["client"] = Message]
    <3>1. at["client"] = "connect" /\ echo' = echo
      BY <2>2 DEF Loop!ClientConnected, Loop!Resumes
    <3>2. /\ at'["client"] = "send" /\ op'["client"] = Loop!Under("pending") /\ UNCHANGED <<shut, reset, wire>>
          /\ \A j \in Loop!Coroutines : j # "client" => at'[j] = at[j] /\ op'[j] = op[j]
          /\ WireFrame
      BY <1>n, <2>2, AwaitsEffect
    <3>3. sending'["client"] = Message /\ sending'["own"] = sending["own"]
      BY <1>0, <1>n, <2>2
    <3>4. InHands' = InHands /\ at'["own"] = at["own"]
      BY <1>n, <1>s, <3>2, <3>3
    <3>5. (Unsent' => Unsent) /\ (Unread' => Unread)
      BY <3>1 DEF Unsent, Unread
    <3>6. ReceivedInv'
      BY <1>0, <3>1, <3>2, <3>3 DEF ReceivedInv, Loop!EchoIsPrefix, Loop!IsPrefix
    <3> QED
      BY <1>0, <3>2, <3>4, <3>5, <3>6, WireKept DEF EchoInv
  <2>3. CASE Loop!ClientSent /\ Loop!Awaits("client", "recv")
    <3>1. at["client"] = "send" /\ op["client"].state = "done" /\ echo' = echo /\ sending' = sending
      BY <2>3 DEF Loop!ClientSent, Loop!Resumes
    <3>2. /\ at'["client"] = "recv" /\ op'["client"] = Loop!Under("pending") /\ UNCHANGED <<shut, reset, wire>>
          /\ \A j \in Loop!Coroutines : j # "client" => at'[j] = at[j] /\ op'[j] = op[j]
          /\ WireFrame
      BY <1>n, <2>3, AwaitsEffect
    <3>4. InHands' = InHands /\ at'["own"] = at["own"]
      BY <1>n, <1>s, <3>1, <3>2
    <3>5. (Unsent' => Unsent) /\ (Unread' => Unread)
      BY <3>1, <3>2 DEF Unsent, Unread
    <3>6. ReceivedInv'
      BY <1>0, <3>1, <3>2 DEF ReceivedInv, Loop!EchoIsPrefix, Loop!IsPrefix, Loop!Under
    <3> QED
      BY <1>0, <3>2, <3>4, <3>5, <3>6, WireKept DEF EchoInv
  <2> QED
    BY <1>4, <2>1, <2>2, <2>3 DEF Loop!ClientConnected, Loop!ClientSent, Loop!ClientReceived

<1>5. CASE UNCHANGED <<at, op, wire, sending, shut, reset, echo>>
  <2>1. WireFrame
    BY <1>5 DEF WireFrame
  <2> QED
    BY <1>0, <1>5, <1>s, <1>c, <2>1, WireKept, ClientSame DEF EchoInv

(* What the network completes.                                              *)
<1>6. ASSUME NEW k \in Loop!Coroutines, k # "own", NEW kind, NEW r, Loop!Completes(k, kind, r), WireFrame, shut' = shut,
             kind # "send" \/ k # "client",
             k = "client" /\ kind = "recv" => Loop!IsPrefix(r.bytes, Message)
      PROVE  EchoInv'
  <2>1. /\ UNCHANGED <<at, sending, echo>> /\ at[k] = kind /\ op'[k] = Loop!Packet(r)
        /\ \A j \in Loop!Coroutines : j # k => op'[j] = op[j]
    BY <1>0, <1>6 DEF Loop!Completes
  <2>2. InHands' = InHands
    BY <1>n, <1>6, <1>s, <2>1
  <2>3. (Unsent' => Unsent) /\ (Unread' => Unread)
    BY <1>n, <1>6, <2>1 DEF Unsent, Unread, Loop!Packet
  <2>4. ReceivedInv'
    <3>1. CASE k = "client"
      BY <1>0, <1>6, <2>1, <3>1 DEF ReceivedInv, Loop!EchoIsPrefix, Loop!IsPrefix, Loop!Packet
    <3>2. CASE k # "client"
      BY <1>0, <1>n, <2>1, <3>2, ClientSame
    <3> QED
      BY <3>1, <3>2
  <2> QED
    BY <1>0, <1>6, <2>1, <2>2, <2>3, <2>4, WireKept DEF EchoInv

<1>7. CASE Loop!CompletesConnect
  <2>1. PICK r : Loop!Completes("client", "connect", r)
    BY <1>7 DEF Loop!CompletesConnect
  <2>2. UNCHANGED <<wire, shut, reset>>
    BY <1>7 DEF Loop!CompletesConnect, Loop!network
  <2>3. WireFrame
    BY <2>2 DEF WireFrame
  <2> QED
    BY <1>6, <1>n, <2>1, <2>2, <2>3
<1>8. CASE Loop!CompletesAccept
  <2>1. PICK c \in Loop!Conns, failed \in BOOLEAN :
        /\ Loop!Completes("server", "accept", [Loop!Nothing EXCEPT !.sock = c, !.error = failed])
        /\ Loop!Resets(IF failed THEN {c} ELSE {})
        /\ UNCHANGED <<listening, shut>>
    BY <1>8 DEF Loop!CompletesAccept
  <2>2. WireFrame
    BY <2>1, ResetFrame
  <2> QED
    BY <1>6, <1>n, <2>1, <2>2
<1>9. ASSUME NEW k \in Loop!Coroutines, k # "server", Loop!CompletesRecv(k) PROVE EchoInv'
  <2>0. Loop!Completes(k, "recv", [Loop!Nothing EXCEPT !.error = TRUE]) => at[k] = "recv" /\ op[k].state = "pending"
    BY DEF Loop!Completes
  <2>1. CASE wire[Loop!End(k)] = <<>> /\ Loop!Completes(k, "recv", [Loop!Nothing EXCEPT !.error = Loop!End(k)[1] \in reset])
             /\ UNCHANGED Loop!network
    <3>1. WireFrame /\ shut' = shut
      BY <2>1 DEF WireFrame, Loop!network
    <3>2. PICK r : Loop!Completes(k, "recv", r) /\ r.bytes = <<>>
      BY <2>1 DEF Loop!Nothing
    <3>3. CASE k = "own"
      <4>1. /\ UNCHANGED <<at, sending, echo>> /\ at["own"] = "recv" /\ op'["own"] = Loop!Packet(r)
            /\ \A j \in Loop!Coroutines : j # "own" => op'[j] = op[j]
            /\ op["own"].state = "pending"
        BY <1>0, <1>n, <3>2, <3>3 DEF Loop!Completes
      <4>2. InHands' = InHands
        BY <3>2, <4>1 DEF InHands, Loop!Packet
      <4> QED
        BY <1>0, <1>c, <1>n, <3>1, <4>1, <4>2, WireKept, ClientSame DEF EchoInv
    <3>4. CASE k # "own"
      <4>1. Loop!IsPrefix(r.bytes, Message)
        BY <3>2, NothingFlows
      <4> QED
        BY <1>6, <3>1, <3>2, <3>4, <4>1
    <3> QED
      BY <3>3, <3>4
  <2>2. CASE \E n \in 1..Len(wire[Loop!End(k)]) :
                /\ Loop!Completes(k, "recv", [Loop!Nothing EXCEPT !.bytes = SubSeq(wire[Loop!End(k)], 1, n)])
                /\ wire' = [wire EXCEPT ![Loop!End(k)] = SubSeq(@, n + 1, Len(@))]
                /\ UNCHANGED <<listening, link, shut, reset>>
    <3>1. PICK e : e = Loop!End(k)
      OBVIOUS
    <3>2. PICK n, r :
            /\ n \in 1..Len(wire[e]) /\ Loop!Completes(k, "recv", r) /\ r.bytes = SubSeq(wire[e], 1, n)
            /\ wire' = [wire EXCEPT ![e] = SubSeq(wire[e], n + 1, Len(wire[e]))]
            /\ UNCHANGED <<listening, link, shut, reset>>
      BY <2>2, <3>1 DEF Loop!Nothing
    <3>3. /\ UNCHANGED <<at, sending, echo>> /\ at[k] = "recv" /\ op[k].state = "pending"
          /\ op'[k] = Loop!Packet(r) /\ \A j \in Loop!Coroutines : j # k => op'[j] = op[j]
      BY <1>0, <3>2 DEF Loop!Completes
    <3>4. wire[e] # <<>>
      BY <3>2
    <3>5. CASE k = "own"
      <4>1. e = Here /\ wire'[There] = wire[There] /\ wire'[Here] = SubSeq(wire[Here], n + 1, Len(wire[Here]))
        BY <1>0, <1>n, <3>1, <3>2, <3>5
      <4>2. "own" \notin reset /\ ~Unsent /\ Here \notin shut
        BY <1>0, <3>4, <4>1 DEF WireInv
      <4>3. InHands = <<>> /\ InHands' = SubSeq(wire[Here], 1, n)
        BY <3>2, <3>3, <3>5, <4>1 DEF InHands, Loop!Packet
      <4>4. Unread => Flows(wire[There], <<>>, wire[Here])
        BY <1>0, <4>2, <4>3 DEF WireInv
      <4>5. Unread => Flows(wire'[There], InHands', wire'[Here])
        <5>1. n \in 1..Len(wire[Here])
          BY <3>2, <4>1
        <5>2. Unread => Flows(wire[There], SubSeq(wire[Here], 1, n), SubSeq(wire[Here], n + 1, Len(wire[Here])))
          BY <4>4, <5>1, FlowReceived
        <5> QED
          BY <4>1, <4>3, <5>2, Zenon
      <4>6. (Unsent' => Unsent) /\ (Unread' => Unread)
        BY <1>c, <1>n, <3>3, <3>5
      <4>7. WireInv'
        BY <3>2, <4>2, <4>5, <4>6, NowFlows
      <4>8. ReceivedInv'
        BY <1>0, <1>n, <3>3, <3>5, ClientSame
      <4> QED
        BY <4>7, <4>8 DEF EchoInv
    <3>6. CASE k = "client"
      <4>1. e = There /\ wire'[Here] = wire[Here] /\ n \in 1..Len(wire[There])
        BY <1>0, <1>n, <3>1, <3>2, <3>6
      <4>2. "own" \notin reset
        BY <1>0, <3>4, <4>1 DEF WireInv
      <4>3. Unread
        BY <3>3, <3>6 DEF Unread
      <4>4. Flows(wire[There], InHands, wire[Here])
        BY <1>0, <4>2, <4>3 DEF WireInv
      <4>5. Loop!IsPrefix(r.bytes, Message)
        BY <3>2, <4>1, <4>4, FlowRead
      <4>6. ~Unsent' /\ ~Unread'
        BY <3>3, <3>6 DEF Unsent, Unread, Loop!Packet
      <4>7. WireInv'
        BY <1>0, <3>2, <4>1, <4>2, <4>6, OverAndOut
      <4>8. ReceivedInv'
        BY <1>0, <3>3, <3>6, <4>5 DEF ReceivedInv, Loop!EchoIsPrefix, Loop!IsPrefix, Loop!Packet
      <4> QED
        BY <4>7, <4>8 DEF EchoInv
    <3>7. CASE k # "own" /\ k # "client"
      <4>1. e # Here /\ e # There
        BY <1>9, <1>n, <3>1, <3>7 DEF Here, There
      <4>2. WireFrame
        BY <1>0, <3>2, <4>1, <1>n DEF WireFrame
      <4> QED
        BY <1>6, <3>2, <3>7, <4>2
    <3> QED
      BY <3>5, <3>6, <3>7
  <2> QED
    BY <1>9, <2>1, <2>2 DEF Loop!CompletesRecv

<1>10. ASSUME NEW k \in Loop!Coroutines, k # "server", Loop!CompletesSend(k) PROVE EchoInv'
  <2>1. PICK r : Loop!Completes(k, "send", r)
    BY <1>10 DEF Loop!CompletesSend
  <2>2. /\ UNCHANGED <<at, sending, echo>> /\ at[k] = "send" /\ op[k].state = "pending"
        /\ op'[k] = Loop!Packet(r) /\ \A j \in Loop!Coroutines : j # k => op'[j] = op[j]
    BY <1>0, <2>1 DEF Loop!Completes
  <2>3. shut' = shut
    BY <1>10 DEF Loop!CompletesSend, Loop!network
  <2>4. CASE k \notin {"own", "client"}
    <3>1. k \in Visitors /\ k \in Loop!Conns
      BY <1>10, <1>n, <2>4 DEF Loop!Conns
    <3>2. PICK e : e = Loop!Peer(Loop!End(k))
      OBVIOUS
    <3>3. e # Here /\ e # There /\ Loop!End(k)[1] = k
      BY <1>n, <3>1, <3>2
    <3>4. WireFrame
      <4>1. CASE Loop!Resets({Loop!End(k)[1]})
        <5>1. {Loop!End(k)[1]} \subseteq Loop!Conns
          BY <3>1, <3>3
        <5> QED
          BY <4>1, <5>1, ResetFrame
      <4>2. CASE ~Loop!Resets({Loop!End(k)[1]})
        <5>1. UNCHANGED Loop!network \/ (wire' = [wire EXCEPT ![e] = @ \o sending[k]] /\ UNCHANGED reset)
          BY <1>10, <3>2, <4>2 DEF Loop!CompletesSend
        <5> QED
          BY <1>0, <1>n, <3>3, <5>1 DEF WireFrame, Loop!network
      <4> QED
        BY <4>1, <4>2
    <3> QED
      BY <1>6, <2>1, <2>3, <2>4, <3>4
  <2>5. CASE k \in {"own", "client"}
    <3>1. Loop!End(k)[1] = "own" /\ Loop!Peer(Loop!End(k)) = IF k = "own" THEN There ELSE Here
      BY <1>n, <2>5
    <3>2. at'["own"] = at["own"] /\ (Unread' => Unread) /\ (k = "client" => ~Unsent' /\ InHands' = InHands)
      <4>1. CASE k = "own"
        BY <1>c, <1>n, <2>2, <4>1
      <4>2. CASE k = "client"
        <5>1. InHands' = InHands
          BY <1>n, <1>s, <2>2, <4>2
        <5> QED
          BY <2>2, <4>2, <5>1 DEF Unread, Unsent, Loop!Packet
      <4> QED
        BY <2>5, <4>1, <4>2
    <3>3. ReceivedInv'
      <4>1. CASE k = "own"
        BY <1>0, <1>n, <2>2, <4>1, ClientSame
      <4>2. CASE k = "client"
        BY <1>0, <2>2, <4>2 DEF ReceivedInv, Loop!EchoIsPrefix, Loop!IsPrefix
      <4> QED
        BY <2>5, <4>1, <4>2
    <3>4. k = "own" => ~Unsent /\ ~Unsent' /\ InHands = sending["own"] /\ InHands' = <<>> /\ Here \notin shut
      <4>1. k = "own" => ~Unsent
        BY <1>0, <2>2 DEF WireInv
      <4>2. k = "own" => InHands = sending["own"] /\ InHands' = <<>>
        BY <2>2 DEF InHands, Loop!Packet
      <4>3. k = "own" => Here \notin shut
        BY <1>0, <1>n, <2>2 DEF HandlerInv
      <4>4. k = "own" => ~Unsent'
        BY <1>c, <1>n, <2>2, <4>1
      <4> QED
        BY <4>1, <4>2, <4>3, <4>4
    <3>5. CASE "own" \in reset' /\ wire'[Here] = <<>> /\ wire'[There] = <<>>
      <4>1. WireFrame
        BY <3>5 DEF WireFrame
      <4>2. InHands' = InHands \/ (InHands' = <<>> /\ wire'[Here] = <<>>)
        BY <2>5, <3>2, <3>4, <3>5
      <4>3. (Unsent' => Unsent)
        BY <2>5, <3>2, <3>4
      <4>4. WireInv'
        BY <1>0, <2>3, <3>2, <4>1, <4>2, <4>3, WireKept
      <4> QED
        BY <3>3, <4>4 DEF EchoInv
    <3>6. CASE /\ "own" \notin reset /\ Loop!Peer(Loop!End(k)) \notin shut /\ UNCHANGED reset
               /\ wire' = [wire EXCEPT ![Loop!Peer(Loop!End(k))] = @ \o sending[k]]
      <4>1. CASE k = "own"
        <5>1. wire'[There] = wire[There] \o InHands /\ wire'[Here] = wire[Here]
          BY <1>0, <1>n, <3>1, <3>4, <3>6, <4>1
        <5>2. Unread => Flows(wire[There], InHands, wire[Here])
          BY <1>0, <3>6 DEF WireInv
        <5>3. Unread => Flows(wire[There] \o InHands, <<>>, wire[Here])
          BY <5>2, FlowSent
        <5>4. Unread' => Flows(wire'[There], InHands', wire'[Here])
          BY <3>2, <3>4, <4>1, <5>1, <5>3, Zenon
        <5>5. WireInv'
          BY <2>3, <3>4, <3>6, <4>1, <5>4, NowFlows
        <5> QED
          BY <3>3, <5>5 DEF EchoInv
      <4>2. CASE k = "client"
        <5>1. Unsent /\ sending["client"] = Message
          BY <1>0, <2>2, <4>2 DEF Unsent, ReceivedInv
        <5>2. wire[Here] = <<>> /\ wire[There] = <<>> /\ InHands = <<>>
          BY <1>0, <5>1 DEF WireInv
        <5>3. wire'[There] = <<>> /\ wire'[Here] = <<>> \o Message
          BY <1>0, <1>n, <3>1, <3>6, <4>2, <5>1, <5>2
        <5>4. <<>> \o Message = Message
          BY DEF Loop!LoopAssumption
        <5>5. Flows(wire'[There], InHands', wire'[Here])
          BY <3>2, <4>2, <5>2, <5>3, <5>4, NothingFlows, Zenon
        <5>6. Here \notin shut
          BY <3>1, <3>6, <4>2, <1>n
        <5>7. WireInv'
          BY <2>3, <3>2, <3>6, <4>2, <5>5, <5>6, NowFlows
        <5> QED
          BY <3>3, <5>7 DEF EchoInv
      <4> QED
        BY <2>5, <4>1, <4>2
    <3>7. \/ "own" \in reset' /\ wire'[Here] = <<>> /\ wire'[There] = <<>>
          \/ /\ "own" \notin reset /\ Loop!Peer(Loop!End(k)) \notin shut /\ UNCHANGED reset
             /\ wire' = [wire EXCEPT ![Loop!Peer(Loop!End(k))] = @ \o sending[k]]
      <4>1. CASE Loop!Resets({Loop!End(k)[1]})
        <5>1. {"own"} \subseteq Loop!Conns /\ Loop!Resets({"own"})
          BY <1>n, <3>1, <4>1
        <5>2. \A e \in Loop!Sides : wire'[e] = IF e[1] \in reset' THEN <<>> ELSE wire[e]
          BY <1>0, <5>1, ResetEffect
        <5>3. "own" \in reset'
          BY <1>0, <5>1, ResetEffect
        <5> QED
          BY <1>n, <5>2, <5>3
      <4>2. CASE Loop!End(k)[1] \in reset /\ UNCHANGED Loop!network
        BY <1>0, <3>1, <4>2 DEF Loop!network, WireInv
      <4> QED
        BY <1>10, <3>1, <4>1, <4>2 DEF Loop!CompletesSend
    <3> QED
      BY <3>5, <3>6, <3>7
  <2> QED
    BY <2>4, <2>5
<1>11. ASSUME NEW c \in Loop!Conns, Loop!ConnectionBreaks(c) PROVE EchoInv'
  <2>1. UNCHANGED <<at, op, sending, shut, echo>> /\ Loop!Resets({c})
    BY <1>11 DEF Loop!ConnectionBreaks
  <2>2. WireFrame
    BY <2>1, ResetFrame
  <2> QED
    BY <1>0, <1>s, <1>c, <2>1, <2>2, WireKept, ClientSame DEF EchoInv
<1>12. ASSUME NEW c \in Visitors, Loop!VisitorConnects(c) \/ Loop!VisitorCloses(c) PROVE EchoInv'
  <2>1. UNCHANGED <<at, op, sending, echo>>
    BY <1>12 DEF Loop!VisitorConnects, Loop!VisitorCloses
  <2>2. /\ WireFrame /\ (Here \in shut' => Here \in shut)
    <3>1. CASE Loop!VisitorConnects(c)
      <4>1. UNCHANGED <<reset, shut>> /\ (wire' = wire \/ wire' = [wire EXCEPT ![<<c, "here">>] = <<"byte">>])
        BY <3>1 DEF Loop!VisitorConnects
      <4> QED
        BY <1>0, <1>n, <4>1 DEF WireFrame
    <3>2. CASE Loop!VisitorCloses(c)
      <4>1. Loop!Closes(<<c, "there">>) /\ <<c, "there">> \in Loop!Sides
        BY <1>n, <3>2, LoopNames DEF Loop!VisitorCloses
      <4>2. WireFrame /\ shut' = shut \cup {<<c, "there">>}
        BY <4>1, ClosedFrame
      <4> QED
        BY <1>n, <4>2
    <3> QED
      BY <1>12, <3>1, <3>2
  <2> QED
    BY <1>0, <1>s, <1>c, <2>1, <2>2, WireKept, ClientSame DEF EchoInv
<1>13. CASE Loop!ThreadStep
  <2>1. CASE Loop!MainLeaves
    BY <1>5, <2>1 DEF Loop!MainLeaves, Loop!network
  <2> QED
    BY <1>n, <1>2, <1>3, <1>4, <1>13, <2>1 DEF Loop!ThreadStep
<1>14. ASSUME NEW k \in Loop!Coroutines, Loop!KernelStep(k) PROVE EchoInv'
  BY <1>7, <1>8, <1>9, <1>10, <1>14 DEF Loop!KernelStep
<1>15. CASE UNCHANGED loopVars
  BY <1>5, <1>15 DEF loopVars
<1> QED
  BY <1>1, <1>11, <1>12, <1>13, <1>14, <1>15 DEF Loop!Next

-----------------------------------------------------------------------------
(* The six together.                                                       *)
ProgramInv ==
    /\ program = "queue" => QueueInv
    /\ program = "apc" => ApcInv
    /\ program = "loop" => HandlersInv /\ EchoInv
    /\ program = "service" => ServiceInv /\ RecordInv
    /\ program = "address" => AddressInv
    /\ program = "progress" => ProgressInv

LEMMA ProgramInvariant == Spec => []ProgramInv
<1>1. ASSUME Init PROVE ProgramInv
  <2>1. AddressInv
    BY <1>1 DEF Init, Address!Init, AddressInv, Address!TypeOK, Address!NoSleepBehindWake,
                Address!LocalsOutliveSetter
  <2> QED
    BY <1>1, <2>1, ConstantsAssumption, QueueStarts, ApcStarts, InitHandlers, InitEcho,
       ServiceStarts, RecordStarts, ProgressStarts
       DEF Init, ProgramInv
<1>2. ProgramInv /\ [Next]_vars => ProgramInv'
  BY ConstantsAssumption, ProgramStep, QueueStep, ApcStep, HandlersStep, EchoStep,
     ServiceStep, RecordStep, AddressStep, ProgressStep
     DEF ProgramInv
<1> QED
  BY <1>1, <1>2, PTL DEF Spec

(* thread-queue.ixx: posts reach a queue, no thread begins on an object     *)
(* being destroyed, and each message is handled once.  WaitableTimers, for  *)
(* every number of functions: the exit event outlives the worker, functions *)
(* run in order and are deleted when they have run.  WaitOnAddress: no      *)
(* sleep behind the wake, and no local gone while the thread refers to it.  *)
(* progress-bar: a true answer, an object that outlives the task unless the *)
(* user closed it, and a range before the bar moves.                        *)
THEOREM WorkCorrect == Spec => []WorkInOrder
<1>1. ProgramInv => WorkInOrder
  BY QueueCorrect, ApcCorrect, ProgressCorrect DEF ProgramInv, WorkInOrder, AddressInv
<1> QED
  BY <1>1, ProgramInvariant, PTL

(* Win32Service, for every number of controls: none meets a service without *)
(* its event, and SvcMain waits as itself.                                  *)
THEOREM ReadyCorrect == Spec => []ServiceReady
<1>1. ServiceInv => Service!EventBeforeControls /\ Service!ImpersonationUndone
  BY DEF ServiceInv, EarlyInv, LateInv, Service!EventBeforeControls
<1>2. ProgramInv => ServiceReady
  BY <1>1 DEF ProgramInv, ServiceReady
<1> QED
  BY <1>2, ProgramInvariant, PTL

(* Win32Service, for every number of controls: the SCM is never told        *)
(* Running after StopPending, and unless SvcMain's last report runs during  *)
(* a control check points rise and Stopped is the last thing it hears.      *)
THEOREM ReportsCorrect == Spec => []ReportsInOrder
<1>1. ServiceInv => /\ Service!NeverBackToRunning /\ Service!CheckPointsRise
                    /\ Service!StoppedStands
  BY DEF ServiceInv, AloneInv, Service!StoppedStands
<1>2. ProgramInv => ReportsInOrder
  BY <1>1 DEF ProgramInv, ReportsInOrder
<1> QED
  BY <1>2, ProgramInvariant, PTL

(* WinsockCoroutineJunie, for every message and every number of visitors:   *)
(* while the loop runs each connection that was accepted has one coroutine  *)
(* that answers for it until its end is closed, nobody is left in the queue *)
(* of a server that ended, and what the client takes for the echo is the    *)
(* beginning of what it sent, however the bytes were cut on the way.        *)
THEOREM EchoCorrect == Spec => []EchoInOrder
<1>1. HandlersInv /\ EchoInv => Loop!HandlerPerConnection /\ Loop!EchoIsPrefix
  BY ConstantsAssumption, OneHandler DEF EchoInv, ReceivedInv
<1>2. ProgramInv => EchoInOrder
  BY <1>1 DEF ProgramInv, EchoInOrder
<1> QED
  BY <1>2, ProgramInvariant, PTL

(* Every variable of the program that runs keeps its type: among them, the  *)
(* functions queued are allocated, and no status is handed over or repeated *)
(* before a report has written one.                                         *)
THEOREM TypesCorrect == Spec => []TypeOK
<1>1. ProgramInv => TypeOK
  BY ConstantsAssumption, ApcTyped, ServiceTyped
     DEF ProgramInv, TypeOK, QueueInv, HandlersInv, LoopTypes, AddressInv, ProgressInv
<1> QED
  BY <1>1, ProgramInvariant, PTL
=============================================================================
