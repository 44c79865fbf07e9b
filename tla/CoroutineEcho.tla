---------------------------- MODULE CoroutineEcho ----------------------------
(***************************************************************************)
(* src/src/WinsockCoroutine: a server and a client, each one process with  *)
(* one thread that runs an IoEventLoop and one top-level coroutine.  The   *)
(* coroutine suspends at each overlapped operation; the loop counts the    *)
(* operations under way (AddOp, RemoveOp) and returns when there are none, *)
(* whatever the coroutine has done by then.                                *)
(*                                                                         *)
(* A step of a process is what its thread does between two calls of        *)
(* GetQueuedCompletionStatus: resume the coroutine, which takes the result *)
(* and either starts the next operation, throws or ends.  Any Winsock call *)
(* may fail; the connection may break at any moment.                       *)
(***************************************************************************)
EXTENDS Integers, SequencesExt

CONSTANTS
    Messages,     \* what the client sends: a sequence of non-empty byte sequences
    BufferSize,   \* bytes of the receive buffers (512 in the code)
    None          \* no operation

(* What the constants are.                                                  *)
MessagesAssumption ==
    /\ BufferSize \in Nat \ {0}
    /\ Messages \in Seq(Seq(Nat))
    /\ Messages # <<>> /\ \A i \in DOMAIN Messages : Messages[i] # <<>>

Side == {"server", "client"}
Peer(s) == IF s = "server" THEN "client" ELSE "server"

VARIABLES
    task,          \* how far each coroutine is: the operation it awaits, or its end
    io,            \* the IoOperation under way: None, or pending, or completed
    outstanding,   \* m_outstandingOps
    exit,          \* "running", or the value Run returned: "ok", "error"
    buffer,        \* each side's receive buffer, as an array
    sendBuf,       \* the bytes of the send under way
    next,          \* client: index of the message of the for loop
    echoes,        \* client: everything it has received
    connected,     \* the two sockets are connected
    wire,          \* bytes on their way to each side
    closed,        \* sides that have closed their socket
    broken         \* the connection was reset

procVars == <<task, io, outstanding, exit, buffer, sendBuf, next, echoes>>
netVars  == <<connected, wire, closed, broken>>
vars     == <<procVars, netVars>>

Awaiting == {"accept", "connect", "recv", "send"}
Pending == [done |-> FALSE, bytes |-> 0, error |-> FALSE]
Done(n, e) == [done |-> TRUE, bytes |-> n, error |-> e]

Init ==
    /\ task = [s \in Side |-> "created"]
    /\ io = [s \in Side |-> None]
    /\ outstanding = [s \in Side |-> 0]
    /\ exit = [s \in Side |-> "running"]
    /\ buffer = [s \in Side |-> [i \in 1 .. BufferSize |-> 0]]
    /\ sendBuf = [s \in Side |-> <<>>]
    /\ next = 1
    /\ echoes = <<>>
    /\ connected = FALSE
    /\ wire = [s \in Side |-> <<>>]
    /\ closed = {}
    /\ broken = FALSE

-----------------------------------------------------------------------------
(* The network.                                                             *)

(* closesocket; unread bytes make it a reset.                               *)
CloseSocket(s) ==
    /\ closed' = closed \cup {s}
    /\ broken' = (broken \/ wire[s] # <<>>)
    /\ wire' = IF broken' THEN [t \in Side |-> <<>>] ELSE wire
    /\ UNCHANGED connected

Reset ==
    /\ connected /\ ~broken
    /\ broken' = TRUE
    /\ wire' = [t \in Side |-> <<>>]
    /\ UNCHANGED <<procVars, connected, closed>>

(* An operation of side s completes: its packet reaches the port.           *)
Complete(s, kind, n, e) ==
    /\ task[s] = kind /\ io[s] = Pending
    /\ io' = [io EXCEPT ![s] = Done(n, e)]

Listening == task["server"] # "created" /\ exit["server"] = "running"

CompleteConnect ==
    \/ /\ Complete("client", "connect", 0, FALSE)
       /\ Listening
       /\ connected' = TRUE
       /\ UNCHANGED <<task, outstanding, exit, buffer, sendBuf, next, echoes, wire, closed, broken>>
    \/ /\ Complete("client", "connect", 0, TRUE)
       /\ UNCHANGED <<task, outstanding, exit, buffer, sendBuf, next, echoes, netVars>>

CompleteAccept ==
    /\ connected
    /\ \E e \in BOOLEAN : Complete("server", "accept", 0, e)
    /\ UNCHANGED <<task, outstanding, exit, buffer, sendBuf, next, echoes, netVars>>

CompleteRecv(s) ==
    \/ \E n \in 1 .. BufferSize :
          /\ n <= Len(wire[s])
          /\ Complete(s, "recv", n, FALSE)
          /\ buffer' = [buffer EXCEPT ![s] = SubSeq(wire[s], 1, n) \o SubSeq(@, n + 1, BufferSize)]
          /\ wire' = [wire EXCEPT ![s] = SubSeq(@, n + 1, Len(@))]
          /\ UNCHANGED <<task, outstanding, exit, sendBuf, next, echoes, connected, closed, broken>>
    \/ /\ broken \/ (wire[s] = <<>> /\ Peer(s) \in closed)
       /\ Complete(s, "recv", 0, broken)
       /\ UNCHANGED <<task, outstanding, exit, buffer, sendBuf, next, echoes, netVars>>

(* Bytes sent to a socket that is already closed are answered by a reset.   *)
CompleteSend(s) ==
    \/ /\ ~broken /\ Complete(s, "send", Len(sendBuf[s]), FALSE)
       /\ IF Peer(s) \in closed
          THEN broken' = TRUE /\ wire' = [t \in Side |-> <<>>]
          ELSE wire' = [wire EXCEPT ![Peer(s)] = @ \o sendBuf[s]] /\ UNCHANGED broken
       /\ UNCHANGED <<task, outstanding, exit, buffer, sendBuf, next, echoes, connected, closed>>
    \/ /\ broken /\ Complete(s, "send", 0, TRUE)
       /\ UNCHANGED <<task, outstanding, exit, buffer, sendBuf, next, echoes, netVars>>

-----------------------------------------------------------------------------
(* What a coroutine does when it runs.  counted is m_outstandingOps after   *)
(* the RemoveOp of the await_resume that precedes, if one does.             *)

(* await_suspend: AddOp, then the call, which is under way.                 *)
Await(s, kind, counted) ==
    /\ task' = [task EXCEPT ![s] = kind]
    /\ io' = [io EXCEPT ![s] = Pending]
    /\ outstanding' = [outstanding EXCEPT ![s] = counted + 1]

(* Seeded fault: the RemoveOp of the failing call is forgotten. *)
AwaitThrows_KeepsOp(s, counted) ==
    /\ task' = [task EXCEPT ![s] = "threw"]
    /\ io' = [io EXCEPT ![s] = None]
    /\ outstanding' = [outstanding EXCEPT ![s] = counted + 1]

(* await_suspend: the call fails at once, after AddOp, RemoveOp; or nothing *)
(* was counted yet.  The exception ends the coroutine.                      *)
AwaitThrows(s, counted) ==
    /\ task' = [task EXCEPT ![s] = "threw"]
    /\ io' = [io EXCEPT ![s] = None]
    /\ outstanding' = [outstanding EXCEPT ![s] = counted]

TaskEnds(s, how, counted) ==
    /\ task' = [task EXCEPT ![s] = how]
    /\ io' = [io EXCEPT ![s] = None]
    /\ outstanding' = [outstanding EXCEPT ![s] = counted]

(* await_resume: RemoveOp.                                                  *)
Resumed(s) == outstanding[s] - 1

(* The loop runs and takes the packet of the operation the task awaits.     *)
InLoop(s, kind) ==
    exit[s] = "running" /\ outstanding[s] > 0 /\ task[s] = kind /\ io[s] # None /\ io[s].done

-----------------------------------------------------------------------------
(* Server::AcceptAndServe and Server::HandleClient                          *)

ServerStart ==
    /\ task["server"] = "created" /\ exit["server"] = "running"
    /\ Await("server", "accept", 0) \/ AwaitThrows("server", 0)
    /\ UNCHANGED <<exit, buffer, sendBuf, next, echoes, netVars>>

ServerAccepted ==
    /\ InLoop("server", "accept")
    /\ \/ ~io["server"].error /\ Await("server", "recv", Resumed("server"))
       \/ AwaitThrows("server", Resumed("server"))
    /\ UNCHANGED <<exit, buffer, sendBuf, next, echoes, netVars>>

(* Seeded fault: the whole buffer is echoed, not what was received. *)
ServerReceived_WholeBuffer ==
    /\ InLoop("server", "recv")
    /\ io["server"].bytes > 0
    /\ \/ Await("server", "send", Resumed("server"))
       \/ AwaitThrows("server", Resumed("server"))
    /\ sendBuf' = [sendBuf EXCEPT !["server"] = buffer["server"]]
    /\ UNCHANGED <<exit, buffer, next, echoes, netVars>>

ServerReceived ==
    /\ InLoop("server", "recv")
    /\ io["server"].bytes > 0
    /\ \/ Await("server", "send", Resumed("server"))
       \/ AwaitThrows("server", Resumed("server"))
    /\ sendBuf' = [sendBuf EXCEPT !["server"] = SubSeq(buffer["server"], 1, io["server"].bytes)]
    /\ UNCHANGED <<exit, buffer, next, echoes, netVars>>

(* Nothing received, be it the end of the stream or an error: disconnected. *)
ServerDisconnected ==
    /\ InLoop("server", "recv")
    /\ io["server"].bytes = 0
    /\ CloseSocket("server")
    /\ TaskEnds("server", "returned", Resumed("server"))
    /\ UNCHANGED <<exit, buffer, sendBuf, next, echoes>>

(* The result of the send is not looked at.                                 *)
ServerSent ==
    /\ InLoop("server", "send")
    /\ \/ Await("server", "recv", Resumed("server"))
       \/ AwaitThrows("server", Resumed("server"))
    /\ UNCHANGED <<exit, buffer, sendBuf, next, echoes, netVars>>

-----------------------------------------------------------------------------
(* Client::ConnectAndChat                                                   *)

ClientStart ==
    /\ task["client"] = "created" /\ exit["client"] = "running"
    /\ Await("client", "connect", 0) \/ AwaitThrows("client", 0)
    /\ UNCHANGED <<exit, buffer, sendBuf, next, echoes, netVars>>

SendMessage(i, counted) ==
    /\ \/ Await("client", "send", counted)
       \/ AwaitThrows("client", counted)
    /\ sendBuf' = [sendBuf EXCEPT !["client"] = Messages[i]]

ClientConnected ==
    /\ InLoop("client", "connect")
    /\ \/ /\ ~io["client"].error /\ SendMessage(1, Resumed("client"))
       \/ /\ io["client"].error /\ AwaitThrows("client", Resumed("client"))
          /\ UNCHANGED sendBuf
    /\ UNCHANGED <<exit, buffer, next, echoes, netVars>>

ClientSent ==
    /\ InLoop("client", "send")
    /\ \/ Await("client", "recv", Resumed("client"))
       \/ AwaitThrows("client", Resumed("client"))
    /\ UNCHANGED <<exit, buffer, sendBuf, next, echoes, netVars>>

(* One receive per message, whatever part of the echo it returns.           *)
ClientReceived ==
    /\ InLoop("client", "recv")
    /\ echoes' = echoes \o SubSeq(buffer["client"], 1, io["client"].bytes)
    /\ \/ /\ next < Len(Messages)
          /\ next' = next + 1
          /\ SendMessage(next + 1, Resumed("client"))
          /\ UNCHANGED netVars
       \/ /\ next = Len(Messages)
          /\ CloseSocket("client")
          /\ TaskEnds("client", "returned", Resumed("client"))
          /\ UNCHANGED <<next, sendBuf>>
    /\ UNCHANGED <<exit, buffer>>

-----------------------------------------------------------------------------
(* Run: the loop ends when nothing is outstanding, await_resume rethrows    *)
(* what the task threw, and leaving the process closes the sockets.         *)
RunReturns(s) ==
    /\ exit[s] = "running" /\ task[s] # "created"
    /\ outstanding[s] = 0
    /\ exit' = [exit EXCEPT ![s] = IF task[s] = "threw" THEN "error" ELSE "ok"]
    /\ IF s \in closed \/ ~connected THEN UNCHANGED netVars ELSE CloseSocket(s)
    /\ UNCHANGED <<task, io, outstanding, buffer, sendBuf, next, echoes>>

ServerStep == ServerAccepted \/ ServerReceived \/ ServerDisconnected \/ ServerSent
ClientStep == ClientConnected \/ ClientSent \/ ClientReceived
KernelStep(s) ==
    \/ CompleteRecv(s) \/ CompleteSend(s)
    \/ s = "server" /\ CompleteAccept
    \/ s = "client" /\ CompleteConnect

(* Both processes have ended, or the server waits for a client that has     *)
(* gone without reaching it.                                                *)
Quiescent ==
    /\ exit["client"] # "running"
    /\ exit["server"] # "running" \/ (task["server"] = "accept" /\ ~connected)
    /\ UNCHANGED vars

Next ==
    \/ ServerStart \/ ClientStart \/ ServerStep \/ ClientStep \/ Reset \/ Quiescent
    \/ \E s \in Side : KernelStep(s) \/ RunReturns(s)

Spec == Init /\ [][Next]_vars

(* Both threads run and the kernel completes what it can; nobody has to     *)
(* start a process, and the network need not fail.                          *)
Fairness ==
    /\ WF_vars(ServerStep) /\ WF_vars(ClientStep)
    /\ \A s \in Side : WF_vars(KernelStep(s)) /\ WF_vars(RunReturns(s))

FairSpec == Spec /\ Fairness

-----------------------------------------------------------------------------
(* Types.  At most one operation is ever outstanding in a loop.             *)
TypeOK ==
    /\ task \in [Side -> Awaiting \cup {"created", "returned", "threw"}]
    /\ \A s \in Side : io[s] = None \/ io[s] \in [done : BOOLEAN, bytes : Nat, error : BOOLEAN]
    /\ outstanding \in [Side -> 0 .. 1]
    /\ exit \in [Side -> {"running", "ok", "error"}]
    /\ \A s \in Side : Len(buffer[s]) = BufferSize
    /\ next \in DOMAIN Messages
    /\ connected \in BOOLEAN /\ broken \in BOOLEAN /\ closed \subseteq Side

(* The loop returns exactly when the coroutine has ended: it neither gives  *)
(* up on a suspended coroutine, whose frame the kernel still writes into,   *)
(* nor waits for a packet that cannot come.                                 *)
LoopFollowsTask ==
    \A s \in Side :
        /\ outstanding[s] = IF task[s] \in Awaiting THEN 1 ELSE 0
        /\ exit[s] # "running" => task[s] \in {"returned", "threw"} /\ io[s] = None
        /\ exit[s] = "ok" => task[s] = "returned"

(* What the client has received so far, over however many receives, is the  *)
(* beginning of what it has sent: the server echoes what it received.       *)
EchoIsPrefix == IsPrefix(echoes, FlattenSeq(SubSeq(Messages, 1, next)))

(* A client that has been started ends, whatever the server does: each of   *)
(* its receives finds bytes, the end of the stream or an error.             *)
ClientEnds == (task["client"] # "created") ~> (exit["client"] # "running")

(* "accepts one client": once a client has connected, the server ends too.  *)
ServerEnds == connected ~> (exit["server"] # "running")
=============================================================================
