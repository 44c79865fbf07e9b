--------------------------- MODULE IocpEchoServer ---------------------------
(***************************************************************************)
(* src/src/WinSockIOCP: an echo server.  main accepts clients; a pool of   *)
(* worker threads takes completion packets from one completion port and    *)
(* posts the next receive or send of the connection the packet is about.   *)
(* A Connection is handed from main to the workers and deleted by the      *)
(* worker that sees it end, so its lifetime rests on there being exactly   *)
(* one operation under way for it.                                         *)
(*                                                                         *)
(* Dequeuing a packet and handling it are two steps: between them other    *)
(* workers run.  An exception that leaves a worker ends the process; one   *)
(* that leaves main's accept loop makes main join workers that are never   *)
(* told to stop.                                                           *)
(***************************************************************************)
EXTENDS Integers, FiniteSetsExt, SequencesExt

CONSTANTS
    Clients,      \* clients; each connects at most once, so also connections
    Threads,      \* worker threads, one per processor
    BufferSize,   \* bytes of an IoContext buffer (4096 in the code)
    Bytes,        \* the byte values clients send
    MaxSent       \* bound: bytes one client sends

BoundsAssumption ==
    /\ BufferSize \in Nat \ {0} /\ MaxSent \in Nat
    /\ Bytes \subseteq Nat \ {0}

Zero == 0                                  \* a byte of a fresh IoContext
AnyByte == Bytes \cup {Zero}

(* Seeded fault: the array is one byte shorter than the length in WsaBuf. *)
FreshBuffer_Short == [i \in 1 .. BufferSize - 1 |-> Zero]

FreshBuffer == [i \in 1 .. BufferSize |-> Zero]

NoPacket == [conn |-> "none", type |-> "none", ok |-> FALSE, bytes |-> 0]
Packet == [conn : Clients, type : {"recv", "send"}, ok : BOOLEAN, bytes : 0 .. BufferSize]

VARIABLES
    client,    \* the peer: idle, open, closed or reset
    sent,      \* everything the client has sent
    inbox,     \* bytes sent and not yet received by the server
    echoed,    \* everything that came back
    conn,      \* the server's Connection object; "none" until accepted
    recvBuf,   \* conn.RecvOp.Buffer
    recvInto,  \* what conn.RecvOp.WsaBuf.buf points at
    sendBuf,   \* what conn.SendOp was told to send
    op,        \* the operations the kernel is working on
    port,      \* completion packets waiting in the port, first in first out
    worker,    \* the packet each worker has dequeued
    process    \* "accepting", "joining" after a fatal error in main, "terminated"

netVars  == <<client, sent, inbox, echoed>>
connVars == <<conn, recvBuf, recvInto, sendBuf, op>>
vars     == <<netVars, connVars, port, worker, process>>

Init ==
    /\ client = [c \in Clients |-> "idle"]
    /\ sent = [c \in Clients |-> <<>>]
    /\ inbox = [c \in Clients |-> <<>>]
    /\ echoed = [c \in Clients |-> <<>>]
    /\ conn = [c \in Clients |-> "none"]
    /\ recvBuf = [c \in Clients |-> FreshBuffer]
    /\ recvInto = [c \in Clients |-> "Buffer"]
    /\ sendBuf = [c \in Clients |-> <<>>]
    /\ op = [c \in Clients |-> {}]
    /\ port = <<>>
    /\ worker = [w \in Threads |-> NoPacket]
    /\ process = "accepting"

-----------------------------------------------------------------------------
(* The clients and the network.  A client can send and leave before main    *)
(* has accepted it.                                                         *)

ClientConnect(c) ==
    /\ client[c] = "idle" /\ process # "terminated"
    /\ client' = [client EXCEPT ![c] = "open"]
    /\ UNCHANGED <<sent, inbox, echoed, connVars, port, worker, process>>

ClientSend(c) ==
    /\ client[c] = "open" /\ process # "terminated"
    /\ Len(sent[c]) < MaxSent
    /\ \E b \in Bytes :
          /\ sent' = [sent EXCEPT ![c] = Append(@, b)]
          /\ inbox' = [inbox EXCEPT ![c] = Append(@, b)]
    /\ UNCHANGED <<client, echoed, connVars, port, worker, process>>

ClientClose(c) ==
    /\ client[c] = "open" /\ process # "terminated"
    /\ client' = [client EXCEPT ![c] = "closed"]
    /\ UNCHANGED <<sent, inbox, echoed, connVars, port, worker, process>>

(* A reset loses what is in flight; it can follow an orderly close.         *)
ClientReset(c) ==
    /\ client[c] \in {"open", "closed"} /\ process # "terminated"
    /\ client' = [client EXCEPT ![c] = "reset"]
    /\ inbox' = [inbox EXCEPT ![c] = <<>>]
    /\ UNCHANGED <<sent, echoed, connVars, port, worker, process>>

-----------------------------------------------------------------------------
(* The kernel completes an overlapped operation by queuing a packet.        *)

Completion(c, t, success, n) ==
    port' = Append(port, [conn |-> c, type |-> t, ok |-> success, bytes |-> n])

RecvData(c) ==
    \E n \in 1 .. BufferSize :
       /\ client[c] # "reset" /\ n <= Len(inbox[c])
       /\ Completion(c, "recv", TRUE, n)
       /\ inbox' = [inbox EXCEPT ![c] = SubSeq(@, n + 1, Len(@))]
       /\ recvBuf' = IF recvInto[c] = "Buffer"
                     THEN [recvBuf EXCEPT ![c] = SubSeq(inbox[c], 1, n) \o SubSeq(@, n + 1, BufferSize)]
                     ELSE recvBuf

RecvEnd(c) ==
    /\ \/ client[c] = "closed" /\ inbox[c] = <<>> /\ Completion(c, "recv", TRUE, 0)
       \/ client[c] = "reset" /\ Completion(c, "recv", FALSE, 0)
    /\ UNCHANGED <<inbox, recvBuf>>

CompleteRecv(c) ==
    /\ "recv" \in op[c] /\ process # "terminated"
    /\ op' = [op EXCEPT ![c] = @ \ {"recv"}]
    /\ RecvData(c) \/ RecvEnd(c)
    /\ UNCHANGED <<client, sent, echoed, conn, recvInto, sendBuf, worker, process>>

(* A receive whose buffer lies in a dead stack frame overwrites whatever    *)
(* the thread keeps there now; the thread may not survive it.               *)
StrayWrite(c) ==
    /\ "recv" \in op[c] /\ process # "terminated"
    /\ recvInto[c] = "temporary" /\ inbox[c] # <<>>
    /\ process' = "terminated"
    /\ UNCHANGED <<netVars, connVars, port, worker>>

CompleteSend(c) ==
    /\ "send" \in op[c] /\ process # "terminated"
    /\ op' = [op EXCEPT ![c] = @ \ {"send"}]
    /\ \/ /\ client[c] # "reset"
          /\ Completion(c, "send", TRUE, Len(sendBuf[c]))
          /\ echoed' = [echoed EXCEPT ![c] = @ \o sendBuf[c]]
       \/ /\ client[c] = "reset"
          /\ Completion(c, "send", FALSE, 0)
          /\ UNCHANGED echoed
    /\ UNCHANGED <<client, sent, inbox, conn, recvBuf, recvInto, sendBuf, worker, process>>

-----------------------------------------------------------------------------
(* PostRecv assigns a fresh IoContext to RecvOp.  The assignment copies     *)
(* WsaBuf, whose buf points into the temporary, and nothing points it back  *)
(* at RecvOp.Buffer: the bytes of this receive land outside the connection. *)
PostRecv(c) ==
    /\ recvBuf' = [recvBuf EXCEPT ![c] = FreshBuffer]
    /\ recvInto' = [recvInto EXCEPT ![c] = "temporary"]
    /\ op' = [op EXCEPT ![c] = @ \cup {"recv"}]

(* Seeded fault: the length is one short. *)
PostSend_Short(c, n) ==
    /\ sendBuf' = [sendBuf EXCEPT ![c] = SubSeq(recvBuf[c], 1, n - 1)]
    /\ op' = [op EXCEPT ![c] = @ \cup {"send"}]

(* PostSend copies RecvOp.Buffer and does point buf at its own buffer.      *)
PostSend(c, n) ==
    /\ sendBuf' = [sendBuf EXCEPT ![c] = SubSeq(recvBuf[c], 1, n)]
    /\ op' = [op EXCEPT ![c] = @ \cup {"send"}]

(* WSARecv and WSASend may report an error instead of starting: they do so  *)
(* when the peer has reset the connection.                                  *)
PostFails(c) == client[c] = "reset"

-----------------------------------------------------------------------------
(* main's accept loop.                                                      *)

InBacklog(c) == client[c] # "idle" /\ conn[c] = "none"

(* accept, allocate the Connection, associate it, post the first receive.   *)
Accept(c) ==
    /\ process = "accepting" /\ InBacklog(c)
    /\ conn' = [conn EXCEPT ![c] = "live"]
    /\ PostRecv(c)
    /\ UNCHANGED <<netVars, sendBuf, port, worker, process>>

(* accept reports an error: the loop logs it and continues.                 *)
AcceptRefused(c) ==
    /\ process = "accepting" /\ InBacklog(c)
    /\ client[c] = "reset"
    /\ conn' = [conn EXCEPT ![c] = "refused"]
    /\ UNCHANGED <<netVars, recvBuf, recvInto, sendBuf, op, port, worker, process>>

(* Associate or the first WSARecv throws: the exception leaves the loop,    *)
(* the Connection is never deleted, and unwinding joins the workers.        *)
AcceptThrows(c) ==
    /\ process = "accepting" /\ InBacklog(c)
    /\ conn' = [conn EXCEPT ![c] = "leaked"]
    /\ process' = "joining"
    /\ UNCHANGED <<netVars, recvBuf, recvInto, sendBuf, op, port, worker>>

-----------------------------------------------------------------------------
(* WorkerThread                                                             *)

Dequeue(w) ==
    /\ worker[w] = NoPacket /\ process # "terminated"
    /\ port # <<>>
    /\ worker' = [worker EXCEPT ![w] = Head(port)]
    /\ port' = Tail(port)
    /\ UNCHANGED <<netVars, connVars, process>>

Handling(w) == worker[w] # NoPacket /\ process # "terminated"
Finish(w)   == worker' = [worker EXCEPT ![w] = NoPacket]

(* Seeded fault: an operation that failed is started again. *)
HandleEnd_Retries(w) ==
    LET p == worker[w] IN
    /\ Handling(w)
    /\ ~p.ok \/ p.bytes = 0
    /\ IF p.ok THEN conn' = [conn EXCEPT ![p.conn] = "deleted"] /\ UNCHANGED op
               ELSE op' = [op EXCEPT ![p.conn] = @ \cup {p.type}] /\ UNCHANGED conn
    /\ Finish(w)
    /\ UNCHANGED <<netVars, recvBuf, recvInto, sendBuf, port, process>>

(* "Connection closed or error": delete conn, whose destructor closes the   *)
(* socket.                                                                  *)
HandleEnd(w) ==
    LET p == worker[w] IN
    /\ Handling(w)
    /\ ~p.ok \/ p.bytes = 0
    /\ conn' = [conn EXCEPT ![p.conn] = "deleted"]
    /\ Finish(w)
    /\ UNCHANGED <<netVars, recvBuf, recvInto, sendBuf, op, port, process>>

(* Seeded fault: the next receive is posted together with the send. *)
HandleRecv_PostsBoth(w) ==
    LET p == worker[w] IN
    /\ Handling(w)
    /\ p.ok /\ p.bytes > 0 /\ p.type = "recv"
    /\ sendBuf' = [sendBuf EXCEPT ![p.conn] = SubSeq(recvBuf[p.conn], 1, p.bytes)]
    /\ op' = [op EXCEPT ![p.conn] = @ \cup {"send", "recv"}]
    /\ Finish(w)
    /\ UNCHANGED <<netVars, conn, recvBuf, recvInto, port, process>>

HandleRecv(w) ==
    LET p == worker[w] IN
    /\ Handling(w)
    /\ p.ok /\ p.bytes > 0 /\ p.type = "recv"
    /\ PostSend(p.conn, p.bytes)
    /\ Finish(w)
    /\ UNCHANGED <<netVars, conn, recvBuf, recvInto, port, process>>

HandleSend(w) ==
    LET p == worker[w] IN
    /\ Handling(w)
    /\ p.ok /\ p.bytes > 0 /\ p.type = "send"
    /\ PostRecv(p.conn)
    /\ Finish(w)
    /\ UNCHANGED <<netVars, conn, sendBuf, port, process>>

(* PostSend or PostRecv throws: nothing in WorkerThread catches it, and an  *)
(* exception that leaves a thread's function terminates the process.        *)
HandleThrows(w) ==
    LET p == worker[w] IN
    /\ Handling(w)
    /\ p.ok /\ p.bytes > 0
    /\ PostFails(p.conn)
    /\ process' = "terminated"
    /\ UNCHANGED <<netVars, connVars, port, worker>>

WorkerThread(w) ==
    Dequeue(w) \/ HandleEnd(w) \/ HandleRecv(w) \/ HandleSend(w) \/ HandleThrows(w)

-----------------------------------------------------------------------------
ClientStep(c) == ClientConnect(c) \/ ClientSend(c) \/ ClientClose(c) \/ ClientReset(c)
KernelStep(c) == CompleteRecv(c) \/ CompleteSend(c)
MainStep(c)   == Accept(c) \/ AcceptRefused(c) \/ AcceptThrows(c)

Next ==
    \/ \E c \in Clients : ClientStep(c) \/ KernelStep(c) \/ StrayWrite(c) \/ MainStep(c)
    \/ \E w \in Threads : WorkerThread(w)

Spec == Init /\ [][Next]_vars

(* The kernel completes what it can complete and runs every worker; no      *)
(* client has to do anything, and main may never get to accept.             *)
Fairness ==
    /\ \A c \in Clients : WF_vars(KernelStep(c))
    /\ \A w \in Threads : WF_vars(WorkerThread(w))

FairSpec == Spec /\ Fairness

-----------------------------------------------------------------------------
(* Types; in particular a send never exceeds the buffer it is copied into.  *)
TypeOK ==
    /\ client \in [Clients -> {"idle", "open", "closed", "reset"}]
    /\ sent \in [Clients -> Seq(Bytes)] /\ inbox \in [Clients -> Seq(Bytes)]
    /\ echoed \in [Clients -> Seq(AnyByte)] /\ sendBuf \in [Clients -> Seq(AnyByte)]
    /\ \A c \in Clients : Len(sendBuf[c]) <= BufferSize
    /\ conn \in [Clients -> {"none", "live", "leaked", "refused", "deleted"}]
    /\ recvBuf \in [Clients -> [1 .. BufferSize -> AnyByte]]
    /\ recvInto \in [Clients -> {"Buffer", "temporary"}]
    /\ op \in [Clients -> SUBSET {"recv", "send"}]
    /\ port \in Seq(Packet)
    /\ worker \in [Threads -> Packet \cup {NoPacket}]
    /\ process \in {"accepting", "joining", "terminated"}

(* Where the one operation of connection c currently is: with the kernel,   *)
(* in the port, or in the hands of a worker.                                *)
Places(c) ==
    {<<"kernel", t>> : t \in op[c]}
        \cup {<<"port", i>> : i \in {j \in DOMAIN port : port[j].conn = c}}
        \cup {<<"worker", w>> : w \in {v \in Threads : worker[v] # NoPacket /\ worker[v].conn = c}}

(* A live Connection always has exactly one operation under way, and a      *)
(* Connection that was deleted, leaked or never made has none.  This is     *)
(* what lets WorkerThread use and delete the key of a packet without a      *)
(* lock: no two workers ever hold the same Connection, none is deleted      *)
(* twice, and no packet names a deleted one.                                *)
OneOperationEach ==
    \A c \in Clients :
        IF conn[c] = "live" THEN \E x \in Places(c) : Places(c) = {x} ELSE Places(c) = {}

(* Bytes of client c that were received and whose echo has not started, and *)
(* bytes whose echo the kernel is working on.                               *)
Received(c) ==
    LET Bearing(p) == p # NoPacket /\ p.conn = c /\ p.type = "recv"
    IN  MapThenSumSet(LAMBDA i : port[i].bytes, {i \in DOMAIN port : Bearing(port[i])})
        + MapThenSumSet(LAMBDA w : worker[w].bytes, {w \in Threads : Bearing(worker[w])})

Echoing(c) == IF "send" \in op[c] THEN Len(sendBuf[c]) ELSE 0

(* As long as a client has not reset its connection, every byte it sent is  *)
(* somewhere: unread, received, being echoed or echoed.  So when its        *)
(* Connection is deleted after an orderly close, as many bytes came back    *)
(* as it sent.                                                              *)
EveryByteCounted ==
    \A c \in Clients :
        client[c] # "reset" =>
            /\ Len(sent[c]) = Len(inbox[c]) + Received(c) + Echoing(c) + Len(echoed[c])
            /\ conn[c] = "deleted" => Len(echoed[c]) = Len(sent[c])

(* A client that has gone away is noticed: the worker that sees the end of  *)
(* the stream, or the error, deletes its Connection, unless the process     *)
(* itself ends.                                                             *)
DepartedAreForgotten ==
    \A c \in Clients :
        client[c] \in {"closed", "reset"} /\ conn[c] = "live"
            ~> conn[c] = "deleted" \/ process = "terminated"

(* main.cpp line 3: "Accepts multiple TCP clients and echoes back whatever  *)
(* they send."                                                              *)
EchoesWhatTheySend == \A c \in Clients : IsPrefix(echoed[c], sent[c])
=============================================================================
