---------------------------- MODULE StreamPrograms ---------------------------
(***************************************************************************)
(* Programs of the repository that pass a stream of bytes or messages from *)
(* one side to another: over a socket and back, by completion port         *)
(* (IocpEchoServer) or coroutine (CoroutineEcho), in the records of a TLS  *)
(* session (TlsClient), over a named pipe (MessagePipe), over the          *)
(* redirected standard handles of a child process (RedirectedChild), over  *)
(* a list of buffers in memory (TransportList) and in an array that        *)
(* processes share (SharedArray).  They share nothing: a behaviour is one  *)
(* of the program named by `program', and the others are not started.      *)
(***************************************************************************)
EXTENDS Integers, Sequences

CONSTANTS
    BufferSize,                     \* what one receive or ReadFile asks for
    Clients, Threads, Bytes, MaxSent,  \* IocpEchoServer
    PipeSize,                       \* what a pipe holds
    Messages, None,                 \* CoroutineEcho
    MaxPacket, ReadSize, HandshakeSizes, Responses,  \* TlsClient
    Header, Payloads, MaxMessages,  \* MessagePipe
    MaxFile, BUFSIZE,               \* RedirectedChild
    Writer, Reader, WriteSizes, ReadSizes, MaxWrites, MaxReads,  \* TransportList
    MaxElements, MaxStarts          \* SharedArray

VARIABLES
    program,
    task, io, outstanding, exit, buffer, sendBuf, message, echoes,
    connected, wire, closed, broken,
    client, clientSent, inbox, echoed, conn, recvBuf, recvInto, sendInto, op, port,
    worker, process,
    phase, incoming, handshaken, decrypted, buf, received, myfile, kept, asked, answer,
    script, stream, server, ending,
    writer, written, pipe, reader, returnBuffer, totalBytesRead, returned,
    file, ppc, sent, pbuf, cpc, cbuf, wcout, cOk, holders, inherit, pipeIn, pipeOut,
    printed, abnormal,
    pc, lock, hr, forward, backward, data, size, index, alive, entry, last, next, room, copied,
    writes, reads, appended, read,
    mutex, m_currentCount, m_array, serverAt, element, starts, clientAt, clientElement

Echo  == INSTANCE CoroutineEcho WITH next <- message
Iocp  == INSTANCE IocpEchoServer WITH sent <- clientSent, sendBuf <- sendInto
Tls   == INSTANCE TlsClient
Pipe  == INSTANCE MessagePipe
Child == INSTANCE RedirectedChild
List  == INSTANCE TransportList WITH written <- appended
Array == INSTANCE SharedArray

ASSUME ConstantsAssumption ==
    /\ Echo!MessagesAssumption /\ Iocp!BoundsAssumption /\ Tls!TlsAssumption
    /\ Pipe!SizesAssumption /\ Child!SizesAssumption /\ List!SizesAssumption
    /\ Array!ArrayAssumption

echoVars  == <<task, io, outstanding, exit, buffer, sendBuf, message, echoes,
               connected, wire, closed, broken>>
iocpVars  == <<client, clientSent, inbox, echoed, conn, recvBuf, recvInto, sendInto,
               op, port, worker, process>>
tlsVars   == <<phase, incoming, handshaken, decrypted, buf, received, myfile, kept, asked,
               answer, script, stream, server, ending>>
pipeVars  == <<writer, written, pipe, reader, returnBuffer, totalBytesRead, returned>>
childVars == <<file, ppc, sent, pbuf, cpc, cbuf, wcout, cOk, holders, inherit, pipeIn,
               pipeOut, printed, abnormal>>
listVars  == <<pc, lock, hr, forward, backward, data, size, index, alive, entry, last, next,
               room, copied, writes, reads, appended, read>>
arrayVars == <<mutex, m_currentCount, m_array, serverAt, element, starts, clientAt,
               clientElement>>
vars      == <<program, echoVars, iocpVars, tlsVars, pipeVars, childVars,
               listVars, arrayVars>>

(* The file and the response are chosen only for the program they are for.  *)
Init ==
    /\ program \in {"echo", "iocp", "tls", "pipe", "child", "list", "array"}
    /\ Echo!Init /\ Iocp!Init /\ Tls!Init /\ Pipe!Init /\ Child!Init /\ List!Init
    /\ Array!Init
    /\ program # "child" => file = <<>>
    /\ program # "tls" => answer = CHOOSE r \in Responses : TRUE

Next ==
    /\ \/ /\ program = "echo" /\ Echo!Next
          /\ UNCHANGED <<iocpVars, tlsVars, pipeVars, childVars, listVars, arrayVars>>
       \/ /\ program = "iocp" /\ Iocp!Next
          /\ UNCHANGED <<echoVars, tlsVars, pipeVars, childVars, listVars, arrayVars>>
       \/ /\ program = "tls" /\ Tls!Next
          /\ UNCHANGED <<echoVars, iocpVars, pipeVars, childVars, listVars, arrayVars>>
       \/ /\ program = "pipe" /\ Pipe!Next
          /\ UNCHANGED <<echoVars, iocpVars, tlsVars, childVars, listVars, arrayVars>>
       \/ /\ program = "child" /\ Child!Next
          /\ UNCHANGED <<echoVars, iocpVars, tlsVars, pipeVars, listVars, arrayVars>>
       \/ /\ program = "list" /\ List!Next
          /\ UNCHANGED <<echoVars, iocpVars, tlsVars, pipeVars, childVars, arrayVars>>
       \/ /\ program = "array" /\ Array!Next
          /\ UNCHANGED <<echoVars, iocpVars, tlsVars, pipeVars, childVars, listVars>>
    /\ UNCHANGED program

(* The fairness of each program, stated and justified in its own module.    *)
Fairness ==
    /\ WF_echoVars(program = "echo" /\ Echo!ServerStep)
    /\ WF_echoVars(program = "echo" /\ Echo!ClientStep)
    /\ \A s \in Echo!Side : /\ WF_echoVars(program = "echo" /\ Echo!KernelStep(s))
                            /\ WF_echoVars(program = "echo" /\ Echo!RunReturns(s))
    /\ \A c \in Clients : WF_iocpVars(program = "iocp" /\ Iocp!KernelStep(c))
    /\ \A t \in Threads : WF_iocpVars(program = "iocp" /\ Iocp!WorkerThread(t))
    /\ WF_tlsVars(program = "tls" /\ Tls!ClientStep)
    /\ WF_tlsVars(program = "tls" /\ Tls!ServerSends)
    /\ WF_tlsVars(program = "tls" /\ Tls!ServerCloses)
    /\ WF_pipeVars(program = "pipe" /\ Pipe!ReadPipe)
    /\ WF_pipeVars(program = "pipe" /\ Pipe!ReadFile)
    /\ WF_pipeVars(program = "pipe" /\ Pipe!WriteReturns)
    /\ WF_childVars(program = "child" /\ Child!ParentStep)
    /\ WF_childVars(program = "child" /\ Child!ChildStep)
    /\ \A t \in Writer : WF_listVars(program = "list" /\ pc[t] # "idle" /\ List!WriteData(t))
    /\ \A t \in Reader : WF_listVars(program = "list" /\ pc[t] # "idle" /\ List!ReadData(t))
    /\ WF_arrayVars(program = "array" /\ Array!ServerStep)
    /\ \A k \in Array!Client : WF_arrayVars(program = "array" /\ Array!ClientStep(k))

Spec == Init /\ [][Next]_vars /\ Fairness

-----------------------------------------------------------------------------
(* Types of the program that runs.                                          *)
TypeOK ==
    /\ program = "echo" => Echo!TypeOK
    /\ program = "iocp" => Iocp!TypeOK
    /\ program = "tls" => Tls!TypeOK
    /\ program = "pipe" => Pipe!TypeOK
    /\ program = "child" => Child!TypeOK
    /\ program = "list" => List!TypeOK
    /\ program = "array" => Array!TypeOK

(* WinsockCoroutine: the loop returns exactly when the coroutine has ended, *)
(* never with an operation under way and never waiting for none.            *)
LoopFollowsTask == program = "echo" => Echo!LoopFollowsTask

(* WinSockIOCP: while the workers run, every live Connection has exactly    *)
(* one operation: with the kernel, in a packet, or with a worker.           *)
OneOperationEach == program = "iocp" => Iocp!OneOperationEach

(* WinSockIOCP: no byte is lost or made up in number between what a client  *)
(* sent and what came back to it.                                           *)
EveryByteCounted == program = "iocp" => Iocp!EveryByteCounted

(* What comes back is the beginning of what was sent: the echo of           *)
(* WinsockCoroutine; the response that SecureSocket receives, all of it     *)
(* when the session ended by being closed, and in its file as text unless a *)
(* zero byte cut it; and the file that Parent has Child copy, all of it     *)
(* when both processes end by themselves.                                   *)
SentComesBack ==
    /\ program = "echo" => Echo!EchoIsPrefix
    /\ program = "tls" => Tls!ResponseArrives
    /\ program = "child" => Child!FileComesBack

(* PipeLib: every ReadFile of the loop stays inside the buffer; messages    *)
(* are never merged, split, reordered or lost; and one with a header keeps  *)
(* it, with its payload behind it.  ClientServerLib: every message is added *)
(* inside the array, no slot is read before its message was constructed or  *)
(* after it was zeroed, and the server reads back what it added.            *)
MessagesIntact ==
    /\ program = "pipe" =>
         Pipe!ReadInBounds /\ Pipe!MessagesStayWhole /\ Pipe!HeaderSurvives
    /\ program = "array" =>
         Array!AddedInBounds /\ Array!ReadsConstructed /\ Array!ReadBack

(* XSocket: what ReadData has handed out, with what the entries still hold, *)
(* is the stream that WriteData took in, as long as no copy has gone beyond *)
(* the end of an entry; the entries stay a ring in both directions; and     *)
(* none is allocated outside it.                                            *)
ListIntact ==
    program = "list" =>
        /\ List!StreamIntact
        /\ List!RingInBothDirections
        /\ List!NothingLeaks

(* PipeLib: a write that exceeds the quota blocks only until the data is    *)
(* read, and every message is read, unless the reader goes away.  XSocket:  *)
(* every call of WriteData and ReadData returns, unless the assertion of a  *)
(* ReadData that has nothing to hand out ends the process.                  *)
CallsReturn ==
    /\ program = "pipe" => Pipe!WriteUnblocks /\ Pipe!EveryMessageRead
    /\ program = "list" => List!CallsReturn

(* WinSockIOCP: the Connection of a client that left is deleted.            *)
DepartedAreForgotten == program = "iocp" => Iocp!DepartedAreForgotten

(* WinsockCoroutine: a client that was started ends, and so does a server   *)
(* that a client has connected to.  SecureSocket: the client ends, whatever *)
(* the server does and wherever the bytes break.  Parent and Child: the     *)
(* child ends when its input does, and the parent whenever the child does.  *)
(* ProcessServer and ProcessClient: the server ends, and so does a client   *)
(* once the server has added everything.                                    *)
ProcessesEnd ==
    /\ program = "echo" => Echo!ClientEnds /\ Echo!ServerEnds
    /\ program = "tls" => Tls!ClientEnds
    /\ program = "child" => Child!ChildEnds /\ Child!ParentEnds
    /\ program = "array" => Array!SharersEnd
=============================================================================
