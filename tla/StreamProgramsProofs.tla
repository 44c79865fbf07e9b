------------------------ MODULE StreamProgramsProofs ------------------------
(***************************************************************************)
(* What is proved of the programs that pass streams, for every value of    *)
(* their constants: that the loop of WinsockCoroutine returns exactly when *)
(* its coroutine has ended, from TransportProofs that every live           *)
(* Connection of WinSockIOCP has exactly one operation and that no byte is *)
(* lost or made up in number, and that XSocket's list stays a ring and its *)
(* bytes a stream, from ByteStreamProofs that the pipe programs read their *)
(* messages whole, that the parent prints its file and that the echo and   *)
(* the server's answer come back; and the types of all seven programs.     *)
(***************************************************************************)
EXTENDS StreamPrograms, TLAPS

(* A step is a step of the program that runs, or none.                      *)
LEMMA ProgramStep ==
  ASSUME [Next]_vars
  PROVE  /\ program' = program
         /\ program = "echo" => [Echo!Next]_echoVars
         /\ program = "iocp" => [Iocp!Next]_iocpVars
         /\ program = "tls" => [Tls!Next]_tlsVars
         /\ program = "pipe" => [Pipe!Next]_pipeVars
         /\ program = "child" => [Child!Next]_childVars
         /\ program = "list" => [List!Next]_listVars
         /\ program = "array" => [Array!Next]_arrayVars
BY DEF Next, vars, echoVars, iocpVars, tlsVars, pipeVars, childVars, listVars,
       arrayVars

-----------------------------------------------------------------------------
(* WinsockCoroutine.  The count and the coroutine agree in every state, and *)
(* only a suspended coroutine has an operation the kernel may write to.     *)
LoopInv ==
    /\ task \in [Echo!Side -> Echo!Awaiting \cup {"created", "returned", "threw"}]
    /\ DOMAIN io = Echo!Side /\ DOMAIN outstanding = Echo!Side
    /\ exit \in [Echo!Side -> {"running", "ok", "error"}]
    /\ \A s \in Echo!Side :
          /\ outstanding[s] = IF task[s] \in Echo!Awaiting THEN 1 ELSE 0
          /\ task[s] \notin Echo!Awaiting => io[s] = None
          /\ exit[s] # "running" => task[s] \in {"returned", "threw"}
          /\ exit[s] = "ok" => task[s] = "returned"

(* A process that starts or resumes its coroutine, whatever that does.      *)
LEMMA LoopRuns ==
  ASSUME LoopInv, NEW s \in Echo!Side, NEW k, exit[s] = "running",
         NEW kind \in Echo!Awaiting, NEW how \in {"returned", "threw"},
         k = 0,
         \/ Echo!Await(s, kind, k)
         \/ Echo!AwaitThrows(s, k)
         \/ Echo!TaskEnds(s, how, k),
         UNCHANGED exit
  PROVE  LoopInv'
BY DEF LoopInv, Echo!Await, Echo!AwaitThrows, Echo!TaskEnds, Echo!Awaiting

(* Every step of the two processes and of the kernel keeps them agreeing.   *)
LEMMA LoopStep ==
  ASSUME LoopInv, [Echo!Next]_echoVars
  PROVE  LoopInv'
<1>s. "server" \in Echo!Side /\ "client" \in Echo!Side
  BY DEF Echo!Side
<1>a. {"accept", "connect", "recv", "send"} = Echo!Awaiting
  BY DEF Echo!Awaiting
<1>1. CASE Echo!ServerStart \/ Echo!ClientStart
  BY <1>1, <1>s, <1>a, LoopRuns DEF Echo!ServerStart, Echo!ClientStart
<1>2. ASSUME NEW s \in Echo!Side, NEW kind \in Echo!Awaiting, Echo!InLoop(s, kind)
      PROVE  exit[s] = "running" /\ Echo!Resumed(s) = 0
  BY <1>2 DEF Echo!InLoop, Echo!Resumed, LoopInv
<1>3. CASE Echo!ServerStep
  BY <1>3, <1>s, <1>a, <1>2, LoopRuns
     DEF Echo!ServerStep, Echo!ServerAccepted, Echo!ServerReceived,
         Echo!ServerDisconnected, Echo!ServerSent
<1>4. CASE Echo!ClientStep
  BY <1>4, <1>s, <1>a, <1>2, LoopRuns
     DEF Echo!ClientStep, Echo!ClientConnected, Echo!ClientSent, Echo!ClientReceived,
         Echo!SendMessage
<1>5. ASSUME NEW s \in Echo!Side, NEW kind \in Echo!Awaiting, NEW n, NEW e,
             Echo!Complete(s, kind, n, e), UNCHANGED <<task, outstanding, exit>>
      PROVE  LoopInv'
  BY <1>5 DEF LoopInv, Echo!Complete
<1>6. ASSUME NEW s \in Echo!Side, Echo!KernelStep(s) PROVE LoopInv'
  BY <1>5, <1>6, <1>s, <1>a
     DEF Echo!KernelStep, Echo!CompleteRecv, Echo!CompleteSend, Echo!CompleteAccept,
         Echo!CompleteConnect
<1>7. ASSUME NEW s \in Echo!Side, Echo!RunReturns(s) PROVE LoopInv'
  BY <1>7 DEF LoopInv, Echo!RunReturns, Echo!Awaiting
<1>8. CASE UNCHANGED <<task, io, outstanding, exit>>
  BY <1>8 DEF LoopInv
<1> QED
  BY <1>1, <1>3, <1>4, <1>6, <1>7, <1>8
     DEF Echo!Next, Echo!Reset, Echo!Quiescent, Echo!vars, Echo!procVars, echoVars

(* WinsockCoroutine: Run gives up on no suspended coroutine and waits for   *)
(* no packet that cannot come, whichever calls fail.                        *)
THEOREM LoopCorrect == Spec => []LoopFollowsTask
<1> DEFINE I == program = "echo" => LoopInv
<1>1. Init => I
  BY DEF Init, Echo!Init, LoopInv, Echo!Side, Echo!Awaiting
<1>2. I /\ [Next]_vars => I'
  BY ProgramStep, LoopStep
<1>3. I => LoopFollowsTask
  BY DEF LoopFollowsTask, Echo!LoopFollowsTask, LoopInv, Echo!Awaiting
<1> QED
  BY <1>1, <1>2, <1>3, PTL DEF Spec

-----------------------------------------------------------------------------
(* WinSockIOCP.  What TransportProofs proves of the server alone.           *)
Transport ==
  INSTANCE TransportProofs WITH sent <- clientSent, sendBuf <- sendInto, written <- appended

(* The server of those proofs is the server of this module.                 *)
LEMMA SameServer ==
  /\ Iocp!BoundsAssumption <=> Transport!Iocp!BoundsAssumption
  /\ Iocp!Init <=> Transport!Iocp!Init
  /\ Iocp!Next <=> Transport!Iocp!Next
  /\ Iocp!OneOperationEach <=> Transport!Iocp!OneOperationEach
  /\ Iocp!EveryByteCounted <=> Transport!Iocp!EveryByteCounted
  /\ Iocp!TypeOK <=> Transport!Iocp!TypeOK
<1>1. Iocp!BoundsAssumption <=> Transport!Iocp!BoundsAssumption
  BY DEF Iocp!BoundsAssumption, Transport!Iocp!BoundsAssumption
<1>2. Iocp!Init <=> Transport!Iocp!Init
  BY DEF Iocp!Init, Transport!Iocp!Init, Iocp!FreshBuffer, Transport!Iocp!FreshBuffer,
       Iocp!Zero, Transport!Iocp!Zero, Iocp!NoPacket, Transport!Iocp!NoPacket
<1>3. Iocp!OneOperationEach <=> Transport!Iocp!OneOperationEach
  BY DEF Iocp!OneOperationEach, Transport!Iocp!OneOperationEach, Iocp!Places,
       Transport!Iocp!Places, Iocp!NoPacket, Transport!Iocp!NoPacket
<1>4. Iocp!Next <=> Transport!Iocp!Next
  BY DEF Iocp!Next, Transport!Iocp!Next, Iocp!ClientStep, Transport!Iocp!ClientStep,
         Iocp!ClientConnect, Transport!Iocp!ClientConnect, Iocp!ClientSend,
         Transport!Iocp!ClientSend, Iocp!ClientClose, Transport!Iocp!ClientClose,
         Iocp!ClientReset, Transport!Iocp!ClientReset, Iocp!KernelStep,
         Transport!Iocp!KernelStep, Iocp!CompleteRecv, Transport!Iocp!CompleteRecv,
         Iocp!RecvData, Transport!Iocp!RecvData, Iocp!RecvEnd, Transport!Iocp!RecvEnd,
         Iocp!Completion, Transport!Iocp!Completion, Iocp!CompleteSend,
         Transport!Iocp!CompleteSend, Iocp!StrayWrite, Transport!Iocp!StrayWrite,
         Iocp!MainStep, Transport!Iocp!MainStep, Iocp!InBacklog,
         Transport!Iocp!InBacklog, Iocp!Accept, Transport!Iocp!Accept,
         Iocp!AcceptRefused, Transport!Iocp!AcceptRefused, Iocp!AcceptThrows,
         Transport!Iocp!AcceptThrows, Iocp!PostRecv, Transport!Iocp!PostRecv,
         Iocp!PostSend, Transport!Iocp!PostSend, Iocp!PostFails,
         Transport!Iocp!PostFails, Iocp!FreshBuffer, Transport!Iocp!FreshBuffer,
         Iocp!Zero, Transport!Iocp!Zero, Iocp!WorkerThread,
         Transport!Iocp!WorkerThread, Iocp!Dequeue, Transport!Iocp!Dequeue,
         Iocp!Handling, Transport!Iocp!Handling, Iocp!Finish, Transport!Iocp!Finish,
         Iocp!HandleEnd, Transport!Iocp!HandleEnd, Iocp!HandleRecv,
         Transport!Iocp!HandleRecv, Iocp!HandleSend, Transport!Iocp!HandleSend,
         Iocp!HandleThrows, Transport!Iocp!HandleThrows, Iocp!NoPacket,
         Transport!Iocp!NoPacket, Iocp!netVars, Transport!Iocp!netVars, Iocp!connVars,
         Transport!Iocp!connVars
<1>5. Iocp!EveryByteCounted <=> Transport!Iocp!EveryByteCounted
  BY DEF Iocp!EveryByteCounted, Transport!Iocp!EveryByteCounted, Iocp!Received,
         Transport!Iocp!Received, Iocp!Echoing, Transport!Iocp!Echoing, Iocp!NoPacket,
         Transport!Iocp!NoPacket, Iocp!MapThenSumSet, Transport!Iocp!MapThenSumSet,
         Iocp!MapThenFoldSet, Transport!Iocp!MapThenFoldSet
<1>6. Iocp!TypeOK <=> Transport!Iocp!TypeOK
  BY DEF Iocp!TypeOK, Transport!Iocp!TypeOK, Iocp!AnyByte, Transport!Iocp!AnyByte,
       Iocp!Zero, Transport!Iocp!Zero, Iocp!Packet, Transport!Iocp!Packet,
       Iocp!NoPacket, Transport!Iocp!NoPacket
<1> QED
  BY <1>1, <1>2, <1>3, <1>4, <1>5, <1>6

(* The invariant of those proofs, of this module.                           *)
LEMMA ServerCorrect == Spec => [](program = "iocp" => Transport!ServerInv)
<1> DEFINE I == program = "iocp" => Transport!ServerInv
<1>0. Transport!Iocp!BoundsAssumption
  BY ConstantsAssumption, SameServer
<1>1. Init => I
  BY <1>0, SameServer, Transport!ServerInvInit DEF Init
<1>2. ASSUME I, [Next]_vars, program' = "iocp" PROVE Transport!ServerInv'
  <2>1. Transport!ServerInv /\ [Iocp!Next]_iocpVars
    BY <1>2, ProgramStep
  <2>2. [Transport!Iocp!Next]_(Transport!Iocp!vars)
    BY <2>1, SameServer DEF iocpVars, Transport!Iocp!vars, Transport!Iocp!netVars,
         Transport!Iocp!connVars
  <2> QED
    BY <1>0, <2>1, <2>2, Transport!ServerInvStep
<1>3. I /\ [Next]_vars => I'
  BY <1>2
<1> QED
  BY <1>1, <1>3, PTL DEF Spec

(* WinSockIOCP: a live Connection has exactly one operation, whatever the   *)
(* number of clients and workers and however their steps interleave.        *)
THEOREM OperationsCorrect == Spec => []OneOperationEach
<1>1. (program = "iocp" => Transport!ServerInv) => OneOperationEach
  BY SameServer, Transport!OnePlace DEF OneOperationEach, Transport!ServerInv
<1> QED
  BY <1>1, ServerCorrect, PTL

(* WinSockIOCP: no byte is lost or made up in number on its way through the *)
(* kernel, the port and the workers, and none is missing when a Connection  *)
(* is deleted after its client has closed.                                  *)
THEOREM BytesCorrect == Spec => []EveryByteCounted
<1>1. (program = "iocp" => Transport!ServerInv) => EveryByteCounted
  BY SameServer, Transport!CountedBytes DEF EveryByteCounted, Transport!ServerInv
<1> QED
  BY <1>1, ServerCorrect, PTL

-----------------------------------------------------------------------------
(* PipeLib.  What ByteStreamProofs proves of one pipe.                      *)
PipeProof == INSTANCE ByteStreamProofs

(* The pipe of those proofs is the pipe of this module.                     *)
LEMMA SamePipe ==
  /\ Pipe!SizesAssumption <=> PipeProof!SizesAssumption
  /\ Pipe!Init <=> PipeProof!Init
  /\ Pipe!Next => PipeProof!Moves
  /\ Pipe!ReadInBounds <=> PipeProof!ReadInBounds
  /\ Pipe!MessagesStayWhole <=> PipeProof!MessagesStayWhole
  /\ Pipe!HeaderSurvives <=> PipeProof!HeaderSurvives
<1>1. /\ Pipe!SizesAssumption <=> PipeProof!SizesAssumption
      /\ Pipe!Init <=> PipeProof!Init
      /\ Pipe!ReadInBounds <=> PipeProof!ReadInBounds
  BY DEF Pipe!SizesAssumption, PipeProof!SizesAssumption, Pipe!Init, PipeProof!Init,
         Pipe!ReadInBounds, PipeProof!ReadInBounds
<1>2. Pipe!MessagesStayWhole <=> PipeProof!MessagesStayWhole
  BY DEF Pipe!MessagesStayWhole, PipeProof!MessagesStayWhole, Pipe!Progress,
       PipeProof!Progress
<1>3. Pipe!HeaderSurvives <=> PipeProof!HeaderSurvives
  BY DEF Pipe!HeaderSurvives, PipeProof!HeaderSurvives, Pipe!ReadWithHeader,
       PipeProof!ReadWithHeader, Pipe!Zeros, PipeProof!Zeros, Pipe!IsPrefix,
       PipeProof!IsPrefix
<1>4. Pipe!Next => PipeProof!Moves
  <2>1. Pipe!Next => \/ Pipe!WriteMessage \/ Pipe!ReadPipe \/ Pipe!ReadFile \/ Pipe!ReaderCloses
                     \/ PipeProof!WriterMoves
    BY DEF Pipe!Next, Pipe!WriteReturns, Pipe!WriteFails, Pipe!WriterCloses,
           PipeProof!WriterMoves, Pipe!readerVars, PipeProof!readerVars
  <2>2. /\ Pipe!WriteMessage <=> PipeProof!WriteMessage
        /\ Pipe!ReadPipe <=> PipeProof!ReadPipe
        /\ Pipe!ReadFile <=> PipeProof!ReadFile
        /\ Pipe!ReaderCloses <=> PipeProof!ReaderCloses
    BY DEF Pipe!WriteMessage, PipeProof!WriteMessage, Pipe!WritePipe,
           PipeProof!WritePipe, Pipe!WithHeader, PipeProof!WithHeader, Pipe!Zeros,
           PipeProof!Zeros, Pipe!readerVars, PipeProof!readerVars, Pipe!ReadPipe,
           PipeProof!ReadPipe, Pipe!ReadFile, PipeProof!ReadFile, Pipe!ReadFinishes,
           PipeProof!ReadFinishes, Pipe!Fill, PipeProof!Fill, Pipe!Resize,
           PipeProof!Resize, Pipe!ReadMoreData, PipeProof!ReadMoreData,
           Pipe!ReadFails, PipeProof!ReadFails, Pipe!ReaderCloses,
           PipeProof!ReaderCloses
  <2> QED
    BY <2>1, <2>2 DEF PipeProof!Moves
<1> QED
  BY <1>1, <1>2, <1>3, <1>4

-----------------------------------------------------------------------------
(* ClientServerLib.  Who owns the mutex; what is counted was constructed,   *)
(* by the server that runs once it has zeroed the array; and the server's   *)
(* count is where its loop is.                                              *)
Zeroed == Array!ServerRuns \ {"start", "zero"}

ArrayTypes ==
    /\ m_currentCount \in 0..MaxElements /\ element \in Nat /\ starts \in Nat
    /\ DOMAIN m_array = Array!Slot
    /\ DOMAIN clientAt = Array!Client
    /\ clientElement \in [Array!Client -> Nat]
    /\ serverAt \in Array!ServerRuns \cup {"ended"}

Owned ==
    /\ serverAt \in Array!ServerOwns => mutex = Array!Server
    /\ \A k \in Array!Client : clientAt[k] \in Array!ClientOwns => mutex = k

Constructed ==
    \A j \in Array!Slot : j < m_currentCount =>
        /\ m_array[j].by # 0 /\ m_array[j].end = m_array[j].by
        /\ serverAt \in Zeroed => m_array[j] = Array!Hello(j)

InLoop ==
    /\ serverAt \in Array!ServerRuns => starts > 0
    /\ serverAt \in {"start", "zero", "launch"} => element = 0
    /\ serverAt \in {"launch", "add", "lock", "construct", "count"} => m_currentCount = element
    /\ serverAt \in {"lock", "construct", "count", "get", "show"} => element < MaxElements
    /\ serverAt = "count" => m_array[element] = Array!Hello(element)
    /\ serverAt = "unlock" => m_currentCount = element + 1
    /\ serverAt \in {"get", "show"} => m_currentCount = MaxElements

Printing ==
    \A k \in Array!Client : clientAt[k] = "print" => clientElement[k] < m_currentCount

ArrayInv == ArrayTypes /\ Owned /\ Constructed /\ InLoop /\ Printing

(* Every step of the server, of a client and of whoever kills one.          *)
LEMMA ArrayStep ==
  ASSUME ArrayInv, [Array!Next]_arrayVars
  PROVE  ArrayInv'
<1> USE ConstantsAssumption DEF Array!ArrayAssumption
<1>1. CASE UNCHANGED arrayVars
  BY <1>1 DEF ArrayInv, ArrayTypes, Owned, Constructed, InLoop, Printing, arrayVars,
              Array!Hello
<1>2. CASE Array!ServerStart
  BY <1>2 DEF ArrayInv, ArrayTypes, Owned, Constructed, InLoop, Printing, Zeroed,
              Array!ServerStart, Array!ServerGoes, Array!ServerRuns, Array!ServerOwns,
              Array!sharedVars, Array!clientVars
<1>3. CASE Array!ServerStep
  <2> USE DEF ArrayInv, Array!ServerGoes, Array!ServerRuns, Array!ServerOwns,
              Array!sharedVars, Array!clientVars
  <2>1. CASE Array!ServerLock
    BY <2>1 DEF Array!ServerLock, ArrayTypes, Owned, Constructed, InLoop, Printing, Zeroed,
                Array!Hello, Array!Nobody, Array!Server, Array!Client
  <2>2. CASE Array!ZeroMemory
    <3>1. \A k \in Array!Client : clientAt[k] \notin Array!ClientOwns
      BY <2>2 DEF Array!ZeroMemory, Owned, Array!Server, Array!Client
    <3>2. Owned' /\ Printing'
      BY <2>2, <3>1 DEF Array!ZeroMemory, Owned, Printing, Array!ClientOwns
    <3> QED
      BY <2>2, <3>2 DEF Array!ZeroMemory, ArrayTypes, Constructed, InLoop, Zeroed,
                        Array!Slot
  <2>3. CASE Array!Launch
    BY <2>3 DEF Array!Launch, ArrayTypes, Owned, Constructed, InLoop, Printing, Zeroed,
                Array!Hello, Array!ClientOwns
  <2>4. CASE Array!AddChecks
    BY <2>4 DEF Array!AddChecks, ArrayTypes, Owned, Constructed, InLoop, Printing, Zeroed,
                Array!Hello
  <2>5. CASE Array!Construct
    BY <2>5 DEF Array!Construct, ArrayTypes, Owned, Constructed, InLoop, Printing, Zeroed,
                Array!Hello, Array!Slot
  <2>6. CASE Array!Count
    BY <2>6 DEF Array!Count, ArrayTypes, Owned, Constructed, InLoop, Printing, Zeroed,
                Array!Hello, Array!Slot
  <2>7. CASE Array!AddUnlocks
    BY <2>7 DEF Array!AddUnlocks, ArrayTypes, Owned, Constructed, InLoop, Printing, Zeroed,
                Array!Hello, Array!Nobody, Array!Server, Array!Client
  <2>8. CASE Array!ReadBackBegins
    BY <2>8 DEF Array!ReadBackBegins, ArrayTypes, Owned, Constructed, InLoop, Printing,
                Zeroed, Array!Hello
  <2>9. CASE Array!ServerGet \/ Array!ServerShow
    BY <2>9 DEF Array!ServerGet, Array!ServerShow, ArrayTypes, Owned, Constructed, InLoop,
                Printing, Zeroed, Array!Hello
  <2> QED
    BY <1>3, <2>1, <2>2, <2>3, <2>4, <2>5, <2>6, <2>7, <2>8, <2>9 DEF Array!ServerStep
<1>4. CASE Array!ServerKilled
  BY <1>4 DEF ArrayInv, ArrayTypes, Owned, Constructed, InLoop, Printing, Zeroed,
              Array!ServerKilled, Array!ServerRuns, Array!ServerOwns, Array!clientVars,
              Array!Server, Array!Nobody, Array!Client
<1>5. ASSUME NEW k \in Array!Client, Array!ClientStep(k) \/ Array!ClientKilled(k)
      PROVE  ArrayInv'
  <2>1. /\ UNCHANGED <<m_currentCount, m_array, serverAt, element, starts>>
        /\ DOMAIN clientAt' = Array!Client
        /\ clientElement' \in [Array!Client -> Nat]
    BY <1>5 DEF ArrayInv, ArrayTypes, Array!ClientStep, Array!ClientGoes, Array!Open,
                Array!Poll, Array!ClientLock, Array!Index, Array!ClientPrint,
                Array!ClientKilled, Array!sharedVars, Array!serverVars
  <2>2. Owned'
    <3> USE <2>1 DEF ArrayInv, ArrayTypes, Owned, Array!ClientGoes, Array!ClientOwns
    <3>1. serverAt \in Array!ServerOwns => mutex # k /\ mutex # Array!Nobody
      BY DEF Array!Server, Array!Client, Array!Nobody
    <3>2. CASE Array!Open(k) \/ Array!Poll(k)
      BY <3>2 DEF Array!Open, Array!Poll, Array!sharedVars
    <3>3. CASE Array!ClientLock(k)
      BY <3>1, <3>3 DEF Array!ClientLock, Array!Nobody, Array!Client
    <3>4. CASE Array!Index(k)
      BY <3>1, <3>4 DEF Array!Index
    <3>5. CASE Array!ClientPrint(k)
      BY <3>1, <3>5 DEF Array!ClientPrint
    <3>6. CASE Array!ClientKilled(k)
      BY <3>1, <3>6 DEF Array!ClientKilled
    <3> QED
      BY <1>5, <3>2, <3>3, <3>4, <3>5, <3>6 DEF Array!ClientStep
  <2>3. Printing'
    BY <1>5, <2>1 DEF ArrayInv, ArrayTypes, Printing, Array!ClientStep, Array!ClientGoes,
                Array!Open, Array!Poll, Array!ClientLock, Array!Index, Array!ClientPrint,
                Array!ClientKilled, Array!sharedVars
  <2> QED
    BY <2>1, <2>2, <2>3 DEF ArrayInv, ArrayTypes, Constructed, InLoop, Array!Hello
<1> QED
  BY <1>1, <1>2, <1>3, <1>4, <1>5 DEF Array!Next

(* What the invariant says of the messages. *)
LEMMA ArrayIntact ==
  ASSUME ArrayInv
  PROVE  Array!AddedInBounds /\ Array!ReadsConstructed /\ Array!ReadBack
<1> USE ConstantsAssumption DEF Array!ArrayAssumption, ArrayInv, ArrayTypes
<1>1. Array!AddedInBounds
  <2>1. SUFFICES ASSUME serverAt = "construct"
                 PROVE  m_currentCount \in Array!Slot
                        /\ Array!SlotEnd(m_currentCount) <= Array!PageSize
    BY DEF Array!AddedInBounds
  <2>2. m_currentCount \in Nat /\ m_currentCount < MaxElements
    BY <2>1 DEF InLoop
  <2>3. Array!SlotEnd(m_currentCount) <= Array!PageSize
    BY <2>2 DEF Array!SlotEnd, Array!CountSize, Array!MessageSize, Array!PageSize
  <2> QED
    BY <2>2, <2>3 DEF Array!Slot
<1>2. Array!ReadsConstructed
  BY DEF Array!ReadsConstructed, Printing, Constructed, Array!Slot
<1>3. Array!ReadBack
  BY DEF Array!ReadBack, InLoop, Constructed, Array!Slot, Zeroed, Array!ServerRuns
<1> QED
  BY <1>1, <1>2, <1>3

-----------------------------------------------------------------------------
(* PipeLib: ReadPipe stays inside its buffer and returns the messages that  *)
(* were written, whole, in order and with their headers, for every size of  *)
(* buffer, quota and message.  ClientServerLib: the shared array is written *)
(* inside its page, and read only where a whole message is, whatever is     *)
(* killed and started again.                                                *)
THEOREM MessagesCorrect == Spec => []MessagesIntact
<1> DEFINE I == /\ program = "pipe" => PipeProof!Inv
                /\ program = "array" => ArrayInv
<1>0. PipeProof!SizesAssumption
  BY ConstantsAssumption, SamePipe
<1>1. ASSUME Init PROVE I
  <2>1. PipeProof!Inv
    BY <1>0, <1>1, SamePipe, PipeProof!InitInv DEF Init
  <2>2. ArrayInv
    BY <1>1, ConstantsAssumption
       DEF Init, Array!Init, Array!ArrayAssumption, ArrayInv, ArrayTypes, Owned,
           Constructed, InLoop, Printing, Array!ServerRuns, Array!ServerOwns,
           Array!ClientOwns, Array!Slot
  <2> QED
    BY <2>1, <2>2
<1>2. ASSUME I, [Next]_vars, program' = "pipe" PROVE PipeProof!Inv'
  <2>1. PipeProof!Inv /\ [Pipe!Next]_pipeVars
    BY <1>2, ProgramStep
  <2>2. [PipeProof!Moves]_(PipeProof!vars)
    BY <2>1, SamePipe DEF pipeVars, PipeProof!vars
  <2> QED
    BY <1>0, <2>1, <2>2, PipeProof!StepInv
<1>3. I => MessagesIntact
  BY <1>0, SamePipe, PipeProof!InBounds, PipeProof!Whole, PipeProof!HeaderKept, ArrayIntact
     DEF MessagesIntact
<1>4. I /\ [Next]_vars => I'
  BY <1>2, ProgramStep, ArrayStep
<1> QED
  BY <1>1, <1>3, <1>4, PTL DEF Spec

-----------------------------------------------------------------------------
(* XSocket.  What TransportProofs proves of one list.                       *)

(* The list of those proofs is the list of this module.                     *)
LEMMA SameList ==
  /\ List!SizesAssumption <=> Transport!SizesAssumption
  /\ List!Init <=> Transport!Init
  /\ List!Next <=> Transport!Next
  /\ List!StreamIntact <=> Transport!StreamIntact
  /\ List!RingInBothDirections <=> Transport!RingInBothDirections
  /\ List!NothingLeaks <=> Transport!NothingLeaks
<1>1. List!SizesAssumption <=> Transport!SizesAssumption
  BY DEF List!SizesAssumption, Transport!SizesAssumption, List!ULong, Transport!ULong,
         List!Thread, Transport!Thread
<1>2. List!Init <=> Transport!Init
  BY DEF List!Init, Transport!Init, List!Thread, Transport!Thread, List!Node,
         Transport!Node, List!head, Transport!head, List!NoNode, Transport!NoNode
<1>3. (\E t \in Writer : List!WriteData(t)) <=> (\E t \in Writer : Transport!WriteData(t))
  BY DEF List!WriteData, Transport!WriteData, List!Allocate, Transport!Allocate,
         List!EnterCriticalSection, Transport!EnterCriticalSection,
         List!AppendTailReads, Transport!AppendTailReads, List!AppendTailLinks,
         Transport!AppendTailLinks, List!LeaveCriticalSection,
         Transport!LeaveCriticalSection, List!Goto, Transport!Goto, List!Forget,
         Transport!Forget, List!fields, Transport!fields, List!locals,
         Transport!locals, List!counts, Transport!counts, List!head,
         Transport!head, List!NoNode, Transport!NoNode
<1>4. (\E t \in Reader : List!ReadData(t)) <=> (\E t \in Reader : Transport!ReadData(t))
  BY DEF List!ReadData, Transport!ReadData, List!BeginRead, Transport!BeginRead,
         List!EnterCriticalSection, Transport!EnterCriticalSection,
         List!ReadLoop, Transport!ReadLoop, List!RemoveHeadReads,
         Transport!RemoveHeadReads, List!RemoveHeadUnlinks,
         Transport!RemoveHeadUnlinks, List!LeaveCriticalSection,
         Transport!LeaveCriticalSection, List!Return, Transport!Return, List!Thread,
         Transport!Thread, List!Goto, Transport!Goto, List!Forget,
         Transport!Forget, List!fields, Transport!fields, List!locals,
         Transport!locals, List!counts, Transport!counts, List!head,
         Transport!head, List!NoNode, Transport!NoNode, List!IsEmpty,
         Transport!IsEmpty, List!CopyTo, Transport!CopyTo, List!DataLeft,
         Transport!DataLeft, List!Stray, Transport!Stray, List!ULong, Transport!ULong
<1>5. List!Ring = Transport!Ring
  BY DEF List!Ring, Transport!Ring, List!head, Transport!head, List!Last, Transport!Last,
         List!Contains, Transport!Contains
<1>6. List!StreamIntact <=> Transport!StreamIntact
  BY <1>5 DEF List!StreamIntact, Transport!StreamIntact, List!CopiesTransportData,
              Transport!CopiesTransportData, List!Stray, Transport!Stray,
              List!Left, Transport!Left,
              List!FlattenSeq, Transport!FlattenSeq
<1>7. List!RingInBothDirections <=> Transport!RingInBothDirections
  BY <1>5 DEF List!RingInBothDirections, Transport!RingInBothDirections, List!ToSet,
              Transport!ToSet, List!head, Transport!head
<1>8. List!NothingLeaks <=> Transport!NothingLeaks
  BY <1>5 DEF List!NothingLeaks, Transport!NothingLeaks, List!ToSet, Transport!ToSet,
              List!head, Transport!head, List!NoNode, Transport!NoNode
<1> QED
  BY <1>1, <1>2, <1>3, <1>4, <1>6, <1>7, <1>8 DEF List!Next, Transport!Next

(* XSocket: whatever the lengths of the reads and however the calls fall,   *)
(* the entries stay a ring in both directions and none is lost.             *)
THEOREM RingCorrect ==
  Spec => [](program = "list" => List!RingInBothDirections /\ List!NothingLeaks)
<1> DEFINE I == program = "list" => Transport!ListInv
<1>0. Transport!SizesAssumption
  BY ConstantsAssumption, SameList
<1>1. Init => I
  BY <1>0, SameList, Transport!ListInit DEF Init, Transport!ListInv
<1>2. ASSUME I, [Next]_vars, program' = "list" PROVE Transport!ListInv'
  <2>1. Transport!ListInv /\ [List!Next]_listVars
    BY <1>2, ProgramStep
  <2>2. [Transport!Next]_(Transport!vars)
    BY <2>1, SameList DEF listVars, Transport!vars, Transport!fields, Transport!locals,
                          Transport!counts
  <2> QED
    BY <1>0, <2>1, <2>2, Transport!ListStep
<1>3. I /\ [Next]_vars => I'
  BY <1>2
<1>4. I => (program = "list" => List!RingInBothDirections /\ List!NothingLeaks)
  BY <1>0, SameList, Transport!RingWhole
<1> QED
  BY <1>1, <1>3, <1>4, PTL DEF Spec

(* XSocket: until a copy goes beyond its entry's end, what ReadData hands   *)
(* out, whatever lengths it is asked for, comes in the order WriteData took *)
(* it in, and none of it is lost; the ring is whole even after one has.     *)
THEOREM ListCorrect == Spec => []ListIntact
<1> DEFINE I == program = "list" => Transport!BytesInv
<1>0. Transport!SizesAssumption
  BY ConstantsAssumption, SameList
<1>1. Init => I
  BY <1>0, SameList, Transport!BytesInit DEF Init
<1>2. ASSUME I, [Next]_vars, program' = "list" PROVE Transport!BytesInv'
  <2>1. Transport!BytesInv /\ [List!Next]_listVars
    BY <1>2, ProgramStep
  <2>2. [Transport!Next]_(Transport!vars)
    BY <2>1, SameList DEF listVars, Transport!vars, Transport!fields, Transport!locals,
                          Transport!counts
  <2> QED
    BY <1>0, <2>1, <2>2, Transport!BytesStep
<1>3. I /\ [Next]_vars => I'
  BY <1>2
<1>4. I => ListIntact
  BY <1>0, SameList, Transport!StreamWhole, Transport!RingWhole DEF ListIntact
<1> QED
  BY <1>1, <1>3, <1>4, PTL DEF Spec

-----------------------------------------------------------------------------
(* Parent and Child.  What ByteStreamProofs proves of the two processes.    *)
LEMMA SameChild ==
  /\ Child!SizesAssumption <=> PipeProof!Child!SizesAssumption
  /\ Child!Init <=> PipeProof!Child!Init
  /\ Child!Next <=> PipeProof!Child!Next
  /\ Child!TypeOK <=> PipeProof!Child!TypeOK
  /\ Child!FileComesBack <=> PipeProof!Child!FileComesBack
<1>1. Child!SizesAssumption <=> PipeProof!Child!SizesAssumption
  BY DEF Child!SizesAssumption, PipeProof!Child!SizesAssumption
<1>2. Child!Init <=> PipeProof!Child!Init
  BY DEF Child!Init, PipeProof!Child!Init, Child!Ends, PipeProof!Child!Ends
<1>3. Child!TypeOK <=> PipeProof!Child!TypeOK
  BY DEF Child!TypeOK, PipeProof!Child!TypeOK, Child!Setup, PipeProof!Child!Setup,
         Child!Text, PipeProof!Child!Text, Child!Ends, PipeProof!Child!Ends,
         Child!Procs, PipeProof!Child!Procs
<1>4. Child!FileComesBack <=> PipeProof!Child!FileComesBack
  BY DEF Child!FileComesBack, PipeProof!Child!FileComesBack, Child!FromFile,
         PipeProof!Child!FromFile, Child!Text, PipeProof!Child!Text, Child!IsPrefix,
         PipeProof!Child!IsPrefix, Child!FlattenSeq, PipeProof!Child!FlattenSeq
<1>5. Child!Prepare <=> PipeProof!Child!Prepare
  <2>1. /\ Child!CheckArgs <=> PipeProof!Child!CheckArgs
        /\ Child!OpenInput <=> PipeProof!Child!OpenInput
    BY DEF Child!CheckArgs, PipeProof!Child!CheckArgs, Child!OpenInput,
           PipeProof!Child!OpenInput, Child!childVars, PipeProof!Child!childVars
  <2>2. /\ Child!MakeOut <=> PipeProof!Child!MakeOut
        /\ Child!MakeIn <=> PipeProof!Child!MakeIn
    BY DEF Child!MakeOut, PipeProof!Child!MakeOut, Child!MakeIn, PipeProof!Child!MakeIn,
           Child!CreatePipe, PipeProof!Child!CreatePipe, Child!Ends,
           PipeProof!Child!Ends, Child!childVars, PipeProof!Child!childVars
  <2>3. /\ Child!HideOut <=> PipeProof!Child!HideOut
        /\ Child!HideIn <=> PipeProof!Child!HideIn
    BY DEF Child!HideOut, PipeProof!Child!HideOut, Child!HideIn, PipeProof!Child!HideIn,
           Child!ClearInherit, PipeProof!Child!ClearInherit, Child!childVars,
           PipeProof!Child!childVars
  <2>4. Child!CreateChildProcess <=> PipeProof!Child!CreateChildProcess
    BY DEF Child!CreateChildProcess, PipeProof!Child!CreateChildProcess, Child!Ends,
           PipeProof!Child!Ends, Child!Text, PipeProof!Child!Text
  <2> QED
    BY <2>1, <2>2, <2>3, <2>4 DEF Child!Prepare, PipeProof!Child!Prepare
<1>6. /\ Child!Fail <=> PipeProof!Child!Fail
      /\ Child!ErrorExit <=> PipeProof!Child!ErrorExit
      /\ Child!ReadInputBlock <=> PipeProof!Child!ReadInputBlock
      /\ Child!EndOfInput <=> PipeProof!Child!EndOfInput
      /\ Child!WriteToPipe <=> PipeProof!Child!WriteToPipe
      /\ Child!WriteToPipeFails <=> PipeProof!Child!WriteToPipeFails
      /\ Child!ReadFromPipe <=> PipeProof!Child!ReadFromPipe
      /\ Child!EndOfOutput <=> PipeProof!Child!EndOfOutput
      /\ Child!PrintFails <=> PipeProof!Child!PrintFails
  BY DEF Child!Fail, PipeProof!Child!Fail, Child!ErrorExit, PipeProof!Child!ErrorExit,
         Child!Released, PipeProof!Child!Released, Child!ReadInputBlock,
         PipeProof!Child!ReadInputBlock, Child!EndOfInput, PipeProof!Child!EndOfInput,
         Child!CloseStdin, PipeProof!Child!CloseStdin, Child!WriteToPipe,
         PipeProof!Child!WriteToPipe, Child!WriteToPipeFails,
         PipeProof!Child!WriteToPipeFails, Child!ReadFromPipe,
         PipeProof!Child!ReadFromPipe, Child!EndOfOutput, PipeProof!Child!EndOfOutput,
         Child!PrintFails, PipeProof!Child!PrintFails, Child!FirstUnits,
         PipeProof!Child!FirstUnits, Child!OtherUnits, PipeProof!Child!OtherUnits,
         Child!Setup, PipeProof!Child!Setup, Child!Ends, PipeProof!Child!Ends,
         Child!childVars, PipeProof!Child!childVars
<1>7. /\ Child!ChildReads <=> PipeProof!Child!ChildReads
      /\ Child!ChildWrites <=> PipeProof!Child!ChildWrites
      /\ Child!ChildWriteFails <=> PipeProof!Child!ChildWriteFails
      /\ Child!ChildHello <=> PipeProof!Child!ChildHello
      /\ Child!ChildEndOfInput <=> PipeProof!Child!ChildEndOfInput
      /\ Child!ChildExit <=> PipeProof!Child!ChildExit
      /\ Child!ChildKilled <=> PipeProof!Child!ChildKilled
  BY DEF Child!ChildReads, PipeProof!Child!ChildReads, Child!ChildWrites,
         PipeProof!Child!ChildWrites, Child!ChildWriteFails,
         PipeProof!Child!ChildWriteFails, Child!ChildHello, PipeProof!Child!ChildHello,
         Child!ChildEndOfInput, PipeProof!Child!ChildEndOfInput, Child!ChildExit,
         PipeProof!Child!ChildExit, Child!Flush, PipeProof!Child!Flush,
         Child!ChildKilled, PipeProof!Child!ChildKilled, Child!Released,
         PipeProof!Child!Released, Child!FirstUnits, PipeProof!Child!FirstUnits,
         Child!OtherUnits, PipeProof!Child!OtherUnits, Child!Ends, PipeProof!Child!Ends,
         Child!parentVars, PipeProof!Child!parentVars, Child!Text, PipeProof!Child!Text
<1> QED
  BY <1>1, <1>2, <1>3, <1>4, <1>5, <1>6, <1>7
     DEF Child!Next, PipeProof!Child!Next, Child!ChildStep, PipeProof!Child!ChildStep

(* FlattenSeq, and the numbers: TransportProofs has what the proofs of      *)
(* the two processes rest on.                                               *)
LEMMA Laws == PipeProof!SequenceLaws
<1>1. \A s : PipeProof!Child!FlattenSeq(s) = Transport!FlattenSeq(s)
  BY DEF PipeProof!Child!FlattenSeq, Transport!FlattenSeq
<1>2. PipeProof!FlattenLaw
  BY Zenon, <1>1, Transport!FlattenAppend DEF PipeProof!FlattenLaw
<1>3. PipeProof!NatLaw
  BY Transport!SetInduction DEF PipeProof!NatLaw
<1> QED
  BY <1>2, <1>3 DEF PipeProof!SequenceLaws

(* Parent and Child: whatever is killed or fails and however the blocks are *)
(* cut, the parent prints a beginning of the file and nothing else of it,   *)
(* all of it when nothing went wrong, for every size of file, block and     *)
(* pipe.                                                                    *)
THEOREM FileCorrect == Spec => [](program = "child" => Child!TypeOK /\ Child!FileComesBack)
<1> DEFINE I == program = "child" => PipeProof!ChildInv
<1>0. PipeProof!Child!SizesAssumption /\ PipeProof!SequenceLaws
  BY ConstantsAssumption, SameChild, Laws
<1>1. Init => I
  BY <1>0, SameChild, PipeProof!ChildInit DEF Init
<1>2. ASSUME I, [Next]_vars, program' = "child" PROVE PipeProof!ChildInv'
  <2>1. PipeProof!ChildInv /\ [Child!Next]_childVars
    BY <1>2, ProgramStep
  <2>2. [PipeProof!Child!Next]_(PipeProof!childVars)
    BY <2>1, SameChild DEF childVars, PipeProof!childVars
  <2> QED
    BY <1>0, <2>1, <2>2, PipeProof!ChildStep
<1>3. I /\ [Next]_vars => I'
  BY <1>2
<1>4. I => (program = "child" => Child!TypeOK /\ Child!FileComesBack)
  BY SameChild, PipeProof!ChildCorrect
<1> QED
  BY <1>1, <1>3, <1>4, PTL DEF Spec

-----------------------------------------------------------------------------
(* WinsockCoroutine.  What ByteStreamProofs proves of the two coroutines.   *)
LEMMA SameEcho ==
  /\ Echo!MessagesAssumption <=> PipeProof!Echo!MessagesAssumption
  /\ Echo!Init <=> PipeProof!Echo!Init
  /\ Echo!Next <=> PipeProof!Echo!Next
  /\ Echo!EchoIsPrefix <=> PipeProof!Echo!EchoIsPrefix
<1>1. Echo!MessagesAssumption <=> PipeProof!Echo!MessagesAssumption
  BY DEF Echo!MessagesAssumption, PipeProof!Echo!MessagesAssumption
<1>2. Echo!Init <=> PipeProof!Echo!Init
  BY DEF Echo!Init, PipeProof!Echo!Init, Echo!Side, PipeProof!Echo!Side
<1>3. Echo!EchoIsPrefix <=> PipeProof!Echo!EchoIsPrefix
  BY DEF Echo!EchoIsPrefix, PipeProof!Echo!EchoIsPrefix, Echo!IsPrefix,
         PipeProof!Echo!IsPrefix, Echo!FlattenSeq, PipeProof!Echo!FlattenSeq
<1>4. /\ Echo!ServerStart <=> PipeProof!Echo!ServerStart
      /\ Echo!ServerAccepted <=> PipeProof!Echo!ServerAccepted
      /\ Echo!ServerReceived <=> PipeProof!Echo!ServerReceived
      /\ Echo!ServerDisconnected <=> PipeProof!Echo!ServerDisconnected
      /\ Echo!ServerSent <=> PipeProof!Echo!ServerSent
  BY DEF Echo!ServerStart, PipeProof!Echo!ServerStart, Echo!ServerAccepted,
       PipeProof!Echo!ServerAccepted, Echo!ServerReceived,
       PipeProof!Echo!ServerReceived, Echo!ServerDisconnected,
       PipeProof!Echo!ServerDisconnected, Echo!ServerSent, PipeProof!Echo!ServerSent,
       Echo!CloseSocket, PipeProof!Echo!CloseSocket, Echo!Await, PipeProof!Echo!Await,
       Echo!AwaitThrows, PipeProof!Echo!AwaitThrows, Echo!TaskEnds,
       PipeProof!Echo!TaskEnds, Echo!Resumed, PipeProof!Echo!Resumed, Echo!InLoop,
       PipeProof!Echo!InLoop, Echo!Side, PipeProof!Echo!Side, Echo!Peer,
       PipeProof!Echo!Peer, Echo!Awaiting, PipeProof!Echo!Awaiting, Echo!Pending,
       PipeProof!Echo!Pending, Echo!Done, PipeProof!Echo!Done, Echo!netVars,
       PipeProof!Echo!netVars, Echo!procVars, PipeProof!Echo!procVars, Echo!vars,
       PipeProof!Echo!vars
<1>5. /\ Echo!ClientStart <=> PipeProof!Echo!ClientStart
      /\ Echo!ClientConnected <=> PipeProof!Echo!ClientConnected
      /\ Echo!ClientSent <=> PipeProof!Echo!ClientSent
      /\ Echo!ClientReceived <=> PipeProof!Echo!ClientReceived
  BY DEF Echo!ClientStart, PipeProof!Echo!ClientStart, Echo!ClientConnected,
       PipeProof!Echo!ClientConnected, Echo!ClientSent, PipeProof!Echo!ClientSent,
       Echo!ClientReceived, PipeProof!Echo!ClientReceived, Echo!SendMessage,
       PipeProof!Echo!SendMessage, Echo!CloseSocket, PipeProof!Echo!CloseSocket,
       Echo!Await, PipeProof!Echo!Await, Echo!AwaitThrows, PipeProof!Echo!AwaitThrows,
       Echo!TaskEnds, PipeProof!Echo!TaskEnds, Echo!Resumed, PipeProof!Echo!Resumed,
       Echo!InLoop, PipeProof!Echo!InLoop, Echo!Side, PipeProof!Echo!Side, Echo!Peer,
       PipeProof!Echo!Peer, Echo!Awaiting, PipeProof!Echo!Awaiting, Echo!Pending,
       PipeProof!Echo!Pending, Echo!Done, PipeProof!Echo!Done, Echo!netVars,
       PipeProof!Echo!netVars, Echo!procVars, PipeProof!Echo!procVars, Echo!vars,
       PipeProof!Echo!vars
<1>6. ASSUME NEW s PROVE Echo!KernelStep(s) <=> PipeProof!Echo!KernelStep(s)
  BY DEF Echo!KernelStep, PipeProof!Echo!KernelStep, Echo!CompleteConnect,
       PipeProof!Echo!CompleteConnect, Echo!CompleteAccept,
       PipeProof!Echo!CompleteAccept, Echo!CompleteRecv, PipeProof!Echo!CompleteRecv,
       Echo!CompleteSend, PipeProof!Echo!CompleteSend, Echo!Complete,
       PipeProof!Echo!Complete, Echo!Listening, PipeProof!Echo!Listening, Echo!Side,
       PipeProof!Echo!Side, Echo!Peer, PipeProof!Echo!Peer, Echo!Awaiting,
       PipeProof!Echo!Awaiting, Echo!Pending, PipeProof!Echo!Pending, Echo!Done,
       PipeProof!Echo!Done, Echo!netVars, PipeProof!Echo!netVars, Echo!procVars,
       PipeProof!Echo!procVars, Echo!vars, PipeProof!Echo!vars
<1>7. ASSUME NEW s PROVE Echo!RunReturns(s) <=> PipeProof!Echo!RunReturns(s)
  BY DEF Echo!RunReturns, PipeProof!Echo!RunReturns, Echo!CloseSocket,
         PipeProof!Echo!CloseSocket, Echo!Side, PipeProof!Echo!Side, Echo!Peer,
         PipeProof!Echo!Peer, Echo!Awaiting, PipeProof!Echo!Awaiting, Echo!Pending,
         PipeProof!Echo!Pending, Echo!Done, PipeProof!Echo!Done, Echo!netVars,
         PipeProof!Echo!netVars, Echo!procVars, PipeProof!Echo!procVars, Echo!vars,
         PipeProof!Echo!vars
<1>8. /\ Echo!Reset <=> PipeProof!Echo!Reset
      /\ Echo!Quiescent <=> PipeProof!Echo!Quiescent
  BY DEF Echo!Reset, PipeProof!Echo!Reset, Echo!Quiescent, PipeProof!Echo!Quiescent,
       Echo!Side, PipeProof!Echo!Side, Echo!Peer, PipeProof!Echo!Peer, Echo!Awaiting,
       PipeProof!Echo!Awaiting, Echo!Pending, PipeProof!Echo!Pending, Echo!Done,
       PipeProof!Echo!Done, Echo!netVars, PipeProof!Echo!netVars, Echo!procVars,
       PipeProof!Echo!procVars, Echo!vars, PipeProof!Echo!vars
<1> QED
  BY <1>1, <1>2, <1>3, <1>4, <1>5, <1>6, <1>7, <1>8
     DEF Echo!Next, PipeProof!Echo!Next, Echo!ServerStep, PipeProof!Echo!ServerStep,
            Echo!ClientStep, PipeProof!Echo!ClientStep, Echo!Side, PipeProof!Echo!Side

(* WinsockCoroutine: whatever breaks and however the bytes are cut on the   *)
(* way, what the client has received is the beginning of what it has sent,  *)
(* for every sequence of messages and every size of buffer.                 *)
THEOREM EchoCorrect == Spec => [](program = "echo" => Echo!EchoIsPrefix)
<1> DEFINE I == program = "echo" => PipeProof!EchoTypes /\ PipeProof!EchoOrder
<1>0. PipeProof!Echo!MessagesAssumption /\ PipeProof!SequenceLaws
  BY ConstantsAssumption, SameEcho, Laws
<1>1. Init => I
  BY <1>0, SameEcho, PipeProof!EchoInit DEF Init
<1>2. ASSUME I, [Next]_vars, program' = "echo" PROVE PipeProof!EchoTypes' /\ PipeProof!EchoOrder'
  <2>1. PipeProof!EchoTypes /\ PipeProof!EchoOrder /\ [Echo!Next]_echoVars
    BY <1>2, ProgramStep
  <2>2. [PipeProof!Echo!Next]_(PipeProof!echoVars)
    BY <2>1, SameEcho DEF echoVars, PipeProof!echoVars
  <2> QED
    BY <1>0, <2>1, <2>2, PipeProof!EchoTypesStep, PipeProof!EchoOrderStep
<1>3. I /\ [Next]_vars => I'
  BY <1>2
<1>4. I => (program = "echo" => Echo!EchoIsPrefix)
  BY <1>0, SameEcho, PipeProof!EchoReturns
<1> QED
  BY <1>1, <1>3, <1>4, PTL DEF Spec

-----------------------------------------------------------------------------
(* SecureSocket.  What ByteStreamProofs proves of the client.               *)
LEMMA SameTls ==
  /\ Tls!TlsAssumption <=> PipeProof!Tls!TlsAssumption
  /\ Tls!Init <=> PipeProof!Tls!Init
  /\ Tls!Next <=> PipeProof!Tls!Next
  /\ Tls!ResponseArrives <=> PipeProof!Tls!ResponseArrives
<1>1. Tls!TlsAssumption <=> PipeProof!Tls!TlsAssumption
  BY DEF Tls!TlsAssumption, PipeProof!Tls!TlsAssumption
<1>2. Tls!Init <=> PipeProof!Tls!Init
  BY DEF Tls!Init, PipeProof!Tls!Init
<1>3. Tls!ResponseArrives <=> PipeProof!Tls!ResponseArrives
  BY DEF Tls!ResponseArrives, PipeProof!Tls!ResponseArrives, Tls!IsPrefix,
         PipeProof!Tls!IsPrefix, Tls!Contains, PipeProof!Tls!Contains, Tls!AsText,
         PipeProof!Tls!AsText, Tls!CR, PipeProof!Tls!CR, Tls!LF, PipeProof!Tls!LF, Tls!Says, PipeProof!Tls!Says, Tls!FlattenSeq,
         PipeProof!Tls!FlattenSeq
<1>4. Tls!tls_connect <=> PipeProof!Tls!tls_connect
  BY DEF Tls!tls_connect, PipeProof!Tls!tls_connect, Tls!Handshake,
         PipeProof!Tls!Handshake, Tls!Greeting, PipeProof!Tls!Greeting, Tls!Max,
         PipeProof!Tls!Max, Tls!Fail, PipeProof!Tls!Fail, Tls!files, PipeProof!Tls!files
<1>5. Tls!HandshakeReceives <=> PipeProof!Tls!HandshakeReceives
  BY DEF Tls!HandshakeReceives, PipeProof!Tls!HandshakeReceives, Tls!Arrivals,
         PipeProof!Tls!Arrivals, Tls!Min, PipeProof!Tls!Min, Tls!Max, PipeProof!Tls!Max,
         Tls!Whole, PipeProof!Tls!Whole, Tls!Garbled, PipeProof!Tls!Garbled, Tls!Rest,
         PipeProof!Tls!Rest, Tls!Unused, PipeProof!Tls!Unused, Tls!Cardinality,
         PipeProof!Tls!Cardinality, Tls!Fail, PipeProof!Tls!Fail, Tls!files,
         PipeProof!Tls!files
<1>6. Tls!HandshakeCut <=> PipeProof!Tls!HandshakeCut
  BY DEF Tls!HandshakeCut, PipeProof!Tls!HandshakeCut, Tls!StreamEnd,
         PipeProof!Tls!StreamEnd, Tls!files, PipeProof!Tls!files
<1>7. Tls!ConnectionLost <=> PipeProof!Tls!ConnectionLost
  BY DEF Tls!ConnectionLost, PipeProof!Tls!ConnectionLost, Tls!FirstRecord,
         PipeProof!Tls!FirstRecord, Tls!Garbled, PipeProof!Tls!Garbled, Tls!Min,
         PipeProof!Tls!Min, Tls!Fail, PipeProof!Tls!Fail, Tls!Leave,
         PipeProof!Tls!Leave, Tls!files, PipeProof!Tls!files
<1>8. Tls!tls_write <=> PipeProof!Tls!tls_write
  BY DEF Tls!tls_write, PipeProof!Tls!tls_write, Tls!Asked, PipeProof!Tls!Asked,
         Tls!Greeting, PipeProof!Tls!Greeting, Tls!Rest, PipeProof!Tls!Rest, Tls!Max,
         PipeProof!Tls!Max, Tls!Leave, PipeProof!Tls!Leave, Tls!Abort,
         PipeProof!Tls!Abort, Tls!files, PipeProof!Tls!files
<1>9. Tls!HandOut <=> PipeProof!Tls!HandOut
  BY DEF Tls!HandOut, PipeProof!Tls!HandOut, Tls!FirstRecord, PipeProof!Tls!FirstRecord,
         Tls!Garbled, PipeProof!Tls!Garbled, Tls!Min, PipeProof!Tls!Min, Tls!Rest,
         PipeProof!Tls!Rest, Tls!files, PipeProof!Tls!files
<1>10. Tls!Decrypt <=> PipeProof!Tls!Decrypt
  BY DEF Tls!Decrypt, PipeProof!Tls!Decrypt, Tls!FirstRecord, PipeProof!Tls!FirstRecord,
         Tls!Garbled, PipeProof!Tls!Garbled, Tls!Min, PipeProof!Tls!Min, Tls!Rest,
         PipeProof!Tls!Rest, Tls!Plain, PipeProof!Tls!Plain, Tls!WriteOut,
         PipeProof!Tls!WriteOut, Tls!Leave, PipeProof!Tls!Leave, Tls!Abort,
         PipeProof!Tls!Abort, Tls!files, PipeProof!Tls!files, Tls!UpToNul,
         PipeProof!Tls!UpToNul, Tls!AsText, PipeProof!Tls!AsText, Tls!FlattenSeq,
         PipeProof!Tls!FlattenSeq, Tls!CR, PipeProof!Tls!CR, Tls!LF, PipeProof!Tls!LF
<1>11. Tls!ReadReturns <=> PipeProof!Tls!ReadReturns
  BY DEF Tls!ReadReturns, PipeProof!Tls!ReadReturns, Tls!FirstRecord,
         PipeProof!Tls!FirstRecord, Tls!Garbled, PipeProof!Tls!Garbled, Tls!Min,
         PipeProof!Tls!Min, Tls!WriteOut, PipeProof!Tls!WriteOut, Tls!files,
         PipeProof!Tls!files, Tls!UpToNul, PipeProof!Tls!UpToNul, Tls!AsText,
         PipeProof!Tls!AsText, Tls!FlattenSeq, PipeProof!Tls!FlattenSeq, Tls!CR,
         PipeProof!Tls!CR, Tls!LF, PipeProof!Tls!LF
<1>12. Tls!ReadReceives <=> PipeProof!Tls!ReadReceives
  BY DEF Tls!ReadReceives, PipeProof!Tls!ReadReceives, Tls!FirstRecord,
         PipeProof!Tls!FirstRecord, Tls!Garbled, PipeProof!Tls!Garbled, Tls!Arrivals,
         PipeProof!Tls!Arrivals, Tls!Min, PipeProof!Tls!Min, Tls!Rest,
         PipeProof!Tls!Rest, Tls!files, PipeProof!Tls!files
<1>13. Tls!ReadEnds <=> PipeProof!Tls!ReadEnds
  BY DEF Tls!ReadEnds, PipeProof!Tls!ReadEnds, Tls!FirstRecord,
         PipeProof!Tls!FirstRecord, Tls!Garbled, PipeProof!Tls!Garbled, Tls!Min,
         PipeProof!Tls!Min, Tls!StreamEnd, PipeProof!Tls!StreamEnd, Tls!Leave,
         PipeProof!Tls!Leave, Tls!files, PipeProof!Tls!files
<1>14. Tls!ServerSends <=> PipeProof!Tls!ServerSends
  BY DEF Tls!ServerSends, PipeProof!Tls!ServerSends, Tls!Units, PipeProof!Tls!Units,
         Tls!client, PipeProof!Tls!client, Tls!files, PipeProof!Tls!files
<1>15. Tls!ServerCloses <=> PipeProof!Tls!ServerCloses
  BY DEF Tls!ServerCloses, PipeProof!Tls!ServerCloses, Tls!client, PipeProof!Tls!client,
         Tls!files, PipeProof!Tls!files
<1>16. Tls!Reset <=> PipeProof!Tls!Reset
  BY DEF Tls!Reset, PipeProof!Tls!Reset, Tls!client, PipeProof!Tls!client,
         Tls!files, PipeProof!Tls!files
<1>17. Tls!tls_disconnect <=> PipeProof!Tls!tls_disconnect
  BY DEF Tls!tls_disconnect, PipeProof!Tls!tls_disconnect, Tls!files,
         PipeProof!Tls!files
<1> QED
  BY <1>1, <1>2, <1>3, <1>4, <1>5, <1>6, <1>7, <1>8, <1>9, <1>10, <1>11, <1>12, <1>13,
       <1>14, <1>15, <1>16, <1>17
     DEF Tls!Next, PipeProof!Tls!Next, Tls!ClientStep, PipeProof!Tls!ClientStep

(* SecureSocket: what tls_read has handed out is what the server answered,  *)
(* from its first byte on, however its records were cut and joined on the   *)
(* way; all of it when the session was closed after the server had sent it; *)
(* the zero behind it has its place; and without a zero in it the file has  *)
(* it as text.                                                              *)
THEOREM ResponseCorrect == Spec => [](program = "tls" => Tls!ResponseArrives)
<1> DEFINE I == program = "tls" => PipeProof!TlsInv /\ PipeProof!TextRight
<1>0. PipeProof!Tls!TlsAssumption /\ PipeProof!SequenceLaws
  BY ConstantsAssumption, SameTls, Laws
<1>1. Init => I
  BY <1>0, SameTls, PipeProof!TlsInit, PipeProof!TextInit DEF Init
<1>2. ASSUME I, [Next]_vars, program' = "tls"
      PROVE  PipeProof!TlsInv' /\ PipeProof!TextRight'
  <2>1. PipeProof!TlsInv /\ PipeProof!TextRight /\ [Tls!Next]_tlsVars
    BY <1>2, ProgramStep
  <2>2. [PipeProof!Tls!Next]_(PipeProof!tlsVars)
    BY <2>1, SameTls DEF tlsVars, PipeProof!tlsVars
  <2> QED
    BY <1>0, <2>1, <2>2, PipeProof!TlsStep, PipeProof!TextStep
<1>3. I /\ [Next]_vars => I'
  BY <1>2
<1>4. I => (program = "tls" => Tls!ResponseArrives)
  BY <1>0, SameTls, PipeProof!ResponseComes
<1> QED
  BY <1>1, <1>3, <1>4, PTL DEF Spec

(* What comes back is the beginning of what was sent, in the three programs *)
(* that send something to get it back.                                      *)
THEOREM SentCorrect == Spec => []SentComesBack
<1>1. /\ program = "echo" => Echo!EchoIsPrefix
      /\ program = "tls" => Tls!ResponseArrives
      /\ program = "child" => Child!TypeOK /\ Child!FileComesBack
      => SentComesBack
  BY DEF SentComesBack
<1> QED
  BY <1>1, EchoCorrect, ResponseCorrect, FileCorrect, PTL

-----------------------------------------------------------------------------
(* Types.  What the invariants above do not say of them already.            *)

(* WinsockCoroutine: an operation at most, and what a socket is.            *)
EchoRest ==
    /\ outstanding \in [Echo!Side -> 0 .. 1]
    /\ connected \in BOOLEAN /\ closed \subseteq Echo!Side

LEMMA EchoRestStep ==
  ASSUME EchoRest, [Echo!Next]_echoVars
  PROVE  EchoRest'
<1>s. "server" \in Echo!Side /\ "client" \in Echo!Side
  BY DEF Echo!Side
<1>1. ASSUME NEW s \in Echo!Side, NEW k, k = 0, NEW kind,
             \/ Echo!Await(s, kind, k) \/ Echo!AwaitThrows(s, k) \/ Echo!TaskEnds(s, kind, k)
      PROVE  outstanding' \in [Echo!Side -> 0 .. 1]
  BY <1>1 DEF EchoRest, Echo!Await, Echo!AwaitThrows, Echo!TaskEnds
<1>2. ASSUME NEW s \in Echo!Side, NEW kind, Echo!InLoop(s, kind) PROVE Echo!Resumed(s) = 0
  BY <1>2 DEF EchoRest, Echo!InLoop, Echo!Resumed
<1>3. ASSUME NEW s \in Echo!Side, Echo!CloseSocket(s) \/ UNCHANGED Echo!netVars
      PROVE  connected' \in BOOLEAN /\ closed' \subseteq Echo!Side
  BY <1>3 DEF EchoRest, Echo!CloseSocket, Echo!netVars
<1>4. CASE Echo!ServerStart \/ Echo!ClientStart
  BY <1>4, <1>s, <1>1, <1>3 DEF EchoRest, Echo!ServerStart, Echo!ClientStart
<1>5. CASE Echo!ServerStep
  <2>1. Echo!Resumed("server") = 0
    BY <1>5, <1>s, <1>2
       DEF Echo!ServerStep, Echo!ServerAccepted, Echo!ServerReceived, Echo!ServerDisconnected,
           Echo!ServerSent
  <2>2. \/ Echo!CloseSocket("server") \/ UNCHANGED Echo!netVars
    BY <1>5
       DEF Echo!ServerStep, Echo!ServerAccepted, Echo!ServerReceived, Echo!ServerDisconnected,
           Echo!ServerSent
  <2>3. \E kind, k : /\ k = 0
                     /\ \/ Echo!Await("server", kind, k) \/ Echo!AwaitThrows("server", k)
                        \/ Echo!TaskEnds("server", kind, k)
    BY <1>5, <2>1
       DEF Echo!ServerStep, Echo!ServerAccepted, Echo!ServerReceived, Echo!ServerDisconnected,
           Echo!ServerSent
  <2> QED
    BY <1>s, <1>1, <1>3, <2>2, <2>3 DEF EchoRest
<1>6. CASE Echo!ClientStep
  <2>1. Echo!Resumed("client") = 0
    BY <1>6, <1>s, <1>2
       DEF Echo!ClientStep, Echo!ClientConnected, Echo!ClientSent, Echo!ClientReceived
  <2>2. \/ Echo!CloseSocket("client") \/ UNCHANGED Echo!netVars
    BY <1>6
       DEF Echo!ClientStep, Echo!ClientConnected, Echo!ClientSent, Echo!ClientReceived
  <2>3. \E kind, k : /\ k = 0
                     /\ \/ Echo!Await("client", kind, k) \/ Echo!AwaitThrows("client", k)
                        \/ Echo!TaskEnds("client", kind, k)
    BY Zenon, <1>6, <2>1
       DEF Echo!ClientStep, Echo!ClientConnected, Echo!ClientSent, Echo!ClientReceived,
           Echo!SendMessage
  <2> QED
    BY <1>s, <1>1, <1>3, <2>2, <2>3 DEF EchoRest
<1>7. ASSUME NEW s \in Echo!Side, Echo!KernelStep(s) PROVE EchoRest'
  BY <1>7, Zenon DEF EchoRest, Echo!KernelStep, Echo!CompleteRecv, Echo!CompleteSend,
              Echo!CompleteAccept, Echo!CompleteConnect, Echo!netVars
<1>8. ASSUME NEW s \in Echo!Side, Echo!RunReturns(s) PROVE EchoRest'
  BY <1>8, <1>3 DEF EchoRest, Echo!RunReturns
<1>9. CASE UNCHANGED <<outstanding, connected, closed>>
  BY <1>9 DEF EchoRest
<1> QED
  BY <1>4, <1>5, <1>6, <1>7, <1>8, <1>9
     DEF Echo!Next, Echo!Reset, Echo!Quiescent, Echo!vars, Echo!procVars, Echo!netVars, echoVars

LEMMA EchoTyped == Spec => [](program = "echo" => Echo!TypeOK)
<1> DEFINE I == program = "echo" => LoopInv /\ EchoRest /\ PipeProof!EchoTypes
<1>0. PipeProof!Echo!MessagesAssumption /\ PipeProof!SequenceLaws
  BY ConstantsAssumption, SameEcho, Laws
<1>1. Init => I
  <2>1. Echo!Init => LoopInv
    BY DEF Echo!Init, LoopInv, Echo!Side, Echo!Awaiting
  <2>2. Echo!Init => EchoRest
    <3> SUFFICES ASSUME Echo!Init PROVE EchoRest
      OBVIOUS
    <3>1. outstanding = [s \in Echo!Side |-> 0] /\ connected = FALSE /\ closed = {}
      BY Zenon DEF Echo!Init
    <3>2. 0 \in 0 .. 1
      OBVIOUS
    <3>3. outstanding \in [Echo!Side -> 0 .. 1]
      BY <3>1, <3>2, Zenon
    <3> QED
      BY <3>1, <3>3, Zenon DEF EchoRest
  <2> QED
    BY <1>0, <2>1, <2>2, SameEcho, PipeProof!EchoInit DEF Init
<1>2. ASSUME I, [Next]_vars, program' = "echo"
      PROVE  LoopInv' /\ EchoRest' /\ PipeProof!EchoTypes'
  <2>1. PipeProof!EchoTypes /\ LoopInv /\ EchoRest /\ [Echo!Next]_echoVars
    BY <1>2, ProgramStep
  <2>2. [PipeProof!Echo!Next]_(PipeProof!echoVars)
    BY <2>1, SameEcho DEF echoVars, PipeProof!echoVars
  <2> QED
    BY <1>0, <2>1, <2>2, PipeProof!EchoTypesStep, LoopStep, EchoRestStep
<1>3. I /\ [Next]_vars => I'
  BY <1>2
<1>4. ASSUME LoopInv, EchoRest, PipeProof!EchoTypes PROVE Echo!TypeOK
  <2>1. \A s \in Echo!Side : io[s] = None \/ io[s] \in [done : BOOLEAN, bytes : Nat, error : BOOLEAN]
    BY <1>4 DEF LoopInv, PipeProof!EchoTypes, PipeProof!EchoOps, PipeProof!Echo!Side,
         Echo!Side, PipeProof!Echo!Awaiting, Echo!Awaiting
  <2>2. /\ \A s \in Echo!Side : Len(buffer[s]) = BufferSize
        /\ message \in 1 .. Len(Messages) /\ broken \in BOOLEAN
    BY <1>4 DEF PipeProof!EchoTypes, PipeProof!Echo!Side, Echo!Side
  <2>3. message \in DOMAIN Messages
    BY <2>2, ConstantsAssumption DEF Echo!MessagesAssumption
  <2> QED
    BY <1>4, <2>1, <2>2, <2>3 DEF LoopInv, EchoRest, Echo!TypeOK
<1>5. I => (program = "echo" => Echo!TypeOK)
  BY <1>4
<1> QED
  BY <1>1, <1>3, <1>5, PTL DEF Spec

(* SecureSocket: no more of the handshake than there is, and what is kept.  *)
TlsRest ==
    /\ handshaken <= Len(HandshakeSizes)
    /\ kept \subseteq {"winsock", "socket", "credentials", "context"}

LEMMA TlsRestStep ==
  ASSUME TlsRest, PipeProof!TlsInv', [Tls!Next]_tlsVars
  PROVE  TlsRest'
<1> USE DEF Tls!Fail, Tls!Leave, Tls!Abort
<1>1. CASE Tls!HandshakeReceives
  <2>1. kept' \subseteq {"winsock", "socket", "credentials", "context"}
    BY <1>1, Zenon DEF TlsRest, Tls!HandshakeReceives
  <2>2. \/ handshaken' = handshaken
        \/ handshaken' = Len(HandshakeSizes)
        \/ phase' = "handshake"
    BY <1>1 DEF Tls!HandshakeReceives
  <2>3. phase' = "handshake" => handshaken' < Len(HandshakeSizes)
    BY DEF PipeProof!TlsInv, PipeProof!Shaking
  <2>4. handshaken' \in Nat
    BY DEF PipeProof!TlsInv, PipeProof!TlsTypes
  <2>5. HandshakeSizes \in Seq(1 .. MaxPacket)
    BY ConstantsAssumption DEF Tls!TlsAssumption
  <2>6. Len(HandshakeSizes) \in Nat
    BY <2>5
  <2> QED
    BY <2>1, <2>2, <2>3, <2>4, <2>6 DEF TlsRest
<1>2. CASE Tls!tls_connect
  BY <1>2 DEF TlsRest, Tls!tls_connect
<1>3. CASE Tls!HandshakeCut \/ Tls!ConnectionLost \/ Tls!tls_write
  BY Zenon, <1>3 DEF TlsRest, Tls!HandshakeCut, Tls!ConnectionLost, Tls!tls_write
<1>4. CASE Tls!Decrypt
  BY Zenon, <1>4 DEF TlsRest, Tls!Decrypt, Tls!WriteOut
<1>5. CASE \/ Tls!HandOut \/ Tls!ReadReturns \/ Tls!ReadReceives \/ Tls!ReadEnds
           \/ Tls!tls_disconnect
  BY Zenon, <1>5 DEF TlsRest, Tls!HandOut, Tls!ReadReturns, Tls!ReadReceives, Tls!ReadEnds,
       Tls!tls_disconnect
<1>6. CASE Tls!ServerSends \/ Tls!ServerCloses \/ Tls!Reset
  BY <1>6, Zenon DEF TlsRest, Tls!ServerSends, Tls!ServerCloses, Tls!Reset, Tls!client
<1>7. CASE UNCHANGED tlsVars
  BY <1>7 DEF TlsRest, tlsVars
<1> QED
  BY <1>1, <1>2, <1>3, <1>4, <1>5, <1>6, <1>7 DEF Tls!Next, Tls!ClientStep

LEMMA TlsTyped == Spec => [](program = "tls" => Tls!TypeOK)
<1> DEFINE I == program = "tls" => PipeProof!TlsInv /\ TlsRest
<1>0. PipeProof!Tls!TlsAssumption /\ PipeProof!SequenceLaws
  BY ConstantsAssumption, SameTls, Laws
<1>c. /\ HandshakeSizes \in Seq(1 .. MaxPacket)
      /\ MaxPacket \in Nat /\ ReadSize \in Nat /\ MaxPacket < ReadSize
  BY ConstantsAssumption DEF Tls!TlsAssumption
<1>d. Len(HandshakeSizes) \in Nat
  BY <1>c
<1>1. Init => I
  <2>1. Tls!Init => TlsRest
    BY <1>d DEF Tls!Init, TlsRest
  <2> QED
    BY <1>0, <2>1, SameTls, PipeProof!TlsInit DEF Init
<1>2. ASSUME I, [Next]_vars, program' = "tls" PROVE PipeProof!TlsInv' /\ TlsRest'
  <2>1. PipeProof!TlsInv /\ TlsRest /\ [Tls!Next]_tlsVars
    BY <1>2, ProgramStep
  <2>2. [PipeProof!Tls!Next]_(PipeProof!tlsVars)
    BY <2>1, SameTls DEF tlsVars, PipeProof!tlsVars
  <2>3. PipeProof!TlsInv'
    BY <1>0, <2>1, <2>2, PipeProof!TlsStep
  <2> QED
    BY <2>1, <2>3, TlsRestStep
<1>3. I /\ [Next]_vars => I'
  BY <1>2
<1>4. ASSUME PipeProof!TlsInv, TlsRest PROVE Tls!TypeOK
  <2>1. /\ phase \in {"connect", "handshake", "write", "read", "disconnect", "ended"}
        /\ Len(incoming) <= MaxPacket /\ handshaken \in Nat /\ Len(buf) <= MaxPacket
        /\ asked \in BOOLEAN /\ server \in {"open", "closed", "reset"}
        /\ buf \in Seq(PipeProof!Byte)
    BY <1>4 DEF PipeProof!TlsInv, PipeProof!TlsTypes
  <2>2. Len(buf) \in Nat
    BY <2>1
  <2>3. handshaken \in 0 .. Len(HandshakeSizes)
    BY <1>4, <1>d, <2>1 DEF TlsRest
  <2>4. Len(buf) <= ReadSize
    BY <1>c, <2>1, <2>2
  <2> QED
    BY <1>4, <2>1, <2>3, <2>4 DEF TlsRest, Tls!TypeOK
<1>5. I => (program = "tls" => Tls!TypeOK)
  BY <1>4
<1> QED
  BY <1>1, <1>3, <1>5, PTL DEF Spec

(* ClientServerLib.                                                         *)
LEMMA ArrayTypeStep ==
  ASSUME ArrayInv, Array!TypeOK, [Array!Next]_arrayVars
  PROVE  Array!TypeOK'
<1> USE ConstantsAssumption DEF Array!ArrayAssumption
<1>z. Array!Zero \in [by : 0 .. MaxStarts, number : 0 .. MaxElements - 1,
                       end : 0 .. MaxStarts]
  BY DEF Array!Zero
<1>1. CASE UNCHANGED arrayVars
  BY <1>1 DEF Array!TypeOK, arrayVars
<1>2. CASE Array!ServerStart \/ Array!ServerKilled
  BY <1>2 DEF Array!TypeOK, Array!ServerStart, Array!ServerKilled, Array!ServerGoes,
              Array!ServerRuns, Array!sharedVars, Array!clientVars
<1>3. CASE Array!ServerStep
  <2> USE DEF Array!TypeOK, Array!ServerGoes, Array!ServerRuns, Array!ServerOwns,
              Array!sharedVars, Array!clientVars
  <2>1. CASE Array!ServerLock \/ Array!AddChecks \/ Array!ServerGet \/ Array!ReadBackBegins
    BY <2>1 DEF Array!ServerLock, Array!AddChecks, Array!ServerGet, Array!ReadBackBegins
  <2>2. CASE Array!ZeroMemory
    <3> DEFINE T == [by : 0 .. MaxStarts, number : 0 .. MaxElements - 1, end : 0 .. MaxStarts]
    <3>1. \A j \in Array!Slot : [Array!Zero EXCEPT !.end = m_array[j].end] \in T
      BY <1>z
    <3>2. /\ Array!Zero \in T
          /\ m_array' = [j \in Array!Slot |->
                            IF Array!SlotEnd(j) <= Array!MappedSize THEN Array!Zero
                            ELSE [Array!Zero EXCEPT !.end = m_array[j].end]]
      BY <1>z, <2>2 DEF Array!ZeroMemory
    <3> HIDE DEF T
    <3>3. m_array' \in [Array!Slot -> T]
      BY <3>1, <3>2, Zenon
    <3> QED
      BY <2>2, <3>3 DEF Array!ZeroMemory, T
  <2>3. CASE Array!Launch
    BY <2>3 DEF Array!Launch, Array!ClientRuns
  <2>4. CASE Array!Construct
    <3>1. Array!Hello(element) \in [by : 0 .. MaxStarts, number : 0 .. MaxElements - 1,
                       end : 0 .. MaxStarts]
      BY <2>4 DEF Array!Construct, Array!Hello, ArrayInv, InLoop
    <3> QED
      BY <2>4, <3>1, Zenon DEF Array!Construct
  <2>5. CASE Array!Count \/ Array!AddUnlocks
    BY <2>5 DEF Array!Count, Array!AddUnlocks, ArrayInv, InLoop
  <2>6. CASE Array!ServerShow
    BY <2>6 DEF Array!ServerShow, ArrayInv, InLoop
  <2> QED
    BY <1>3, <2>1, <2>2, <2>3, <2>4, <2>5, <2>6 DEF Array!ServerStep
<1>4. ASSUME NEW k \in Array!Client, Array!ClientStep(k) \/ Array!ClientKilled(k)
      PROVE  Array!TypeOK'
  <2>1. /\ UNCHANGED <<m_currentCount, m_array, serverAt, element, starts>>
        /\ clientAt' \in [Array!Client -> Array!ClientRuns \cup {"none", "ended"}]
        /\ mutex' \in {mutex, k, Array!Nobody}
    BY <1>4 DEF Array!TypeOK, Array!ClientStep, Array!ClientGoes, Array!ClientRuns,
                Array!ClientOwns, Array!Open, Array!Poll, Array!ClientLock, Array!Index,
                Array!ClientPrint, Array!ClientKilled, Array!sharedVars, Array!serverVars
  <2>2. \/ clientElement' = clientElement
        \/ clientAt[k] = "print" /\ clientElement' = [clientElement EXCEPT ![k] = @ + 1]
    BY <1>4 DEF Array!ClientStep, Array!ClientGoes, Array!Open, Array!Poll,
         Array!ClientLock, Array!Index, Array!ClientPrint, Array!ClientKilled
  <2>3. clientElement' \in [Array!Client -> 0 .. MaxElements]
    BY <2>2 DEF Array!TypeOK, ArrayInv, Printing
  <2> QED
    BY <2>1, <2>3 DEF Array!TypeOK
<1> QED
  BY <1>1, <1>2, <1>3, <1>4 DEF Array!Next

LEMMA ArrayTyped == Spec => [](program = "array" => Array!TypeOK)
<1> DEFINE I == program = "array" => ArrayInv /\ Array!TypeOK
<1>1. Init => I
  BY ConstantsAssumption
     DEF Init, Array!Init, Array!ArrayAssumption, ArrayInv, ArrayTypes, Owned,
         Constructed, InLoop, Printing, Array!ServerRuns, Array!ServerOwns,
         Array!ClientOwns, Array!Slot, Array!TypeOK, Array!Zero
<1>2. I /\ [Next]_vars => I'
  BY ProgramStep, ArrayStep, ArrayTypeStep
<1>3. I => (program = "array" => Array!TypeOK)
  OBVIOUS
<1> QED
  BY <1>1, <1>2, <1>3, PTL DEF Spec

(* PipeLib and XSocket.                                                     *)
LEMMA PipeTyped == Spec => [](program = "pipe" => Pipe!TypeOK)
<1> DEFINE I == program = "pipe" => PipeProof!Inv
<1>0. PipeProof!SizesAssumption
  BY ConstantsAssumption, SamePipe
<1>1. Init => I
  BY <1>0, SamePipe, PipeProof!InitInv DEF Init
<1>2. ASSUME I, [Next]_vars, program' = "pipe" PROVE PipeProof!Inv'
  <2>1. PipeProof!Inv /\ [Pipe!Next]_pipeVars
    BY <1>2, ProgramStep
  <2>2. [PipeProof!Moves]_(PipeProof!vars)
    BY <2>1, SamePipe DEF pipeVars, PipeProof!vars
  <2> QED
    BY <1>0, <2>1, <2>2, PipeProof!StepInv
<1>3. I /\ [Next]_vars => I'
  BY <1>2
<1>4. PipeProof!Inv => Pipe!TypeOK
  BY DEF PipeProof!Inv, PipeProof!TypeOK, Pipe!TypeOK
<1>5. I => (program = "pipe" => Pipe!TypeOK)
  BY <1>4
<1> QED
  BY <1>1, <1>3, <1>5, PTL DEF Spec

LEMMA ListTyped == Spec => [](program = "list" => List!TypeOK)
<1> DEFINE I == program = "list" => Transport!BytesInv
<1>0. Transport!SizesAssumption
  BY ConstantsAssumption, SameList
<1>1. Init => I
  BY <1>0, SameList, Transport!BytesInit DEF Init
<1>2. ASSUME I, [Next]_vars, program' = "list" PROVE Transport!BytesInv'
  <2>1. Transport!BytesInv /\ [List!Next]_listVars
    BY <1>2, ProgramStep
  <2>2. [Transport!Next]_(Transport!vars)
    BY <2>1, SameList DEF listVars, Transport!vars, Transport!fields, Transport!locals,
                          Transport!counts
  <2> QED
    BY <1>0, <2>1, <2>2, Transport!BytesStep
<1>3. I /\ [Next]_vars => I'
  BY <1>2
<1>4. List!TypeOK <=> Transport!TypeOK
  BY DEF List!TypeOK, Transport!TypeOK, List!Thread, Transport!Thread, List!Node,
       Transport!Node, List!head, Transport!head, List!NoNode, Transport!NoNode,
       List!ULong, Transport!ULong, List!Labels, Transport!Labels, List!Stray,
       Transport!Stray, List!CopiesTransportData, Transport!CopiesTransportData
<1>5. I => (program = "list" => List!TypeOK)
  BY <1>0, <1>4, Transport!StreamWhole
<1> QED
  BY <1>1, <1>3, <1>5, PTL DEF Spec

(* Every variable of the program that runs keeps its type, for every value  *)
(* of the constants.                                                        *)
THEOREM TypesCorrect == Spec => []TypeOK
<1>1. (program = "iocp" => Transport!ServerInv) => (program = "iocp" => Iocp!TypeOK)
  BY SameServer DEF Transport!ServerInv
<1>2. /\ program = "echo" => Echo!TypeOK
      /\ program = "iocp" => Iocp!TypeOK
      /\ program = "tls" => Tls!TypeOK
      /\ program = "pipe" => Pipe!TypeOK
      /\ program = "child" => Child!TypeOK /\ Child!FileComesBack
      /\ program = "list" => List!TypeOK
      /\ program = "array" => Array!TypeOK
      => TypeOK
  BY DEF TypeOK
<1>3. Spec => [](program = "list" => List!TypeOK)
  BY ListTyped
<1> QED
  BY <1>1, <1>2, <1>3, EchoTyped, ServerCorrect, TlsTyped, PipeTyped, FileCorrect,
       ArrayTyped, PTL

=============================================================================
