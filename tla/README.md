# TLA+ models of win32-experiments

The repository is a collection of small Windows programs, one directory per
program under `src/`, each exploring one part of the Win32 API. They share
almost no code: a few use a library directory (`PipeLib`, `ClientServerLib`,
`BasicClientServerShared`), the rest stand alone. A "component" here is
therefore a directory, and the interesting structure lies inside the programs
that have more than one actor: threads and a lock, a completion port and its
workers, two processes and a pipe, a service and the control manager, a client
and a server passing security tokens.

This directory models those programs in TLA+, checks them with TLC on small
instances and proves some of their properties with TLAPS. Each model is
translated from the program's source; `PROJECT.json` maps every definition to
the lines it stands for.

## Inventory

Programs with several actors, their state and what makes them hard:

| Program | State | Operations | Interaction | What is hard | Correct means |
|---|---|---|---|---|---|
| ConditionVariables | ring buffer, counters, stop flag | produce, consume, request stop, join | threads; critical section, two condition variables | lost wake-ups, stop against a sleeping thread, counter wrap | bounded FIFO queue; nothing lost; everybody ends |
| WinSockIOCP | connections with one receive and one send context, completion port | accept, post receive, post send, handle a completion | main thread, worker pool, kernel | who owns a connection when it ends; a buffer pointer copied with its owner | one operation per connection; bytes echoed as sent; connections of departed clients deleted |
| WinsockCoroutine | coroutine frames, count of operations | accept, connect, receive, send as awaitables | two processes, one thread each, a completion port each | event loop ends by a count, coroutine by its own code | loop and coroutine end together |
| WinsockCoroutineJunie | coroutine frames, g_stop | accept, handle, connect, resume | one thread, one completion port, other programs that connect | an accept that failed; a loop that ends by a flag of one coroutine | every accepted connection answered for until closed; main leaves with the client |
| PipeLib, PipeMessages, SmallPipes, PipeServer/PipeClient | message pipe, growing read buffer | write, read until no more data | two processes or threads | parts of messages, header in front of data, broken pipe in mid-message | messages whole, in order, with the data that was written |
| FileLockMutex | lock file, handle in each lock object | lock, try_lock, unlock, move | processes that may die | stale lock file; two holders; a moved-from lock | mutual exclusion, never stale |
| Win32Threads (thread-queue) | message queues, ready event, object being destroyed | start, wait ready, post, quit, join | main and two threads | post before there is a queue; virtual call during destruction | messages handled before the quit; Run returns |
| WaitableTimers (ThreadApc) | timer, worker, APC queue, heap functions | tick, schedule, signal exit, join | main, worker, timer | exit overtakes queued calls; exceptions unwinding past a running worker | run in order, deleted when run, event outlives worker |
| Win32Service | shared status record, stop event, token | SvcMain, control handler, report | two threads and the SCM | unlocked record filled by both; control before the event exists | status reported as meant; stop ends the program |
| XSocket (List, Transport) | doubly linked ring, partly read entries | write, read | threads under a critical section | pointers read and written in steps; copy bounds | bytes in order, ring whole, no leak |
| Parent, Child | two pipes, which process holds which end | spawn, write all, read all; copy loop | two processes | end of stream depends on handles; both pipes full | the file comes back; both end |
| SecureSocket | receive buffer, decrypted window into it, security context | connect and handshake, write, read, disconnect | client and a server that may stop anywhere | records cut and joined by the stream, tickets between them, end of stream in the handshake | what main receives is the response, and in the file as text; the client ends |
| OldSspiSample, OldSspiSampleServer | credentials, contexts, framed stream | connect, exchange tokens, encrypt, decrypt | two processes, security package | partial sends and receives, empty tokens, status overwritten, a failure that is only printed | tokens whole; both agree; message arrives; nothing held |

Programs that share an array (ClientServerLib, ProcessServer, ProcessClient), wait
on an address (WaitOnAddress) or let a thread work on a window (progress-bar):

| Program | State | Operations | Interaction | What is hard | Correct means |
|---|---|---|---|---|---|
| ClientServerLib, ProcessServer, ProcessClient | counted array in a file mapping, named mutex | construct and zero, add, index, count | a server and the clients it starts, each of which may be killed | a count read without the lock; a server started again over the mapping of older clients | nothing added or read beyond what is there; the server reads back what it added |
| WaitOnAddress | a value and main's copy of it | wait, store, wake | main and one thread | the change between test and wait; locals the thread refers to | main wakes and returns |
| progress-bar | window, three flags, one posted message | Join, ask, close, set | main, a detached task, the user | the user's answer crosses the task's Close; main's locals end while the task runs | Join's answer is true; the program ends |

Eighty-four programs, or parts of programs, have one thread and no partner: they
make one call after another,
each of which may fail, and hand back what they acquired in scopes, at a label or
by hand. Their state is what they hold (handles, interface pointers, blocks), and
what is hard to test is the failure of a call in the middle: what is given back
then, in which order, and whether something is used that was never acquired. They
are

* (`SecurityPrograms`) CertEncodeDecode, CreateAuthPolicyStore, CreateDacl,
  EnumSystemCertStores, ExportImportCertificate, FindingOwner, SetPrivilege,
  SettingAndGettingCertStoreProperties, TakingOwnership;
* (`ComPrograms`) AdSystemInfo, basic-com and its client, BitsTest, DesktopToasts,
  DisplayingTaskNamesAndStatesExample, HardDriveInfo, TaskSchedulerDisplayTaskNames,
  TimeTriggerExample, WMI, WindowsUpdate, XAudio2;
* (`SystemPrograms`) BrowsePdhCounters, CabinetCreate, CabinetExtract, CrashDump,
  CreateUserAndGroup, EnumeratingAllProcessModules, GetNameInfo, GuardPages,
  IcmpRule, LoadingDLLs, NtQueryKey, PdhQuery, PrintLastError, RegEditor,
  StackTrace, TestExe, VirtualAllocReserving, WLAN, WTS, WlanTest;
* (`NetworkPrograms`) those that resolve names, ping, talk HTTP and WebSockets
  and hold a socket (BasicClientServerShared, Icmp6Tests, IcmpTests, NonBlockingSockets, NonBlockingSocketsSend, WebSocket, WebSocketProto, WindowsDNS, WinHttp, WinSock, WinSockClient, WinSockServer, XSocket);
* (`ProcessPrograms`) those that start processes, read the event log, verify
  signatures, trace exceptions and wait on handles (Client, EventLog, ExecuteCmd, IoCompletionPorts, ProjectedFileSystem, SelfExtractingExe, Server, SigningAndVerification, VectoredExceptionHandler, WaitOnObjects);
* (`WindowPrograms`) the paints and clicks of win32-ui-rc and bitblt.

The other directories are listed under "Plan" and "Not modelled", and
in `PROJECT.json` with the reason they are left out.

## Modules

| Module | Models | Extended or used by |
|---|---|---|
| `BoundedFifo` | abstract: a bounded FIFO queue that can be closed | instantiated by `ConditionVariables` |
| `ConditionVariables` | the producer/consumer program | `ConditionVariablesProofs` |
| `IocpEchoServer` | WinSockIOCP | `StreamPrograms`, `TransportProofs` |
| `Mutex` | abstract: a lock that lives in several processes | instantiated by `FileSystemLock` |
| `FileSystemLock`, `FileSystemLockMC` | FileLockMutex | `FileSystemLockProofs` |
| `SspiHandshake` | OldSspiSample and OldSspiSampleServer together | `SspiHandshakeProofs` |
| `ThreadMessageQueue` | Win32Threads/thread-queue.ixx | `ThreadPrograms` |
| `ThreadApc` | WaitableTimers, namespaces TimerHelpers and ThreadApc | `ThreadPrograms` |
| `Win32Service` | Win32Service/main.cpp | `ThreadPrograms` |
| `CoroutineLoop` | WinsockCoroutineJunie | `ThreadPrograms` |
| `AddressWait` | WaitOnAddress | `ThreadPrograms` |
| `ProgressWindow` | progress-bar, its detached task and its user | `ThreadPrograms` |
| `ThreadPrograms`, `ThreadProgramsMC` | the six above, side by side | `ThreadProgramsProofs` |
| `CoroutineEcho` | WinsockCoroutine, both processes and the connection | `StreamPrograms`, `ByteStreamProofs` |
| `MessagePipe`, `MessagePipeMC` | the pipe programs | `StreamPrograms`, `ByteStreamProofs` |
| `RedirectedChild` | Parent and Child together | `StreamPrograms`, `ByteStreamProofs` |
| `TransportList`, `TransportListMC` | XSocket List.cpp and Transport.cpp | `StreamPrograms`, `TransportProofs` |
| `TlsClient` | SecureSocket/main.cpp and the server it talks to | `StreamPrograms`, `ByteStreamProofs` |
| `SharedArray` | ClientServerLib with ProcessServer and ProcessClient | `StreamPrograms` |
| `StreamPrograms`, `StreamProgramsMC` | `CoroutineEcho`, `IocpEchoServer`, `TlsClient`, `MessagePipe`, `RedirectedChild`, `TransportList`, `SharedArray`, side by side | `StreamProgramsProofs` |
| `CallRows` | the vocabulary of straight-line programs: a row per call | the six tables |
| `SecurityPrograms`, `ComPrograms`, `SystemPrograms`, `NetworkPrograms`, `ProcessPrograms`, `WindowPrograms` | one table of programs each, as rows | `HandlePrograms` |
| `CallSequence` | the execution of a program given as rows: one step per call | `HandlePrograms`, `CallSequenceProofs` |
| `HandlePrograms` | `CallSequence` over the tables | |

Most programs are too small for a run of their own. `ThreadPrograms` and
`StreamPrograms` put programs that share nothing side by side: each component
module is instantiated on variables of its own, the variable `program` names the
one program that a behaviour is of, and the others stay in their initial state.
The properties of these two modules are conjunctions, guarded by `program`, of
properties stated one by one in the component's module; the table of runs names
the parts in parentheses. Nothing is composed in
these two modules in the sense of interacting. The modules that do compose
interacting parts are the ones that model two processes and what lies between
them (`CoroutineEcho`, `MessagePipe`, `RedirectedChild`, `SspiHandshake`, `TlsClient`,
`SharedArray`).

How state and actions correspond to the code:

* **ConditionVariables.** The variables carry the program's names. A thread is
  in the critical section from `enter` to `leave`; waiting releases the lock and
  puts the thread in the set of its condition variable in one step, as
  `SleepConditionVariableCS` does. The `Wake` calls come after the lock is left
  and are steps of their own. `SpuriousWake` wakes any sleeper at any time.
  Counters wrap at `Wrap`, which stands for 2^32.
* **IocpEchoServer.** One action per operation of main and the workers, with the
  dequeuing of a packet and its handling separate; the kernel completes pending
  operations in any order. `recvInto` records where `WsaBuf.buf` points.
  An exception that leaves a worker ends the process; one that leaves the accept
  loop leaves main joining workers that nobody stops.
* **CoroutineEcho.** A step is what the thread does between two calls of
  `GetQueuedCompletionStatus`: take the result, resume, start the next operation
  or end. Every Winsock call may fail and the connection may break.
* **CoroutineLoop.** One step of the thread runs a coroutine, and what it starts,
  up to where each waits: taking an accepted connection includes the first receive
  of its handler and the next accept. A handler carries the name of its connection;
  `visitors` are other programs that connect to the port. `g_stop` is set by the
  client only when it got as far as its receive, so a client that was refused
  leaves main polling for ever; `ClientEnds` therefore speaks of main only under
  `g_stop`.
* **MessagePipe.** `ReadPipe`'s loop is explicit: one action per `ReadFile`,
  which finishes a message, returns part of it (ERROR_MORE_DATA) or fails.
* **FileSystemLock.** `file` is the lock file; it disappears with the last handle
  (FILE_FLAG_DELETE_ON_CLOSE). A process may end at any time. `CreateFileW` may fail
  although there is no file (no access, no directory, a sharing violation): the code
  tells none of these from a lock that somebody holds. `false` from `try_lock`
  therefore does not say that there is a holder, and `HonestAnswer` does not claim it:
  it says what a caller may rely on, that after a success it is the one holder of all
  the processes and after a failure it has nothing to unlock and took nothing away.
* **ThreadMessageQueue.** `derived` says whether the derived part of the object
  still exists when the thread makes its virtual call.
* **ThreadApc.** Every call of Run may throw; unwinding destroys the members in
  the code's order, which joins the worker.
* **Win32Service.** `ReportSvcStatus` is three steps per thread (state, rest of
  the record, `SetServiceStatus`), because both threads fill in one record.
* **TransportList.** Pointers are read in one step and written in the next, so
  that the critical section matters. A byte is its place in the stream. `CopyTo` takes
  its bytes from beyond the entry when the code does (`Stray`). `ReadData` asserts
  that it hands out something (Transport.cpp:107): with an empty ring, or a length of
  0, a debug build ends the process there ("aborted") and a release build returns;
  both are modelled. Calls without data (`BeginRead`, `Allocate`) return at once.
* **RedirectedChild.** `holders` says which process holds a handle of which end
  of which pipe; inheritance, closing and the end of a process change it, and it
  alone decides whether a read or write fails. `std::wcout` is buffered in the
  child until `std::endl` or its end.
* **SspiHandshake.** A unit on the wire says what it is part of (size, token,
  trailer, data). `SendBytes` and `ReceiveBytes` move any part of what is asked.
  The security package is external: a conversation of client c takes `tokens[c]`
  tokens, the odd ones made by the client. `DecryptMessage` works in place and its
  failure is only printed (OldSspiSample/main.cpp:488), although the comment at
  line 76 says "Receive and manage a message from the server" and that at line 494
  "Return a pointer to the decrypted data": what main prints may be the undecrypted
  bytes (`Decrypted`), and `MessageArrives` says no more than that they are those of
  this one message, from the first to the last.
* **TlsClient.** `tls_connect`, `tls_write`, `tls_read` and main, a step per turn
  of their loops. A unit on the wire carries the kind of its record and whether
  it is the first or last of it; a `recv` moves any part of what has arrived that
  `s->incoming` has room for. The Schannel context is external: it takes the whole
  records at the head of the buffer and reports the rest as extra. `Unused` is
  what the code keeps of the buffer after `InitializeSecurityContext`
  (main.cpp:143): the extra units when something was taken and nothing otherwise,
  so that a handshake record that arrived in part is dropped and what follows is
  garbled. A garbled handshake fails, which `ClientEnds` shows; no property claims
  that it succeeds. When the handshake was cut, `tls_write` bounds its assertion and
  its copy by stream sizes that were never queried: it may end the process there or go
  on to EncryptMessage, which refuses the context. `received` is a history of what
  main counts; `myfile` is what it writes, by `myfile << buf` on a `char` array into a
  file opened for text: up to the first zero (`UpToNul`), with each line feed as two
  characters (`AsText`). An assertion (`Abort`) skips `tls_disconnect`; so does a
  failing `tls_connect`, which cleans up by itself (`Fail`). That response.txt opens
  is assumed.
* **SharedArray.** One action per statement that the lock or its absence makes
  matter. `Add` looks at the count before it locks; `operator[]` locks and gives the
  lock back before its caller looks at the element; the client looks at the count
  without the lock. The constructor zeroes the mapping under the lock whenever it
  was asked to create, also over objects that exist already, although the comment
  above it says "Don't zero the memory if we're opening an existing handle"
  (MemoryMappedFile.cpp:84); that is how a server started again takes the array from
  clients of the last one. A message's text is on the heap of the server that added
  it; a client that follows the pointer prints anything or faults (`ClientPrint`).
  Two servers at once are left out: nothing keeps them apart, and the unlocked test
  of `Add` would then admit an element beyond the end.
  The mapping is asked for with the size of ten messages, and the array begins behind
  a count of four bytes (ClientServerLib.hpp:77, :85), so that the last message ends
  behind the size that is mapped and zeroed, in the rest of the page that the system
  maps anyway. A slot therefore has an `end` of its own, which `ZeroMemory` leaves
  alone in the last one: `AddedInBounds` says that nothing is added behind the page,
  `ReadsConstructed` that a slot is read only when the server that wrote its beginning
  also wrote its end. Sizes are those of a 32-byte `std::wstring`. `Clear` is
  not called by the two programs.
* **AddressWait.** `WaitOnAddress` compares and queues in one step, as the kernel
  does, and may return for no reason (`SpuriousWake`).
* **ProgressWindow.** main takes messages in Join's loop and in the box that OnCancel
  shows; the task's SendMessage needs one of the two or a window that is gone.
  Close is three steps, because the user may answer between them. When the user
  canceled, main does not wait for the task, which may then use the window object
  after its end (`dangling`); `ObjectOutlivesTask` says that this happens in no
  other way. Without a window no message ends Join's loop, so that `WindowEnds`
  speaks only of a window that was made. ProgressStatus assigns its Max to itself, a
  read of an uninitialised value: the model lets it be the value that the task is
  going to ask for, or another.
* **CallSequence.** A program is a sequence of rows; each says what the call
  reads (`uses`), what the program owns when it succeeded (`gets`), what it gives
  back (`puts`), and what the code does when it fails (`fails`: the next row, a
  jump, a return, the end of the process, each with what the branch releases by
  hand). What destructors or a cleanup label give back by themselves is `scoped`
  and goes in one step with the return. Calling with something that is not held is
  `Misuse`, which ends the run. Two sets of a program name what the source does
  leave wrong, so that the properties can say that nothing else is: `leaves` (what
  some return does not give back, or what is overwritten while owned) and `risks`
  (what some path uses without having it). Every entry of both is reached by some
  behaviour. What is named there is therefore recorded and not caught: the three
  properties show that nothing else goes wrong.

## Runs

Each passing run explores its whole state space.

| Run | Bounds | Shows |
|---|---|---|
| `condition_variables` | 1 producer and 2 consumers (the code's own numbers), 2 slots, counters modulo 3 | `Accounting`, `DrainedAtExit`, `NoLostWakeup`, `NobodySleepsThroughStop`; `ImplementsFifo`: the ring is a `BoundedFifo`; `StopTerminates`, `ItemsAreConsumed` |
| `file_lock` | 3 processes, 4 lock objects, two of them in one process | `MutualExclusion`, `NoStaleFile`, `HonestAnswer`; `ImplementsMutex` |
| `thread_programs`, queue | the code's two threads | `WorkInOrder` (`PostsReachAQueue`, `DestroyedAfterRun`, `MessagesBeforeQuit`), `ProgramsEnd` (`RunReturns`) |
| `thread_programs`, apc | 3 ticks, as in the code | `WorkInOrder` (`ExitOutlivesWorker`, `RunInOrder`, `DeletedWhenRun`), `ProgramsEnd` (`RunReturns`) |
| `thread_programs`, loop | the client, one visitor, a message of 2 bytes | `EchoInOrder` (`HandlerPerConnection`, `EchoIsPrefix`), `ProgramsEnd` (`ClientEnds`, `HandlersEnd`) |
| `thread_programs`, address | the code's two threads | `WorkInOrder` (`NoSleepBehindWake`, `LocalsOutliveSetter`), `ProgramsEnd` (`MainReturns`) |
| `thread_programs`, progress | the code's two threads and any user | `WorkInOrder` (`ResultIsTrue`, `ObjectOutlivesTask`, `RangeBeforeValue`), `ProgramsEnd` (`WindowEnds`) |
| `thread_programs`, service | 3 controls of 3 kinds | `ReportsInOrder` (`NeverBackToRunning`, `CheckPointsRise`, `StoppedStands`), `ServiceReady` (`EventBeforeControls`, `ImpersonationUndone`), `ProgramsEnd` (`StopEndsProgram`) |
| `stream_programs`, echo | two messages, one longer than the buffer | `LoopFollowsTask`, `SentComesBack` (`EchoIsPrefix`), `ProcessesEnd` |
| `stream_programs`, iocp | 2 clients, 2 workers, buffer of 2, 2 bytes each | `OneOperationEach`, `EveryByteCounted`, `DepartedAreForgotten` |
| `stream_programs`, tls | handshake records of 2 and 3 units, buffer of 4, reads of 5; responses with records of 1 to 4 units, line feeds and a zero among their bytes, tickets before and between, with and without an alert | `SentComesBack` (`ResponseArrives`), `ProcessesEnd` (`ClientEnds`) |
| `stream_programs`, pipe | three messages: empty, shorter than and several times the buffer, with and without a header | `MessagesIntact` (`ReadInBounds`, `MessagesStayWhole`, `HeaderSurvives`), `CallsReturn` (`WriteUnblocks`, `EveryMessageRead`) |
| `stream_programs`, array | 2 messages, 2 servers started one after the other, 2 clients | `MessagesIntact` (`AddedInBounds`, `ReadsConstructed`, `ReadBack`), `ProcessesEnd` (`SharersEnd`) |
| `stream_programs`, child | files of 0 to 3 units, blocks and pipes of 2 | `SentComesBack` (`FileComesBack`), `ProcessesEnd` |
| `stream_programs`, list | 2 writers, 2 readers, 2 writes of 0 to 2 bytes, 2 reads of 1 or 2 bytes, within and across entries | `ListIntact` (`StreamIntact`, `RingInBothDirections`, `NothingLeaks`), `CallsReturn` |
| `sspi_handshake` | 2 client runs, conversations of 1 to 3 tokens, trailers of 1 or 2, sockets of 2 | `TokensStayWhole`, `SessionEstablished`, `MessageArrives`, `NothingKept`, `ClientEnds` |
| `handle_programs` | every program of the tables, any number of turns of its loops | `OnlyHeld`, `InnerGoesFirst`, `NothingLeftBehind` |

Runs that refute a statement made in the repository (the trace is the evidence):

| Run | Statement | What the code does |
|---|---|---|
| `iocp_echo` | WinSockIOCP/main.cpp:3 "echoes back whatever they send" | `PostRecv` assigns a temporary whose `WsaBuf.buf` points into itself; the bytes received go to a dead frame and zeros are echoed |
| `pipe_payload` | PipeServer/main.cpp:44 "the data will be read by the child process" | `WriteWithHeader` inserts into a vector already sized: the message has as many zero bytes behind the data |
| `service_report` | Win32Service/main.cpp:150 "Report the status of the service to the SCM." | the handler's second report overwrites SvcMain's Stopped between its assignment and its `SetServiceStatus`; Stopped is never sent |
| `transport_copy` | XSocket/Transport.cpp:92 "Copy data from the transport buffer to the application buffer." | the second read of a partly read entry copies from beyond its buffer |
| `tls_connect` | SecureSocket/main.cpp:37 "returns 0 on success or negative value on error" | a server that closes during the handshake makes `recv` return 0; the loop is left with `result` 0 and main goes on to write without a session (`tls_write` then fails, or an assertion on sizes never queried ends the process) |
| `redirected_large` | Parent.cpp:91 "Stop when there is no more data." | with a file larger than the pipes, parent and child each wait for the other to read |

The passing runs stay clear of those defects, so that they can say what else
holds: `StreamIntact` speaks of the bytes of the list as long as no copy has gone
beyond an entry (the ring and its entries are checked in all states, and reads of every
length are made), the redirected child is given files that fit, `HeaderSurvives` asks only
that the data begin with the payload, and `EveryByteCounted` counts bytes.

`SspiHandshake` has a constant `Completes`: whether the package wants its tokens
completed. Negotiate, the package the samples name, does not, and
`sspi_handshake` has it FALSE. With TRUE, TLC finds `SessionEstablished`
violated: `GenClientContext` stores the result of `CompleteAuthToken` in `ss`
before it compares `ss` with `SEC_I_COMPLETE_AND_CONTINUE`
(OldSspiSample/main.cpp:405). The client also frees a handle nothing was stored
in (line 140), so that its credentials stay until the process ends; `NothingKept`
is therefore stated of the server.

**Why the bounds are enough.** Each bound leaves room for the cases that tell
the code's branches apart: a buffer that is full, empty and wrapped; a message
split over several reads and one that fits exactly; two actors of the same kind
and one of the other; a counter that wraps during the run; odd and even numbers
of tokens. `handle_programs` needs no bound: a program is at one of its rows and owns
some of its resources, and nothing counts the turns of its loops. The proved theorems
hold without the bounds.

## Fairness

* A thread or process that can take a step eventually does: weak fairness on the
  step of each, because Windows schedules ready threads. A contended critical
  section is not fair: a thread that waits for it is promised nothing while others
  keep taking it. `ConditionVariables` adds that spurious wake-ups do not come
  for ever (`FinitelySpurious`), since each takes the section from a waiting thread.
* Completions are delivered: an operation the kernel can complete it completes.
  A timer keeps ticking. The user dismisses the message box of `ErrorExit`
  and the one with progress-bar's result.
* The TLS server sends what it has to send or closes, and closes when it has
  nothing more to say; nothing is assumed of how its records are cut.
* Nobody has to press the key that stops `ConditionVariables`, start a process,
  make a call, send a control or close a connection, and nothing is assumed of
  failures: no call has to fail and no process has to be killed.

## Proofs

TLAPS checks eight modules from nothing. `StreamProgramsProofs` and
`ThreadProgramsProofs` speak of the modules that put programs side by side, and
so of the properties the runs check; what `ByteStreamProofs` and `TransportProofs`
prove of one program, `StreamProgramsProofs` carries over by showing that the
definitions of the two instances are the same (`SameServer`, `SamePipe`, `SameChild`,
`SameEcho`, `SameTls`, `SameList`).

**ConditionVariablesProofs** (`Spec` of `ConditionVariables`, for every set of
producers and consumers, every buffer size and every counter width larger than
it). The inductive invariant is
`IInv == TypeOK /\ LockInv /\ RoleInv /\ CountInv /\ StopInv` (with
`NoLostWakeup` and `NobodySleepsThroughStop` preserved alongside): who is in the
critical section, which program points belong to producers and which to
consumers, how the totals and the queue size are related modulo the counter
width, and what main's position says about the stop flag. `Accounting` alone is
not inductive, since nothing in it says that the thread that changes the totals
owns the lock. `Refinement` shows that every step is a step of `BoundedFifo` or
leaves it unchanged; it rests on `InsertAppends` and `RemoveTakesHead`, which
say what the ring's arithmetic does to the sequence it represents. Assumptions:
`ThreadsAssumption`, `BufferSizeAssumption`, `WrapAssumption`.

**FileSystemLockProofs** (`Spec` of `FileSystemLock`, for any processes and lock
objects). The invariant `Inv == TypeOK /\ MutualExclusion /\ NoStaleFile` is
inductive as a whole and not in its parts: exclusion needs that the file exists
exactly while somebody holds the handle. `Refinement` maps the only holder to
`Mutex`'s `holder`; `AnswersHonest` is an action property from the same
invariant: that the answer to a caller who holds the lock already is right needs
`MutualExclusion`. Assumption: `OwnersAssumption`.

**ByteStreamProofs**. The pipe programs (for every sequence of messages, buffer
size and header, under `SizesAssumption`): `Inv == TypeOK /\ ReturnedWhole /\ WaitingWhole /\
CurrentCut /\ RoomLeft /\ TwoForms`: what was returned and what still waits in
the pipe are the messages written, in order; the message being read is cut
between the buffer and the pipe without a gap; and the buffer has room behind
what was read. The cut is what makes the growing buffer of `ReadPipe` provable:
the property only speaks of messages already returned.

Parent and Child (for every file, block and pipe, under the `SizesAssumption` of
`RedirectedChild`): `ChildInv` says which process holds which end of the pipes at
each position (`ChildHoldersInv`), what either has in its hands
(`ChildHandsInv`), and that what came back, what the child holds, what is in its
pipe, what the parent holds and what it has not read, one after the other, are the
file (`ChildUnitsInv`). `FileComesBack` sees the first of the five only, and that
nothing is missing at the end follows from who has closed what: the child's reads
end when the parent's copy of the write end is gone and the pipe is empty. The text
the child mixes in is taken out by `FromFile`, a fold, so its two laws
(`FromFileAppend`, `FromFileConcat`) need induction over data; they rest on
`SequenceLaws`, which `StreamProgramsProofs` takes from `TransportProofs`.
An earlier form of `FileComesBack` counted on what is left in a pipe whose reader has
been ended; the proof attempt failed there, rightly, and it now speaks of the pipe
only while the parent is there to read it.

WinsockCoroutine (for every sequence of messages and size of buffer, under
`MessagesAssumption`): `EchoOrder` says that what came back, what is on its way back
(`EchoHere`), what the server holds and what is on its way to it (`EchoThere`) and
what the client is sending are, one after the other, all that was sent; after a reset
or the end of the server they are a beginning of it. `EchoIsPrefix` sees the first of
them only. `EchoTypes` says what an operation under way has moved: a receive never
more than the buffer, so that the part that is echoed is the part that was received.

SecureSocket (for every response out of `Responses`, every handshake and size of the
buffers, under `TlsAssumption`): `TlsInv == TlsTypes /\ NotYet /\ Shaking /\ Reads /\
FileRight`. `Coming` is all that the client has not received: what is on the
connection, what the server has still to send, and the answer as long as it has not
been asked for. `Shaking` says that during the handshake the client's buffer and what
is coming are first the units of whole records of the handshake, no more than it still
wants, and then the answer's, unless part of a record was thrown away. `Reads`
gives the read loop a place m in the answer: what was received and main's buffer hold
what the first m records say, what the client has received and what is coming are the
units of the records that are left, and what is decrypted is the next of them. After a
reset nothing more comes. `ResponseArrives` compares what was received with the
response at the end and says nothing of the places in between, so it is not inductive;
neither is `FileRight` without `Reads`. The units of a sequence of records are a fold
again (`AllUnits`), which `FlattenConcat` splits. `TextRight` says what the file has of
what was received: each call's bytes are written for themselves, so that the file is
the text of all of them only if the text of two parts is that of the whole (`TextOf`)
and no part was cut at a zero (`NoNul`).

**StreamProgramsProofs** (`Spec` of `StreamPrograms`). `LoopCorrect` counts the
operations of a coroutine (`LoopInv`), `ArrayInv` says how far each process of
SharedArray has come with the array and who owns the mutex, and `OperationsCorrect`,
`BytesCorrect`, `MessagesCorrect`, `FileCorrect`, `EchoCorrect` and `SentCorrect` (all
of `SentComesBack`) carry the invariants of the other two modules into the one with
all programs, as `ListCorrect` and `RingCorrect` do. `TypesCorrect` takes `TypeOK` from
these invariants and, for what none of them mentions, from two more (`EchoRest`,
`TlsRest`). Assumptions: those of the programs' modules.

**TransportProofs**. XSocket (`Spec` of `TransportList`, for any number of threads and
calls and every length of write and read, under `SizesAssumption`). `Ring` of the model
follows the links and says nothing when they are broken; the invariants therefore
speak of a sequence R of entries and say that there is one. `RingInv(R)`: every
entry of R is linked to the next and back (`Linked`), an entry being made is its
writer's alone (`Handed`), what is allocated is in R or being made (`Allocated`),
and what a thread inside the critical section has read of the ring still stands
(`Standing`), since only one is there. `RingGrows` and `RingShrinks` show that
AppendTail's four assignments make the ring of `Append(R, e)` and RemoveHead's that
of `Tail(R)`; `RingIs`, that following the links then finds R. This needs nothing of
the lengths of the reads: `RingCorrect` holds for all. `StreamInv(R)`: the entries'
buffers are filled and their indices within them (`Filled`), only the first entry
can be used up, and it is while it is being removed (`Fresh`), and what was read,
with what is left of R's entries, is what was written (`Streams`). CopyTo, asked
for more than is left of a partly read entry, reads beyond its end, which is the
finding of `transport_copy`; what was read then has a `Stray` byte in it for good, and
`BytesInv` speaks of the lengths and the ring from there on, of `StreamInv` before. The
theorems `StreamCorrect`, `TypeCorrect` and `ListCorrect` assume nothing of the lengths.

WinSockIOCP (for any clients and workers and every buffer size, under
`BoundsAssumption`). `ServerInv == TypeOK /\ AllOne /\ AllCounted`. `AllOne`: the
operations of a live Connection, pending in the kernel, queued at the port or in a
worker's hands, are exactly one, and those of a Connection that was never made or
was deleted are none. `OneOperationEach` speaks of live Connections only and is not
inductive: an operation left behind by a deleted one would be a second owner of
the next. `AllCounted`: what a client sent is, in number, what came back, what
waits in either direction and what the single operation holds, whatever its place.
`EveryByteCounted` is a sum over a set of packets and workers; that the sum has one
term at most is `AllOne` again, so neither can be proved without the other.

**ThreadProgramsProofs** (`Spec` of `ThreadPrograms`, for any number of ticks
and controls, under `ConstantsAssumption`). `QueueInv` says, for every position
of Run, which messages are posted and which object is alive. `ApcInv` says that
what was scheduled is the numbers in order, that what ran is its beginning and
what waits is the rest (`JobsInv`), and that the exit event is open while the
worker may look at it (`WorkerInv`). `ServiceInv` splits on how far SvcMain has
come (`EarlyInv`, `LateInv`, `AloneInv`) and relates the check points of the
reports sent, of the record half filled in and of the counter
(`CheckPointInv`). `AddressInv` ties the value to the setter's progress, and
`ProgressInv` the three flags of progress-bar to the task's place and to what the
user did. WinsockCoroutineJunie's `HandlersInv` says where each connection is (not
accepted, in the packet of the accept, with its handler, or over), and `EchoInv`
that what came back, what is on its way back, in the handler's hands and on its way
there are consecutive parts of the message, unless the connection was reset, and
nothing before the send: `EchoCorrect`, for every message (a sequence of numbers)
and any visitors. `RecordInv` adds to the service's invariant that no status is
handed over before a report wrote one; `TypesCorrect` takes the types of the six
programs from all of these. `StoppedStands`, a part of `ReportsInOrder`, holds because a
handler that could overwrite Stopped is an overlap; that needs `AloneInv`.

**SspiHandshakeProofs** (`Spec` of `SspiHandshake`, for any number of clients and
any conversations, under `SspiAssumption`). `ServerInv` gives what the server
holds at each position; the context goes back at the end of the loop's body
only because the server has called the package by then. `DoneInv` bounds the
calls made by a side that was told it is done; it is preserved when `Completes`
is FALSE, the only place where that matters, and `SessionCorrect` assumes so, as
do the theorems that rest on it. `StreamInv` is about each connection as a whole:
what a process has still to read is what it has received of the current part, what
is on its way and what the other has not sent yet, in that order; whose turn it is
follows from the number of calls both have made; and the units say what they are
part of. `TokensStayWhole` and `MessageArrives` look at one read at a time and are
not inductive: only the whole of the stream says what the next unit is.
(`TokensCorrect`, `MessagesCorrect`.) `RestInv` bounds the calls by the tokens,
which is what the types of the pending bytes and of the handles need
(`TypesCorrect`).

**Induction over data.** The induction theorems of the library take an operator as
a parameter, which the provers here cannot instantiate. Where the property of the
numbers can be written as a plain set, `WFMin` gives the least element outside it:
`SetInduction` of `TransportProofs`. With it the lemmas on `FlattenSeq` and on
the walk of `Ring`, both recursive functions, are proved.

**CallSequenceProofs** (`Spec` of `CallSequence`, for every table). `TypesCorrect` needs
only that rows are rows and jumps stay in their program (`CallsAssumption`, which TLC
evaluates for the tables of the repository). What a program owns and gives back is a
matter of its rows, not of their shape; it is not proved.

**Only model-checked.** All liveness properties (TLAPS does not reason about
fairness and ENABLED): `StopTerminates`, `ItemsAreConsumed`, `ProgramsEnd`,
`ProcessesEnd`, `CallsReturn`, `DepartedAreForgotten` and `ClientEnds`. And the rules
of the tables, `OnlyHeld`, `InnerGoesFirst` and `NothingLeftBehind`: the tables are
constants, and `handle_programs` follows every success and failure of every row of
them without a bound, so that a proof would only repeat the enumeration. Every other
invariant a run checks is also stated by a theorem.

## Plan

What is left, most useful first:

1. `WindowLifetime` (win32-ui, win32-ui-controls, ui-callbacks): C++ objects bound
   to windows by user data and destroyed by message, as a module of its own beside
   `ProgressWindow`.
2. `Layout` (layout-demo): the anchor and box arithmetic as operators, checked
   against a declarative definition over small windows.
3. `ApcThreads` (Win32Threads/threads-apc.ixx), should something come to call it:
   exit against queued calls, an object destroyed under its thread.

Programs that are small enough join `ThreadPrograms`, `StreamPrograms` or one of the
tables.

Worth proving next are abstract specifications: the list of XSocket as a FIFO of
bytes, and the pipe programs as one of messages.

## Not modelled

* Programs that make one call or print (AskingForCredentials, CreateGuid, Hello,
  PowerShell, Random, UserProcess, formatting of dates, cases and errors): no state
  of their own and nothing that can fail in the middle. Detours' main runs one
  transaction and then ends by an access violation on purpose.
* Window samples (win32-ui, win32-ui-controls, ui-callbacks, win32-dialogs,
  layout-demo): one thread and one message loop each, with objects that live as long
  as `wWinMain`; what they paint and where is not state.
* Code that nothing calls: SspiClientServer's client, Win32Threads/threads-apc.ixx,
  SmallPipes' `AsyncRead`, the rewrite of XSocket's list in misc.ixx.
* Libraries of exported print functions, re-exports of names (`Win32`,
  `StdLib`), formatting.
* Generated and third-party code: the MIDL output of basic-com, protobuf output
  of WebSocketProto, `vcpkg_installed`.
* In modelled programs: logging and text, the service's install and uninstall
  commands, `VerifyThis` and `PrintHexDump` of the SSPI samples, the killing
  of the SSPI server in mid-message (a broken connection is modelled), and failures
  the code does not look at and that change nothing it keeps (`WSACleanup` at the
  client's end, `RevertToSelf` in the service, whose thread would go on as the user).
