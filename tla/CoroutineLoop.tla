---------------------------- MODULE CoroutineLoop ----------------------------
(* WinsockCoroutineJunie/main.cpp: one thread runs an accept loop, a handler *)
(* for every connection and a client, all coroutines that are resumed from   *)
(* one completion port until the client has finished and set g_stop. That a  *)
(* socket cannot be registered with the port, which is printed and forgotten *)
(* (nobody would ever be resumed), is left out.                              *)
(* A step of the thread is what it does between two calls of                 *)
(* GetQueuedCompletionStatus. No buffer of 1024 is ever full.                *)
EXTENDS Integers, SequencesExt

CONSTANTS
    Message,    \* what the client sends
    Visitors    \* other programs that connect to the port

LoopAssumption ==
    /\ Message \in Seq(Nat) /\ Message # <<>>
    /\ Visitors \cap {"own", "server", "client"} = {}

Conns == {"own"} \cup Visitors
Handlers == Conns                       \* a handler is named by its connection
Coroutines == {"server", "client"} \cup Handlers
Sides == Conns \X {"here", "there"}     \* the two ends of a connection

VARIABLES
    main,       \* "start", "loop" or "ended"
    g_stop,
    at,         \* what a coroutine is suspended on; "none" before, "ended" after
    op,         \* the operation under way: "none", "pending" or its result
    listening,  \* listenSock accepts connections
    link,       \* each connection: "none", "queued" or "accepted"
    wire,       \* the bytes on their way to each end
    sending,    \* the bytes of the WSASend under way
    shut,       \* the ends that were closed
    reset,      \* the connections that were reset
    echo        \* what the client received

vars == <<main, g_stop, at, op, listening, link, wire, sending, shut, reset, echo>>
network == <<listening, link, wire, shut, reset>>

Nothing == [bytes |-> <<>>, error |-> FALSE, sock |-> "none"]
Under(how) == [state |-> how, result |-> Nothing]
Packet(r) == [state |-> "done", result |-> r]

Init ==
    /\ main = "start" /\ g_stop = FALSE
    /\ at = [k \in Coroutines |-> "none"]
    /\ op = [k \in Coroutines |-> Under("none")]
    /\ listening = FALSE
    /\ link = [c \in Conns |-> "none"]
    /\ wire = [e \in Sides |-> <<>>]
    /\ sending = [k \in Coroutines |-> <<>>]
    /\ shut = {} /\ reset = {} /\ echo = <<>>

-------------------------------------------------------------------------------
End(k) == IF k = "client" THEN <<"own", "there">> ELSE <<k, "here">>
Peer(e) == <<e[1], IF e[2] = "here" THEN "there" ELSE "here">>

(* The connections that are reset, with what was on its way.                 *)
Resets(cs) ==
    /\ reset' = reset \cup cs
    /\ wire' = [e \in Sides |-> IF e[1] \in reset' THEN <<>> ELSE wire[e]]

(* closesocket: bytes that were not read make it a reset.                    *)
Closes(e) ==
    /\ shut' = shut \cup {e}
    /\ Resets(IF wire[e] # <<>> THEN {e[1]} ELSE {})

(* A call that may fail at once: the coroutine is suspended, or it breaks,   *)
(* closes its socket and ends.                                               *)
Awaits(k, kind) ==
    /\ at' = [at EXCEPT ![k] = kind]
    /\ op' = [op EXCEPT ![k] = Under("pending")]
    /\ UNCHANGED <<shut, reset, wire>>

(* Seeded fault: who breaks out of its loop leaves its socket open.          *)
Breaks_Fault(k) ==
    /\ at' = [at EXCEPT ![k] = "ended"]
    /\ op' = [op EXCEPT ![k] = Under("none")]
    /\ UNCHANGED <<shut, reset, wire>>

Breaks(k) ==
    /\ at' = [at EXCEPT ![k] = "ended"]
    /\ op' = [op EXCEPT ![k] = Under("none")]
    /\ Closes(End(k))

(* GetQueuedCompletionStatus gives the packet of what k waits for.           *)
Resumes(k, kind) ==
    main = "loop" /\ ~g_stop /\ at[k] = kind /\ op[k].state = "done"

-------------------------------------------------------------------------------
(* The set-up of main, then Server::Run and Client::Run up to where each     *)
(* waits; a server that cannot listen or accept leaves, and so does a client *)
(* that cannot connect.                                                      *)
Start ==
    /\ main = "start"
    /\ \/ main' = "ended" /\ UNCHANGED <<at, op, listening>>
       \/ \E accepts, connects \in BOOLEAN :
            LET waits == (IF accepts THEN {"server"} ELSE {})
                           \cup (IF connects THEN {"client"} ELSE {})
            IN  /\ main' = "loop"
                /\ listening' = accepts
                /\ at' = [at EXCEPT
                            !["server"] = IF accepts THEN "accept" ELSE "ended",
                            !["client"] = IF connects THEN "connect" ELSE "ended"]
                /\ op' = [k \in Coroutines |->
                            IF k \in waits THEN Under("pending") ELSE op[k]]
    /\ UNCHANGED <<g_stop, link, wire, sending, shut, reset, echo>>

(* A connection was accepted, or could not be, which nobody looks at:        *)
(* HandleClient runs until it waits for bytes, or breaks; then the server    *)
(* accepts again, or closes the listening socket, with which everyone who is *)
(* still in its queue is reset. g_stop is not set here: who sets it is the   *)
(* last coroutine the loop resumes.                                          *)
ServerAccepted ==
    /\ Resumes("server", "accept")
    /\ LET r == op["server"].result
           handler == r.sock
       IN  \E receives, accepts \in BOOLEAN :
            LET dropped == IF accepts THEN {} ELSE {c \in Conns : link[c] = "queued"}
                unread == IF wire[End(handler)] # <<>> THEN {handler} ELSE {}
            IN  /\ receives => ~r.error
                /\ at' = [at EXCEPT
                            ![handler] = IF receives THEN "recv" ELSE "ended",
                            !["server"] = IF accepts THEN "accept" ELSE "ended"]
                /\ op' = [op EXCEPT
                            ![handler] = Under(IF receives THEN "pending" ELSE "none"),
                            !["server"] = Under(IF accepts THEN "pending" ELSE "none")]
                /\ listening' = accepts
                /\ shut' = IF receives THEN shut ELSE shut \cup {End(handler)}
                /\ Resets(dropped \cup IF receives THEN {} ELSE unread)
    /\ UNCHANGED <<main, g_stop, link, sending, echo>>

HandlerReceived(c) ==
    /\ Resumes(c, "recv")
    /\ LET r == op[c].result
       IN  \/ /\ r.bytes # <<>> /\ ~r.error
              /\ Awaits(c, "send")
              /\ sending' = [sending EXCEPT ![c] = r.bytes]
           \/ Breaks(c) /\ UNCHANGED sending
    /\ UNCHANGED <<main, g_stop, listening, link, echo>>

(* Whether the bytes were sent nobody looks at.                              *)
HandlerSent(c) ==
    /\ Resumes(c, "send")
    /\ Awaits(c, "recv") \/ Breaks(c)
    /\ UNCHANGED <<main, g_stop, listening, link, sending, echo>>

ClientConnected ==
    /\ Resumes("client", "connect")
    /\ \/ /\ ~op["client"].result.error
          /\ Awaits("client", "send")
          /\ sending' = [sending EXCEPT !["client"] = Message]
       \/ Breaks("client") /\ UNCHANGED sending
    /\ UNCHANGED <<main, g_stop, listening, link, echo>>

ClientSent ==
    /\ Resumes("client", "send")
    /\ Awaits("client", "recv") \/ Breaks("client")
    /\ UNCHANGED <<main, g_stop, listening, link, sending, echo>>

(* What one receive gave is the echo, be it part of it, nothing or an error. *)
ClientReceived ==
    /\ Resumes("client", "recv")
    /\ echo' = op["client"].result.bytes
    /\ Breaks("client")
    /\ g_stop' = TRUE
    /\ UNCHANGED <<main, listening, link, sending>>

(* Whoever still waits is left to the end of the process.                    *)
MainLeaves ==
    /\ main = "loop" /\ g_stop
    /\ main' = "ended"
    /\ UNCHANGED <<g_stop, at, op, sending, echo, network>>

ThreadStep ==
    \/ ServerAccepted \/ ClientConnected \/ ClientSent \/ ClientReceived \/ MainLeaves
    \/ \E c \in Handlers : HandlerReceived(c) \/ HandlerSent(c)

-------------------------------------------------------------------------------
(* The network completes what is under way, as it pleases.                   *)
Completes(k, kind, r) ==
    /\ main = "loop"
    /\ at[k] = kind /\ op[k].state = "pending"
    /\ op' = [op EXCEPT ![k] = Packet(r)]
    /\ UNCHANGED <<main, g_stop, at, sending, echo>>

Failed == [Nothing EXCEPT !.error = TRUE]

CompletesConnect ==
    \/ /\ listening
       /\ Completes("client", "connect", Nothing)
       /\ link' = [link EXCEPT !["own"] = "queued"]
       /\ UNCHANGED <<listening, wire, shut, reset>>
    \/ Completes("client", "connect", Failed) /\ UNCHANGED network

CompletesAccept ==
    \E c \in Conns, failed \in BOOLEAN :
        /\ link[c] = "queued"
        /\ Completes("server", "accept", [Nothing EXCEPT !.sock = c, !.error = failed])
        /\ link' = [link EXCEPT ![c] = "accepted"]
        /\ Resets(IF failed THEN {c} ELSE {})
        /\ UNCHANGED <<listening, shut>>

CompletesRecv(k) ==
    \/ \E n \in 1..Len(wire[End(k)]) :
        /\ Completes(k, "recv", [Nothing EXCEPT !.bytes = SubSeq(wire[End(k)], 1, n)])
        /\ wire' = [wire EXCEPT ![End(k)] = SubSeq(@, n + 1, Len(@))]
        /\ UNCHANGED <<listening, link, shut, reset>>
    \/ /\ wire[End(k)] = <<>>
       /\ End(k)[1] \in reset \/ Peer(End(k)) \in shut
       /\ Completes(k, "recv", [Nothing EXCEPT !.error = End(k)[1] \in reset])
       /\ UNCHANGED network

(* Bytes for an end that is closed are answered by a reset.                  *)
CompletesSend(k) ==
    \/ /\ End(k)[1] \notin reset
       /\ Completes(k, "send", Nothing)
       /\ IF Peer(End(k)) \in shut THEN Resets({End(k)[1]})
          ELSE /\ wire' = [wire EXCEPT ![Peer(End(k))] = @ \o sending[k]]
               /\ UNCHANGED reset
       /\ UNCHANGED <<listening, link, shut>>
    \/ End(k)[1] \in reset /\ Completes(k, "send", Failed) /\ UNCHANGED network

KernelStep(k) ==
    \/ k = "server" /\ CompletesAccept
    \/ k = "client" /\ CompletesConnect
    \/ k # "server" /\ (CompletesRecv(k) \/ CompletesSend(k))

(* A visitor connects, sends a byte or not, and closes or not; any           *)
(* connection may break.                                                     *)
VisitorConnects(c) ==
    /\ main = "loop" /\ listening /\ link[c] = "none"
    /\ link' = [link EXCEPT ![c] = "queued"]
    /\ \/ UNCHANGED wire
       \/ wire' = [wire EXCEPT ![<<c, "here">>] = <<"byte">>]
    /\ UNCHANGED <<main, g_stop, at, op, listening, sending, shut, reset, echo>>

VisitorCloses(c) ==
    /\ main = "loop" /\ link[c] # "none" /\ <<c, "there">> \notin shut
    /\ Closes(<<c, "there">>)
    /\ UNCHANGED <<main, g_stop, at, op, listening, link, sending, echo>>

ConnectionBreaks(c) ==
    /\ main = "loop" /\ link[c] # "none" /\ c \notin reset
    /\ Resets({c})
    /\ UNCHANGED <<main, g_stop, at, op, listening, link, sending, shut, echo>>

Next ==
    \/ Start \/ ThreadStep
    \/ \E k \in Coroutines : KernelStep(k)
    \/ \E c \in Visitors : VisitorConnects(c) \/ VisitorCloses(c)
    \/ \E c \in Conns : ConnectionBreaks(c)

(* The thread runs on and what the network can complete it completes.        *)
Fairness == WF_vars(ThreadStep) /\ \A k \in Coroutines : WF_vars(KernelStep(k))

Spec == Init /\ [][Next]_vars /\ Fairness

-------------------------------------------------------------------------------
(* Every variable keeps its type. *)
TypeOK ==
    /\ main \in {"start", "loop", "ended"} /\ g_stop \in BOOLEAN
    /\ \A k \in Coroutines :
         /\ at[k] \in {"none", "accept", "connect", "recv", "send", "ended"}
         /\ op[k].state \in {"none", "pending", "done"}
    /\ link \in [Conns -> {"none", "queued", "accepted"}]
    /\ DOMAIN wire = Sides /\ shut \subseteq Sides /\ reset \subseteq Conns

(* Who answers for a connection. While the loop runs, one that was accepted  *)
(* is in the packet the server has still to take or has a handler, which is  *)
(* suspended on an operation until it closes its end; one that was not, or   *)
(* was closed, has none. Nobody is left in the queue of a server that ended. *)
(* And the loop is left only by a client that has ended.                     *)
HandlerPerConnection ==
    /\ \A c \in Conns :
         LET taken == at["server"] = "accept" /\ op["server"].state = "done"
                      /\ op["server"].result.sock = c
         IN  /\ link[c] = "accepted" /\ End(c) \notin shut
                  <=> taken \/ (at[c] \in {"recv", "send"} /\ op[c].state # "none")
             /\ link[c] = "queued" => listening \/ c \in reset
    /\ g_stop => at["client"] = "ended" /\ End("client") \in shut

(* What the client takes for the echo is the beginning of what it sent,      *)
(* however the bytes were cut on the way there and back.                     *)
EchoIsPrefix == IsPrefix(echo, Message)

(* A client that tried to connect ends, refused, cut off, or with an echo,   *)
(* and main with the client that got as far as that.                         *)
ClientEnds ==
    at["client"] = "connect" ~> at["client"] = "ended" /\ (g_stop => main = "ended")

(* Until main leaves, the handler of a connection that is over ends and      *)
(* closes its end.                                                           *)
HandlersEnd ==
    \A c \in Conns :
        link[c] = "accepted" /\ (c \in reset \/ Peer(End(c)) \in shut)
            ~> End(c) \in shut \/ main = "ended"
===============================================================================
