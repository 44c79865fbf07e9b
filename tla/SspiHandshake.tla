---------------------------- MODULE SspiHandshake ----------------------------
(***************************************************************************)
(* OldSspiSample (the client) and OldSspiSampleServer: a TCP connection    *)
(* whose two ends pass the tokens of a security package to each other      *)
(* until both calls of the package say the context is complete, after      *)
(* which the server sends one encrypted message and closes.                *)
(*                                                                         *)
(* A token travels as its size, a DWORD, followed by its bytes; send and   *)
(* recv move any part of what is asked.  The encrypted message travels     *)
(* bare: the size of its trailer, the trailer, the data, and the end of    *)
(* the stream.  A byte on the wire is a unit that says what it is part of. *)
(*                                                                         *)
(* The package (Negotiate) is external: a conversation takes some number   *)
(* of tokens, the odd ones made by the client's calls.                     *)
(***************************************************************************)
EXTENDS Naturals, Sequences, FiniteSets

CONSTANTS
    Clients,        \* the runs of the client program
    Server,         \* the server process
    None,           \* no client
    MaxTokens,      \* a conversation takes at most this many tokens
    MaxTrailer,     \* cbSecurityTrailer, the most a trailer takes
    SockBuf,        \* units a connection holds in one direction
    Completes       \* whether the package asks for CompleteAuthToken

ASSUME SspiAssumption ==
    /\ IsFiniteSet(Clients) /\ Server \notin Clients
    /\ None \notin Clients /\ None # Server
    /\ MaxTokens \in Nat \ {0} /\ MaxTrailer \in Nat \ {0}
    /\ SockBuf \in Nat \ {0}
    /\ Completes \in BOOLEAN

Procs == Clients \union {Server}

DWORD    == 2                       \* sizeof(DWORD), in units
DataLen  == 2                       \* cbMessage
BIG_BUFF == DWORD + MaxTrailer + DataLen + 1

VARIABLES
    tokens,     \* the number of tokens of each client's conversation
    pc,         \* where each process is
    calls,      \* calls of the package each process has made
    fDone,      \* its fDone / done
    out,        \* units still to be sent by SendBytes
    inq,        \* units received by the current ReceiveBytes
    cbData,     \* the size read by ReceiveMsg
    net,        \* units on their way: net[c]["up"], net[c]["down"]
    conn,       \* each client's connection: none, queued, accepted, reset
    isOpen,     \* whether each process still holds its socket of connection c
    serving,    \* the client whose connection the server holds, or None
    creds,      \* credential handles held
    ctxts,      \* security contexts held
    asClient,   \* the server's thread impersonates its client
    plain       \* what each client has printed as the message, or None

vars == <<tokens, pc, calls, fDone, out, inq, cbData, net, conn, isOpen,
          serving, creds, ctxts, asClient, plain>>

ioVars   == <<out, inq, cbData, net>>
secVars  == <<calls, fDone, creds, ctxts>>
linkVars == <<conn, isOpen, serving>>

-----------------------------------------------------------------------------
(* Units and frames.                                                       *)

Unit(k, v, i) == [kind |-> k, val |-> v, at |-> i]
Run(k, v, n)  == [i \in 1..n |-> Unit(k, v, i)]

TokenLen(t) == 1 + (t % 2)
Body(t)     == Run("token", t, TokenLen(t))

\* SendMsg(token t): nothing at all for an empty one.
SendMsg(t, last) ==
    IF t > last THEN <<>> ELSE Run("size", TokenLen(t), DWORD) \o Body(t)

(* Seeded fault: the size written is the room asked for, not the trailer.  *)
EncryptThis_Fault(a) ==
    Run("size", MaxTrailer, DWORD) \o Run("trailer", a, a)
      \o Run("data", 1, DataLen)

\* EncryptThis with a trailer of a units.
EncryptThis(a) ==
    Run("size", a, DWORD) \o Run("trailer", a, a) \o Run("data", 1, DataLen)

\* DecryptThis: the data starts after the DWORD and as many units as it says;
\* cbMessage is what remains of the units received.
DecryptThis(buf) == SubSeq(buf, DWORD + buf[1].val + 1, Len(buf))

\* DecryptMessage, in place.
DecryptMessage(data) == [i \in DOMAIN data |-> [data[i] EXCEPT !.kind = "plain"]]

\* What DecryptThis returns a pointer to: it reports a failure of DecryptMessage
\* and returns the same place, where the data is then still encrypted.
Decrypted(buf) == {DecryptMessage(DecryptThis(buf)), DecryptThis(buf)}

-----------------------------------------------------------------------------
(* The package, and what the two Gen...Context functions make of it.       *)

Peer(p)  == IF p = Server THEN serving ELSE p
Last(p)  == tokens[Peer(p)]

\* The token a call receives, and the one it produces.
TokenIn(p)  == IF p = Server THEN 2 * calls[p] + 1 ELSE 2 * calls[p]
TokenOut(p) == TokenIn(p) + 1

\* The package waits for another token after this call.
Expects(p) == TokenOut(p) < Last(p)

Statuses(p) ==
    IF Expects(p)
    THEN {"continue"} \union (IF Completes THEN {"completeAndContinue"} ELSE {})
    ELSE {"ok"} \union (IF Completes THEN {"completeNeeded"} ELSE {})

\* ss after the call of CompleteAuthToken, whose result replaces it.
AfterComplete(ss) ==
    IF ss \in {"completeNeeded", "completeAndContinue"} THEN "ok" ELSE ss

(* Seeded fault: a status that asks for another token is not looked for.   *)
Done_Fault(p, ss) == AfterComplete(ss) # "completeAndContinue"

\* *pfDone.
Done(p, ss) == AfterComplete(ss) \notin {"continue", "completeAndContinue"}

-----------------------------------------------------------------------------
Init ==
    /\ tokens \in [Clients -> 1..MaxTokens]
    /\ pc = [p \in Procs |-> IF p = Server THEN "listen" ELSE "start"]
    /\ calls = [p \in Procs |-> 0]
    /\ fDone = [p \in Procs |-> FALSE]
    /\ out = [p \in Procs |-> <<>>]
    /\ inq = [p \in Procs |-> <<>>]
    /\ cbData = [p \in Procs |-> 0]
    /\ net = [c \in Clients |-> [d \in {"up", "down"} |-> <<>>]]
    /\ conn = [c \in Clients |-> "none"]
    /\ isOpen = [c \in Clients |-> {}]
    /\ serving = None
    /\ creds = [p \in Procs |-> 0]
    /\ ctxts = [p \in Procs |-> 0]
    /\ asClient = FALSE
    /\ plain = [c \in Clients |-> None]

Goto(p, l) == pc' = [pc EXCEPT ![p] = l]

-----------------------------------------------------------------------------
(* SendBytes and ReceiveBytes.                                             *)

Outward(p) == IF p = Server THEN "down" ELSE "up"
Inward(p)  == IF p = Server THEN "up" ELSE "down"
Others(p)  == IF p = Server THEN {serving} ELSE {Server}

PeerHere(p) == conn[Peer(p)] # "reset" /\ Others(p) \subseteq isOpen[Peer(p)]

Sending == {"send", "sendData"}

\* Where DoAuthentication, or the server's main, goes on once all is sent.
AfterSend(p, done) ==
    CASE pc[p] = "sendData" -> "finish"
      [] pc[p] # "sendData" /\ ~done -> "size"
      [] pc[p] # "sendData" /\ done -> IF p = Server THEN "session"
                                                     ELSE "message"

\* send takes some of what is left; what it takes for a peer that has gone
\* reaches nobody.
SendBytes(p) ==
    /\ pc[p] \in Sending /\ out[p] # <<>>
    /\ LET d    == Outward(p)
           room == IF PeerHere(p) THEN SockBuf - Len(net[Peer(p)][d]) ELSE SockBuf
       IN \E n \in 1..Len(out[p]) :
            /\ n <= room
            /\ out' = [out EXCEPT ![p] = SubSeq(@, n + 1, Len(@))]
            /\ net' = IF PeerHere(p)
                      THEN [net EXCEPT ![Peer(p)][d] = @ \o SubSeq(out[p], 1, n)]
                      ELSE net
            /\ Goto(p, IF n < Len(out[p]) THEN pc[p] ELSE AfterSend(p, fDone[p]))
    /\ inq' = [inq EXCEPT ![p] = <<>>]
    /\ UNCHANGED <<tokens, cbData, secVars, linkVars, asClient, plain>>

Receiving == {"size", "body", "message"}

\* The cbBuf of the ReceiveBytes under way.
Wanted(p) == CASE pc[p] = "size"    -> DWORD
               [] pc[p] = "body"    -> cbData[p]
               [] pc[p] = "message" -> BIG_BUFF

\* What ReceiveMsg, or the client's main, does with a full buffer.
Received(p, buf) ==
    CASE pc[p] = "size"    -> /\ Goto(p, IF buf[1].val = 0 THEN "gen" ELSE "body")
                              /\ cbData' = [cbData EXCEPT ![p] = buf[1].val]
                              /\ inq' = [inq EXCEPT ![p] = <<>>]
      [] pc[p] = "body"    -> /\ Goto(p, "gen")
                              /\ inq' = [inq EXCEPT ![p] = buf]
                              /\ UNCHANGED cbData
      [] pc[p] = "message" -> /\ Goto(p, "decrypt")
                              /\ inq' = [inq EXCEPT ![p] = buf]
                              /\ UNCHANGED cbData

(* Seeded fault: one recv is taken for the whole body of a token.          *)
ReceiveBytes_Fault(p) ==
    /\ pc[p] \in Receiving
    /\ LET c  == Peer(p)
           d  == Inward(p)
       IN \E n \in 1..Len(net[c][d]) :
            /\ Len(inq[p]) + n <= Wanted(p)
            /\ net' = [net EXCEPT ![c][d] = SubSeq(@, n + 1, Len(@))]
            /\ LET buf == inq[p] \o SubSeq(net[c][d], 1, n)
               IN  IF pc[p] = "body" \/ Len(buf) = Wanted(p) THEN Received(p, buf)
                   ELSE inq' = [inq EXCEPT ![p] = buf] /\ UNCHANGED <<pc, cbData>>
    /\ UNCHANGED <<tokens, out, secVars, linkVars, asClient, plain>>

\* recv gives some of what has arrived, never more than is still wanted.
ReceiveBytes(p) ==
    /\ pc[p] \in Receiving
    /\ LET c  == Peer(p)
           d  == Inward(p)
       IN \E n \in 1..Len(net[c][d]) :
            /\ Len(inq[p]) + n <= Wanted(p)
            /\ net' = [net EXCEPT ![c][d] = SubSeq(@, n + 1, Len(@))]
            /\ LET buf == inq[p] \o SubSeq(net[c][d], 1, n)
               IN  IF Len(buf) = Wanted(p) THEN Received(p, buf)
                   ELSE inq' = [inq EXCEPT ![p] = buf] /\ UNCHANGED <<pc, cbData>>
    /\ UNCHANGED <<tokens, out, secVars, linkVars, asClient, plain>>

-----------------------------------------------------------------------------
(* Ends of processes.  exit closes the sockets and frees what the process  *)
(* holds; the connections still in the listening socket's queue are reset. *)

ResetQueue == [c \in Clients |-> IF conn[c] = "queued" THEN "reset" ELSE conn[c]]

\* What the memory of a process that has ended held.
Forget(p) ==
    /\ out' = [out EXCEPT ![p] = <<>>]
    /\ inq' = [inq EXCEPT ![p] = <<>>]
    /\ cbData' = [cbData EXCEPT ![p] = 0]
    /\ calls' = [calls EXCEPT ![p] = 0]
    /\ fDone' = [fDone EXCEPT ![p] = FALSE]
    /\ creds' = [creds EXCEPT ![p] = 0]
    /\ ctxts' = [ctxts EXCEPT ![p] = 0]

\* MyHandleError.
MyHandleError(c) ==
    /\ Goto(c, "failed")
    /\ Forget(c)
    /\ isOpen' = [isOpen EXCEPT ![c] = @ \ {c}]
    /\ UNCHANGED <<tokens, net, conn, serving, asClient, plain>>

\* cleanup (or the two exit(1) of main).
cleanup ==
    /\ Goto(Server, "down")
    /\ Forget(Server)
    /\ isOpen' = [c \in Clients |-> isOpen[c] \ {Server}]
    /\ conn' = ResetQueue
    /\ serving' = None
    /\ asClient' = FALSE
    /\ UNCHANGED <<tokens, net, plain>>

\* The network breaks a connection: whatever was on its way is lost and the
\* calls of both ends fail.
ConnectionBreaks(c) ==
    /\ conn[c] = "accepted" /\ isOpen[c] # {}
    /\ conn' = [conn EXCEPT ![c] = "reset"]
    /\ net' = [net EXCEPT ![c] = [d \in {"up", "down"} |-> <<>>]]
    /\ UNCHANGED <<tokens, pc, secVars, out, inq, cbData, isOpen, serving,
                   asClient, plain>>

\* A call of the system or the package fails; send only when the peer is gone,
\* and QueryContextAttributes before anything of the message is received.
ClientFails(c) ==
    /\ \/ pc[c] \in {"start", "auth", "gen"}
       \/ pc[c] = "message" /\ inq[c] = <<>>
       \/ pc[c] \in Sending /\ ~PeerHere(c)
    /\ MyHandleError(c)

ServerFails ==
    /\ \/ pc[Server] \in {"listen", "accept", "closeListen", "gen", "session", "name"}
       \/ pc[Server] \in Sending /\ ~PeerHere(Server)
    /\ cleanup

\* recv returns 0, the peer having closed: too early in ReceiveMsg, and the end
\* of the message in the client's main, which refuses an empty one.
StreamEnded(p) ==
    /\ pc[p] \in Receiving
    /\ ~PeerHere(p) /\ net[Peer(p)][Inward(p)] = <<>>

ClientStreamEnds(c) ==
    /\ StreamEnded(c)
    /\ IF pc[c] = "message" /\ inq[c] # <<>> /\ conn[c] # "reset"
       THEN /\ Goto(c, "decrypt")
            /\ UNCHANGED <<tokens, calls, fDone, ioVars, linkVars, creds, ctxts,
                           asClient, plain>>
       ELSE MyHandleError(c)

ServerStreamEnds == StreamEnded(Server) /\ cleanup

-----------------------------------------------------------------------------
(* The client: main, ConnectAuthSocket, DoAuthentication.                  *)

\* The server listens with a backlog of one.
ConnectAuthSocket(c) ==
    /\ pc[c] = "start"
    /\ pc[Server] \in {"accept", "closeListen"}
    /\ \A x \in Clients : conn[x] # "queued"
    /\ conn' = [conn EXCEPT ![c] = "queued"]
    /\ isOpen' = [isOpen EXCEPT ![c] = {c, Server}]
    /\ Goto(c, "auth")
    /\ UNCHANGED <<tokens, secVars, ioVars, serving, asClient, plain>>

(* Seeded fault: the last token is made and not sent.                      *)
GenClientContext_Fault(c) ==
    /\ pc[c] \in {"auth", "gen"}
    /\ \E ss \in Statuses(c) :
         LET msg == IF Done(c, ss) THEN <<>> ELSE SendMsg(TokenOut(c), Last(c))
         IN  /\ fDone' = [fDone EXCEPT ![c] = Done(c, ss)]
             /\ out' = [out EXCEPT ![c] = msg]
             /\ Goto(c, IF msg = <<>> THEN AfterSend(c, fDone'[c]) ELSE "send")
    /\ calls' = [calls EXCEPT ![c] = @ + 1]
    /\ creds' = [creds EXCEPT ![c] = IF pc[c] = "auth" THEN @ + 1 ELSE @]
    /\ ctxts' = [ctxts EXCEPT ![c] = IF pc[c] = "auth" THEN @ + 1 ELSE @]
    /\ inq' = [inq EXCEPT ![c] = <<>>]
    /\ UNCHANGED <<tokens, cbData, net, linkVars, asClient, plain>>

\* GenClientContext: the first call acquires the credentials and makes the
\* context; every call leaves a token to be sent, perhaps an empty one.
GenClientContext(c) ==
    /\ pc[c] \in {"auth", "gen"}
    /\ \E ss \in Statuses(c) :
         LET msg == SendMsg(TokenOut(c), Last(c))
         IN  /\ fDone' = [fDone EXCEPT ![c] = Done(c, ss)]
             /\ out' = [out EXCEPT ![c] = msg]
             /\ Goto(c, IF msg = <<>> THEN AfterSend(c, fDone'[c]) ELSE "send")
    /\ calls' = [calls EXCEPT ![c] = @ + 1]
    /\ creds' = [creds EXCEPT ![c] = IF pc[c] = "auth" THEN @ + 1 ELSE @]
    /\ ctxts' = [ctxts EXCEPT ![c] = IF pc[c] = "auth" THEN @ + 1 ELSE @]
    /\ inq' = [inq EXCEPT ![c] = <<>>]
    /\ UNCHANGED <<tokens, cbData, net, linkVars, asClient, plain>>

(* Seeded fault: the context is deleted a second time.                    *)
ClientMain_Fault(c) ==
    /\ pc[c] = "decrypt"
    /\ \E m \in Decrypted(inq[c]) : plain' = [plain EXCEPT ![c] = m]
    /\ ctxts' = [ctxts EXCEPT ![c] = @ - 2]
    /\ isOpen' = [isOpen EXCEPT ![c] = @ \ {c}]
    /\ Goto(c, "exit")
    /\ UNCHANGED <<tokens, calls, fDone, ioVars, conn, serving, creds, asClient>>

\* The end of main.  FreeCredentialHandle is given main's own hCred, which
\* nothing has set: the credentials are in the global one.
ClientMain(c) ==
    /\ pc[c] = "decrypt"
    /\ \E m \in Decrypted(inq[c]) : plain' = [plain EXCEPT ![c] = m]
    /\ ctxts' = [ctxts EXCEPT ![c] = @ - 1]
    /\ isOpen' = [isOpen EXCEPT ![c] = @ \ {c}]
    /\ Goto(c, "exit")
    /\ UNCHANGED <<tokens, calls, fDone, ioVars, conn, serving, creds, asClient>>

-----------------------------------------------------------------------------
(* The server: main, AcceptAuthSocket, DoAuthentication.                   *)

Listen ==
    /\ pc[Server] = "listen"
    /\ Goto(Server, "accept")
    /\ UNCHANGED <<tokens, secVars, ioVars, linkVars, asClient, plain>>

Accept ==
    /\ pc[Server] = "accept"
    /\ \E c \in Clients :
         /\ conn[c] = "queued"
         /\ conn' = [conn EXCEPT ![c] = "accepted"]
         /\ serving' = c
    /\ Goto(Server, "closeListen")
    /\ UNCHANGED <<tokens, secVars, ioVars, isOpen, asClient, plain>>

\* closesocket(sockListen), then AcquireCredentialsHandle and the first
\* ReceiveMsg of a new conversation.
CloseListen ==
    /\ pc[Server] = "closeListen"
    /\ conn' = ResetQueue
    /\ creds' = [creds EXCEPT ![Server] = @ + 1]
    /\ fDone' = [fDone EXCEPT ![Server] = FALSE]
    /\ inq' = [inq EXCEPT ![Server] = <<>>]
    /\ Goto(Server, "size")
    /\ UNCHANGED <<tokens, calls, out, cbData, net, isOpen, serving, ctxts, asClient,
                   plain>>

GenServerContext ==
    /\ pc[Server] = "gen"
    /\ \E ss \in Statuses(Server) :
         LET msg == SendMsg(TokenOut(Server), Last(Server))
         IN  /\ fDone' = [fDone EXCEPT ![Server] = Done(Server, ss)]
             /\ out' = [out EXCEPT ![Server] = msg]
             /\ Goto(Server, IF msg = <<>> THEN AfterSend(Server, fDone'[Server])
                                           ELSE "send")
    /\ calls' = [calls EXCEPT ![Server] = @ + 1]
    /\ ctxts' = [ctxts EXCEPT ![Server] = IF calls[Server] = 0 THEN @ + 1 ELSE @]
    /\ inq' = [inq EXCEPT ![Server] = <<>>]
    /\ UNCHANGED <<tokens, cbData, net, linkVars, creds, asClient, plain>>

Impersonate ==
    /\ pc[Server] = "session"
    /\ asClient' = TRUE
    /\ Goto(Server, "name")
    /\ UNCHANGED <<tokens, secVars, ioVars, linkVars, plain>>

\* GetUserName, RevertSecurityContext, EncryptThis with the trailer the package
\* turns out to need.  main ignores a failure of EncryptThis: cbDataToClient is
\* still 0 and nothing is sent.
RevertAndEncrypt ==
    /\ pc[Server] = "name"
    /\ asClient' = FALSE
    /\ \/ \E a \in 1..MaxTrailer :
            /\ out' = [out EXCEPT ![Server] = EncryptThis(a)]
            /\ Goto(Server, "sendData")
       \/ out' = [out EXCEPT ![Server] = <<>>] /\ Goto(Server, "finish")
    /\ UNCHANGED <<tokens, inq, cbData, net, secVars, linkVars, plain>>

(* Seeded fault: the credentials of the finished conversation are kept.    *)
Finish_Fault ==
    /\ pc[Server] = "finish"
    /\ ctxts' = [ctxts EXCEPT ![Server] = @ - 1]
    /\ isOpen' = [isOpen EXCEPT ![serving] = @ \ {Server}]
    /\ serving' = None
    /\ Goto(Server, "listen")
    /\ UNCHANGED <<tokens, calls, fDone, creds, ioVars, conn, asClient, plain>>

\* The end of the loop's body.
Finish ==
    /\ pc[Server] = "finish"
    /\ ctxts' = [ctxts EXCEPT ![Server] = @ - 1]
    /\ creds' = [creds EXCEPT ![Server] = @ - 1]
    /\ calls' = [calls EXCEPT ![Server] = 0]
    /\ isOpen' = [isOpen EXCEPT ![serving] = @ \ {Server}]
    /\ serving' = None
    /\ Goto(Server, "listen")
    /\ UNCHANGED <<tokens, fDone, ioVars, conn, asClient, plain>>

-----------------------------------------------------------------------------
ClientStep(c) == \/ ConnectAuthSocket(c) \/ GenClientContext(c)
                 \/ SendBytes(c) \/ ReceiveBytes(c) \/ ClientStreamEnds(c)
                 \/ ClientMain(c)

ServerStep == \/ Listen \/ Accept \/ CloseListen \/ GenServerContext
              \/ SendBytes(Server) \/ ReceiveBytes(Server) \/ ServerStreamEnds
              \/ Impersonate \/ RevertAndEncrypt \/ Finish

Next == \/ ServerStep \/ ServerFails
        \/ \E c \in Clients : ClientStep(c) \/ ClientFails(c) \/ ConnectionBreaks(c)

\* Every process that can go on does; calls need not fail.
Spec == /\ Init /\ [][Next]_vars
        /\ WF_vars(ServerStep)
        /\ \A c \in Clients : WF_vars(ClientStep(c))

-----------------------------------------------------------------------------
Units == [kind : {"size", "token", "trailer", "data"}, val : Nat, at : Nat]

TypeOK ==
    /\ tokens \in [Clients -> 1..MaxTokens]
    /\ \A p \in Procs : pc[p] \in Sending \union Receiving \union
          IF p = Server
          THEN {"listen", "accept", "closeListen", "gen", "session", "name",
                "finish", "down"}
          ELSE {"start", "auth", "gen", "decrypt", "exit", "failed"}
    /\ calls \in [Procs -> Nat] /\ fDone \in [Procs -> BOOLEAN]
    /\ \A p \in Procs : calls[p] <= MaxTokens
    /\ out \in [Procs -> Seq(Units)] /\ inq \in [Procs -> Seq(Units)]
    /\ cbData \in [Procs -> 0..2]
    /\ net \in [Clients -> [{"up", "down"} -> Seq(Units)]]
    /\ conn \in [Clients -> {"none", "queued", "accepted", "reset"}]
    /\ \A c \in Clients : isOpen[c] \subseteq {c, Server}
    /\ serving \in Clients \union {None}
    /\ creds \in [Procs -> 0..1] /\ ctxts \in [Procs -> 0..1]
    /\ asClient \in BOOLEAN

\* However send and recv cut the stream, each call of the package is given
\* exactly the next token of its conversation, whole (SendMsg, ReceiveMsg).
TokensStayWhole ==
    \A p \in Procs : pc[p] = "gen" => inq[p] = Body(TokenIn(p))

\* A client that goes on to wait for the message has finished the conversation:
\* the package expects no more of it ("An authenticated session with a server
\* has been established"), and so has the server that sends it.
SessionEstablished ==
    /\ \A c \in Clients : pc[c] \in {"message", "decrypt", "exit"}
                             => 2 * calls[c] - 1 >= tokens[c]
    /\ pc[Server] \in {"session", "name", "sendData", "finish"}
          => 2 * calls[Server] >= tokens[serving]

\* What a client prints is what the server encrypted, from the first unit of
\* the data to the last, whatever size the trailer came out with and although
\* the last token may still have been in the same stream: decrypted, or, when
\* DecryptMessage failed, just that data as it came.
MessageArrives ==
    \A c \in Clients : plain[c] # None =>
        plain[c] \in {Run("plain", 1, DataLen), Run("data", 1, DataLen)}

\* When the server waits for a client it acts as itself and holds nothing of
\* the conversations before: no context, no credentials, no socket.
NothingKept ==
    pc[Server] \in {"listen", "accept"} =>
        /\ creds[Server] = 0 /\ ctxts[Server] = 0 /\ ~asClient
        /\ serving = None
        /\ \A c \in Clients : conn[c] = "accepted" => Server \notin isOpen[c]

\* No conversation ends with each side waiting for a token of the other: a
\* client that is connected gets its message or fails.
ClientEnds ==
    \A c \in Clients : (pc[c] = "auth") ~> (pc[c] \in {"exit", "failed"})
=============================================================================
